---------------------- MODULE ServiceAndManagerProofs ----------------------
(***************************************************************************)
(* Theorems about ServiceAndManager: the manager and the service together. *)
(*                                                                         *)
(* The invariants of the two ends are not proved again.  A step of the     *)
(* system is a step of the manager's module or leaves its variables alone  *)
(* (ManagersStep), so its inductive invariant is kept by the system.  Of   *)
(* the service's module it is a step, a crash of the process or the start  *)
(* of a new one (ServicesStep), and the invariant is kept by those two as  *)
(* well.  What is left is what the two ends know of each other: LinkInv    *)
(* for a manager that is there, PartingInv for one that has been disposed  *)
(* of.  Both are about what lies in outbox and inbox between the two.      *)
(***************************************************************************)
EXTENDS ServiceAndManager, SequenceTheorems, TLAPS

\* The theorems about the two ends, of the variables they have here.
MP == INSTANCE IndicatorServiceManagerProofs WITH inbox <- replies, owner <- Owner
SP == INSTANCE IndicatorServiceProofs WITH
    Managers <- {m}, Names <- {n}, Sender <- [x \in {m} |-> n]

-----------------------------------------------------------------------------
(* The manager, on this bus. *)

LEMMA ManagerInvInit == M!Init => MP!IInv
  BY MP!InitInv, ManagerAssumption DEF M!Init, MP!Init

\* The module of the theorems sees the same steps.
LEMMA ManagerSameNext == [M!Next]_(M!vars) => [MP!Next]_(MP!vars)
  BY DEF M!vars, MP!vars, M!handles, MP!handles, M!restart, MP!restart, M!pending, MP!pending,
     M!bus, MP!bus, M!Next, MP!Next, M!Dispatch, MP!Dispatch, M!Environment, MP!Environment,
     M!ProxyCreated, MP!ProxyCreated, M!WatchAnswered, MP!WatchAnswered, M!DroppedEnds,
     MP!DroppedEnds, M!ServiceDies, MP!ServiceDies, M!ServiceAppears, MP!ServiceAppears,
     M!ServiceReplaced, MP!ServiceReplaced, M!restart_in_idle, MP!restart_in_idle,
     M!restart_in_timeout, MP!restart_in_timeout, M!indicator_service_manager_dispose,
     MP!indicator_service_manager_dispose, M!service_proxy_cb_fails, MP!service_proxy_cb_fails,
     M!service_proxy_cb_succeeds, MP!service_proxy_cb_succeeds, M!watch_cb_fails,
     MP!watch_cb_fails, M!watch_cb_mismatch, MP!watch_cb_mismatch, M!watch_cb_connects,
     MP!watch_cb_connects, M!service_proxy_name_changed_lost, MP!service_proxy_name_changed_lost,
     M!service_proxy_name_changed_appeared, MP!service_proxy_name_changed_appeared,
     M!signal_unheard, MP!signal_unheard, M!start_service_again, MP!start_service_again,
     M!start_service_again_cb, MP!start_service_again_cb, M!start_service, MP!start_service,
     M!Received, MP!Received, M!Signalled, MP!Signalled, M!Blame, MP!Blame, M!Reply, MP!Reply,
     M!Tell, MP!Tell, M!Cancel, MP!Cancel, M!AtMost, MP!AtMost

LEMMA ManagerInvNext == MP!IInv /\ [M!Next]_(M!vars) => MP!IInv'
  BY ManagerSameNext, MP!NextInv, ManagerAssumption

-----------------------------------------------------------------------------

LEMMA OwnerKept ==
  ASSUME owner' = owner, process' = process
  PROVE  Owner' = Owner
  BY DEF Owner, Up

LEMMA ManagerKept ==
  ASSUME UNCHANGED manager, Owner' = Owner
  PROVE  UNCHANGED M!vars
  BY DEF manager, M!vars, M!handles, M!restart, M!pending, M!bus

LEMMA NameChangesIsManagers ==
  ASSUME NameChanges
  PROVE  [M!Next]_(M!vars)
<1>1. CASE Owner' = Owner
  BY <1>1, ManagerKept DEF NameChanges
<1>2. CASE Owner' # Owner /\ Owner' = "none"
  BY <1>2 DEF NameChanges, M!Next, M!Environment
<1>3. CASE Owner' # Owner /\ Owner' # "none"
  <2>1. Owner' \in {"good", "bad"}
    BY <1>3 DEF Owner
  <2>2. M!ServiceAppears(Owner') \/ M!ServiceReplaced(Owner')
    BY <1>3 DEF NameChanges
  <2> QED
    BY <2>1, <2>2 DEF M!Next, M!Environment
<1> QED
  BY <1>1, <1>2, <1>3

LEMMA AnsweredIsManagers ==
  ASSUME NEW result, Answered(result), Owner' = Owner
  PROVE  [M!Next]_(M!vars)
  BY ManagerKept DEF Answered, M!Next

LEMMA ManagersStep == [Next]_vars => [M!Next]_(M!vars)
<1> SUFFICES ASSUME [Next]_vars
             PROVE  [M!Next]_(M!vars)
  OBVIOUS
<1>1. CASE ManagerStep
  BY <1>1 DEF ManagerStep, M!Next
<1>2. CASE CallEnds
  BY <1>2 DEF CallEnds, M!Next
<1>3. CASE ManagerDisposes
  BY <1>3 DEF ManagerDisposes, M!Next
<1>4. CASE RouteToService
  BY <1>4, OwnerKept, ManagerKept DEF RouteToService, S!Call, S!object
<1>5. CASE RouteElsewhere
  <2>1. Owner' = Owner
    BY <1>5, OwnerKept DEF RouteElsewhere, service
  <2> QED
    BY <1>5, <2>1, AnsweredIsManagers, ManagerKept DEF RouteElsewhere
<1>6. CASE ServiceHandlesWatch
  <2>1. Owner' = Owner
    BY <1>6, OwnerKept DEF ServiceHandlesWatch, S!bus_watch, S!unregistered_call, S!world, S!object
  <2> QED
    BY <1>6, <2>1, AnsweredIsManagers DEF ServiceHandlesWatch
<1>7. CASE ServiceStep
  <2>1. Owner' = Owner
    BY <1>7, OwnerKept DEF ServiceStep, S!bus_get_cb, S!try_and_get_name_acquired_cb,
       S!try_and_get_name_lost_cb, S!bus_unwatch, S!unregistered_call, S!world, S!object
  <2> QED
    BY <1>7, <2>1, ManagerKept DEF ServiceStep
<1>8. CASE TimerFires
  <2>1. Owner' = Owner
    BY <1>8, OwnerKept DEF TimerFires, S!timeout_no_watchers, S!world
  <2> QED
    BY <1>8, <2>1, ManagerKept DEF TimerFires
<1>9. CASE ServiceTakesName \/ OtherLeaves \/ ServiceEnds
  BY <1>9, NameChangesIsManagers DEF ServiceTakesName, OtherLeaves, ServiceEnds
<1>10. CASE ServiceStarts
  <2>1. Owner' = Owner
    BY <1>10 DEF ServiceStarts, Owner, Up
  <2> QED
    BY <1>10, <2>1, ManagerKept DEF ServiceStarts
<1>11. CASE UNCHANGED vars
  <2>1. Owner' = Owner
    BY <1>11, OwnerKept DEF vars, service
  <2> QED
    BY <1>11, <2>1, ManagerKept DEF vars
<1> QED
  BY <1>1, <1>2, <1>3, <1>4, <1>5, <1>6, <1>7, <1>8, <1>9, <1>10, <1>11 DEF Next

-----------------------------------------------------------------------------
(* The service, process after process. *)

LEMMA ServiceInvInit == S!Init => SP!Inv
<1>1. [x \in {m} |-> n] \in [{m} -> {n}]
  OBVIOUS
<1>2. S!Init => SP!Init
  BY DEF S!Init, SP!Init
<1> QED
  BY <1>1, <1>2, SP!InitInv, ServiceAssumption

\* The module of the theorems sees the same steps.
LEMMA ServiceSameNext == [S!Next]_(S!vars) => [SP!Next]_(SP!vars)
  BY DEF S!vars, SP!vars, S!object, SP!object, S!world, SP!world, S!Next, SP!Next,
     S!Dispatch, SP!Dispatch, S!Vanish, SP!Vanish, S!Looping, SP!Looping,
     S!Registered, SP!Registered, S!Head1, SP!Head1, S!Consume, SP!Consume,
     S!bus_get_cb, SP!bus_get_cb, S!bus_watch, SP!bus_watch, S!bus_unwatch, SP!bus_unwatch,
     S!unwatch_core, SP!unwatch_core, S!bus_shutdown, SP!bus_shutdown,
     S!try_and_get_name_acquired_cb, SP!try_and_get_name_acquired_cb,
     S!try_and_get_name_lost_cb, SP!try_and_get_name_lost_cb,
     S!unregistered_call, SP!unregistered_call, S!watcher_vanished_cb, SP!watcher_vanished_cb,
     S!timeout_no_watchers, SP!timeout_no_watchers,
     S!indicator_service_dispose, SP!indicator_service_dispose, S!AppQuits, SP!AppQuits,
     S!RequestName, SP!RequestName, S!OtherLeaves, SP!OtherLeaves, S!Call, SP!Call,
     S!PeerDies, SP!PeerDies, S!Calls, SP!Calls, S!WatchCalls, SP!WatchCalls

LEMMA ServiceInvNext == SP!Inv /\ [S!Next]_(S!vars) => SP!Inv'
<1>1. [x \in {m} |-> n] \in [{m} -> {n}]
  OBVIOUS
<1> QED
  BY <1>1, ServiceSameNext, SP!NextInv, ServiceAssumption

LEMMA ServicesStep ==
  ASSUME [Next]_vars, outbox \in Seq({"Watch", "UnWatch"})
  PROVE  \/ [S!Next]_(S!vars)
         \/ ServiceCrashes
         \/ ServiceStarts
<1>1. ASSUME UNCHANGED service
      PROVE  UNCHANGED S!vars
  BY <1>1 DEF service, S!vars, S!object, S!world
<1>2. CASE ManagerStep \/ CallEnds \/ ManagerDisposes \/ RouteElsewhere \/ UNCHANGED vars
  BY <1>1, <1>2 DEF ManagerStep, CallEnds, ManagerDisposes, RouteElsewhere, vars
<1>3. CASE RouteToService
  <2>1. Head(outbox) \in {"Watch", "UnWatch"}
    BY <1>3 DEF RouteToService
  <2>2. [op |-> Head(outbox), from |-> m] \in S!Calls
    BY <2>1 DEF S!Calls, S!WatchCalls
  <2> QED
    BY <1>3, <2>2 DEF RouteToService, S!Next
<1>4. CASE ServiceHandlesWatch \/ ServiceStep
  BY <1>4 DEF ServiceHandlesWatch, ServiceStep, S!Next, S!Dispatch
<1>5. CASE TimerFires \/ ServiceTakesName \/ OtherLeaves
  BY <1>5 DEF TimerFires, ServiceTakesName, OtherLeaves, S!Next
<1>6. CASE ServiceEnds
  BY <1>6 DEF ServiceEnds, S!Next, S!Dispatch
<1>7. CASE ServiceStarts
  BY <1>7
<1> QED
  BY <1>2, <1>3, <1>4, <1>5, <1>6, <1>7 DEF Next

LEMMA ServiceInvStep ==
  ASSUME [Next]_vars, outbox \in Seq({"Watch", "UnWatch"}), SP!Inv
  PROVE  SP!Inv'
<1>1. CASE [S!Next]_(S!vars)
  BY <1>1, ServiceInvNext
<1>2. CASE ServiceCrashes
  BY <1>2 DEF ServiceCrashes, SP!Inv, SP!TypeOK, SP!AnnouncedBeforeCalled, SP!ArmedOnlyUnwatched,
     SP!UnwatchedIsTimed, SP!CallOps
<1>3. CASE ServiceStarts
  <2>1. SP!TypeOK'
    <3>1. inbox' \in Seq(SP!Messages) /\ calls' \in 0 .. MaxCalls
      BY <1>3, ServiceAssumption DEF ServiceStarts
    <3>2. owner' \in {"nobody", "other", "self"}
      BY <1>3 DEF ServiceStarts, SP!Inv, SP!TypeOK
    <3> QED
      BY <1>3, <3>1, <3>2 DEF ServiceStarts, SP!Inv, SP!TypeOK
  <2>2. Len(inbox') = 0 /\ owner' # "self"
    BY <1>3 DEF ServiceStarts
  <2>3. SP!AnnouncedBeforeCalled'
    BY <1>3, <2>2 DEF ServiceStarts, SP!AnnouncedBeforeCalled
  <2> QED
    BY <1>3, <2>1, <2>3 DEF ServiceStarts, SP!Inv, SP!ArmedOnlyUnwatched, SP!UnwatchedIsTimed
<1> QED
  BY <1>1, <1>2, <1>3, ServicesStep

-----------------------------------------------------------------------------
(* What is between the two. *)

\* UnWatch is said by dispose only.
NoParting ==
    ~disposed => /\ \A i \in 1 .. Len(outbox) : outbox[i] # "UnWatch"
                 /\ \A i \in 1 .. Len(inbox) : inbox[i].op # "UnWatch"

\* Nobody counts the manager where nobody has the name.
CountedByOwner == Owner = "none" => ~counted

LinkInv ==
    /\ outbox \in Seq({"Watch", "UnWatch"})
    /\ ~restart_disabled
    /\ NoParting
    /\ CountedByOwner
    /\ CountedIsWatched

IInv == MP!IInv /\ SP!Inv /\ LinkInv

\* What is said to the service when nothing else happens to it.
LEMMA OwnStep ==
  ASSUME M!Dispatch \/ M!restart_in_idle \/ M!restart_in_timeout
  PROVE  disposed' = disposed /\ restart_disabled' = restart_disabled /\ (counted' => counted)
<1>1. CASE M!watch_cb_mismatch
  <2>1. counted' = (counted /\ ~(proxy /\ Owner = "bad"))
    BY <1>1 DEF M!watch_cb_mismatch
  <2>2. counted' => counted
    BY <2>1, Zenon
  <2> QED
    BY <1>1, <2>2 DEF M!watch_cb_mismatch
<1>2. CASE ~M!watch_cb_mismatch
  BY <1>2 DEF M!Dispatch, M!restart_in_idle, M!restart_in_timeout, M!start_service_again_cb, M!bus,
     M!service_proxy_cb_fails, M!service_proxy_cb_succeeds, M!watch_cb_fails, M!watch_cb_connects,
     M!service_proxy_name_changed_lost, M!service_proxy_name_changed_appeared, M!signal_unheard
<1> QED
  BY <1>1, <1>2

\* A sequence of Watch calls.
LEMMA WatchCallsOnly ==
  ASSUME NEW a \in Nat, NEW b \in Nat, NEW said, said = [i \in 1 .. a - b |-> "Watch"]
  PROVE  /\ said \in Seq({"Watch", "UnWatch"})
         /\ \A i \in 1 .. Len(said) : said[i] # "UnWatch"
<1>1. PICK l \in Nat : 1 .. a - b = 1 .. l
  <2>1. CASE b <= a
    <3>1. a - b \in Nat
      BY <2>1
    <3> QED
      BY <3>1
  <2>2. CASE ~(b <= a)
    <3>1. 1 .. a - b = 1 .. 0
      BY <2>2
    <3> QED
      BY <3>1
  <2> QED
    BY <2>1, <2>2
<1>2. said = [i \in 1 .. l |-> "Watch"]
  BY <1>1
<1>3. said \in Seq({"Watch", "UnWatch"}) /\ Len(said) = l
  <2>1. said \in [1 .. l -> {"Watch", "UnWatch"}]
    BY <1>2
  <2>2. said \in Seq({"Watch", "UnWatch"})
    BY ONLY <2>1, l \in Nat
  <2>3. DOMAIN said = 1 .. l
    BY <1>2
  <2>4. DOMAIN said = 1 .. Len(said) /\ Len(said) \in Nat
    BY <2>2, LenProperties
  <2> QED
    BY ONLY <2>2, <2>3, <2>4, l \in Nat
<1>4. \A i \in 1 .. l : said[i] = "Watch"
  BY <1>2
<1> QED
  BY <1>3, <1>4

\* An answer that is not good does not say that a good owner counts the manager.
LEMMA AnsweredCounts ==
  ASSUME IInv, NEW result \in {"error", "good", "bad"}, Answered(result), Owner' = Owner
  PROVE  /\ disposed' = disposed /\ restart_disabled' = restart_disabled
         /\ Owner = "none" => counted' = counted
         /\ Owner = "good" /\ result # "good" => counted' = counted
<1>1. CASE disposed
  BY <1>1 DEF Answered, manager
<1>2. CASE ~disposed
  <2> DEFINE told(r) == [ev |-> "Watch", result |-> r]
  <2>1. M!WatchAnswered /\ replies' = Append(replies, told(result))
    BY <1>2 DEF Answered
  <2>2. replies \in Seq(MP!Messages)
    BY DEF IInv, MP!IInv, MP!TypeOK
  <2>3. ASSUME NEW r \in {"error", "good", "bad"}, replies' = Append(replies, told(r))
        PROVE  r = result
    <3>1. told(r) \in MP!Messages /\ told(result) \in MP!Messages
      BY Zenon DEF MP!Messages, MP!WatchReplies
    <3>2. told(r) = told(result)
      <4> HIDE DEF told
      <4>1. Append(replies, told(r)) = Append(replies, told(result))
        BY <2>1, <2>3
      <4> QED
        BY ONLY <2>2, <3>1, <4>1, AppendInjective, SMT
    <3>3. told(r).result = told(result).result
      BY <3>2, Zenon
    <3> QED
      BY <3>3
  <2>4. \/ counted' = counted
        \/ Owner # "none" /\ Owner = result
    <3>1. Owner # "none" => Owner \in {"error", "good", "bad"}
      BY DEF Owner
    <3> QED
      BY <2>1, <2>3, <3>1 DEF M!WatchAnswered, M!Reply
  <2>5. disposed' = disposed /\ restart_disabled' = restart_disabled
    BY <2>1 DEF M!WatchAnswered
  <2> QED
    BY <2>4, <2>5
<1> QED
  BY <1>1, <1>2

\* A change of the owner is not kept from the manager.
LEMMA NewOwnerCountsNobody ==
  ASSUME IInv, NameChanges
  PROVE  /\ disposed' = disposed /\ restart_disabled' = restart_disabled
         /\ Owner' = Owner => counted' = counted
         /\ Owner' # Owner => ~counted'
<1>1. CASE Owner' = Owner
  BY <1>1 DEF NameChanges, manager
<1>2. CASE Owner' # Owner
  BY <1>2 DEF NameChanges, M!ServiceDies, M!ServiceAppears, M!ServiceReplaced, IInv, LinkInv,
     CountedByOwner
<1> QED
  BY <1>1, <1>2

LEMMA LinkInit == Init => LinkInv
<1> SUFFICES ASSUME Init
             PROVE  LinkInv
  OBVIOUS
<1>1. Len(outbox) = 0 /\ Len(inbox) = 0 /\ outbox \in Seq({"Watch", "UnWatch"})
  BY DEF Init, S!Init
<1> QED
  BY <1>1 DEF Init, M!Init, LinkInv, NoParting, CountedByOwner, CountedIsWatched

LEMMA LinkNext ==
  ASSUME IInv, [Next]_vars
  PROVE  LinkInv'
<1> USE DEF IInv, LinkInv
<1>t. /\ inbox \in Seq(SP!Messages) /\ watchers \in SUBSET {n}
      /\ watching \in Nat
  BY DEF SP!Inv, SP!TypeOK, MP!IInv, MP!TypeOK
<1>1. CASE ManagerStep
  <2>1. /\ UNCHANGED <<disposed, restart_disabled>> /\ Owner' = Owner
        /\ counted' => counted
    BY <1>1, OwnStep, OwnerKept DEF ManagerStep, service
  <2>2. watching' \in Nat
    BY ManagersStep, ManagerInvNext DEF MP!IInv, MP!TypeOK
  <2> DEFINE said == [i \in 1 .. watching' - watching |-> "Watch"]
  <2>3. /\ said \in Seq({"Watch", "UnWatch"})
        /\ \A i \in 1 .. Len(said) : said[i] # "UnWatch"
    BY <1>t, <2>2, WatchCallsOnly
  <2>4. outbox' = outbox \o said
    BY <1>1 DEF ManagerStep, Sends
  <2> HIDE DEF said
  <2>5. /\ outbox' \in Seq({"Watch", "UnWatch"})
        /\ ~disposed => \A i \in 1 .. Len(outbox') : outbox'[i] # "UnWatch"
    BY <2>3, <2>4 DEF NoParting
  <2>6. UNCHANGED <<inbox, watchers>>
    BY <1>1 DEF ManagerStep, service
  <2> QED
    BY <2>1, <2>5, <2>6 DEF NoParting, CountedByOwner, CountedIsWatched
<1>2. CASE CallEnds
  <2>1. UNCHANGED <<disposed, restart_disabled, inbox, watchers, outbox, counted>> /\ Owner' = Owner
    BY <1>2, OwnerKept DEF CallEnds, service, M!ProxyCreated, M!DroppedEnds, M!bus
  <2> QED
    BY <2>1 DEF NoParting, CountedByOwner, CountedIsWatched
<1>3. CASE ManagerDisposes
  <2>1. /\ disposed' /\ (counted' => counted) /\ restart_disabled' = restart_disabled
        /\ Owner' = Owner
    BY <1>3 DEF ManagerDisposes, M!indicator_service_manager_dispose
  <2>2. outbox' \in Seq({"Watch", "UnWatch"})
    BY <1>3 DEF ManagerDisposes
  <2> QED
    BY <2>1, <2>2 DEF NoParting, CountedByOwner, CountedIsWatched
<1>4. CASE RouteToService
  <2>1. /\ UNCHANGED <<disposed, restart_disabled, counted, watchers>> /\ Owner' = Owner
        /\ outbox # <<>> /\ outbox' = Tail(outbox)
        /\ inbox' = Append(inbox, [op |-> Head(outbox), from |-> m])
    BY <1>4, OwnerKept DEF RouteToService, S!Call, S!object, manager
  <2>2. outbox' \in Seq({"Watch", "UnWatch"})
    BY <2>1
  <2>3. NoParting'
    BY <1>t, <2>1 DEF NoParting
  <2> QED
    BY <2>1, <2>2, <2>3 DEF CountedByOwner, CountedIsWatched
<1>5. CASE RouteElsewhere
  <2>1. /\ UNCHANGED <<inbox, watchers>> /\ Owner' = Owner
        /\ outbox # <<>> /\ outbox' = Tail(outbox)
    BY <1>5, OwnerKept DEF RouteElsewhere, service
  <2>2. /\ UNCHANGED <<disposed, restart_disabled>>
        /\ Owner = "none" => counted' = counted
        /\ Owner = "good" => counted' = counted
    <3>1. CASE UNCHANGED manager
      BY <3>1 DEF manager
    <3>2. ASSUME NEW result \in IF Owner = "bad" THEN {"bad", "error"} ELSE {"error"},
                 Answered(result)
          PROVE  /\ UNCHANGED <<disposed, restart_disabled>>
                 /\ Owner = "none" => counted' = counted
                 /\ Owner = "good" => counted' = counted
      BY <2>1, <3>2, AnsweredCounts
    <3> QED
      BY <1>5, <3>1, <3>2 DEF RouteElsewhere
  <2>3. outbox' \in Seq({"Watch", "UnWatch"}) /\ NoParting'
    BY <2>1, <2>2 DEF NoParting
  <2> QED
    BY <2>1, <2>2, <2>3 DEF CountedByOwner, CountedIsWatched
<1>6. CASE ServiceHandlesWatch
  <2>1. /\ Owner' = Owner /\ outbox' = outbox
        /\ inbox # <<>> /\ inbox' = Tail(inbox)
    BY <1>6, OwnerKept DEF ServiceHandlesWatch, S!bus_watch, S!unregistered_call, S!world, S!object,
       S!Consume
  <2>2. /\ UNCHANGED <<disposed, restart_disabled>>
        /\ Owner = "none" => counted' = counted
        /\ \/ n \in watchers'
           \/ watchers' = watchers /\ (Owner = "good" => counted' = counted)
    BY <1>6, <2>1, AnsweredCounts
       DEF ServiceHandlesWatch, S!bus_watch, S!unregistered_call, S!object
  <2>3. NoParting'
    BY <1>t, <2>1, <2>2 DEF NoParting
  <2> QED
    BY <2>1, <2>2, <2>3 DEF CountedByOwner, CountedIsWatched
<1>7. CASE ServiceStep
  <2>1. /\ Owner' = Owner
        /\ UNCHANGED <<disposed, restart_disabled, counted, outbox>>
    BY <1>7, OwnerKept DEF ServiceStep, manager, S!bus_get_cb, S!try_and_get_name_acquired_cb,
       S!try_and_get_name_lost_cb, S!bus_unwatch, S!unregistered_call, S!world, S!object
  <2>2. \/ inbox' = inbox
        \/ inbox # <<>> /\ inbox' = Tail(inbox)
    <3>1. ASSUME NEW op, S!Head1(op), S!Consume
          PROVE  inbox # <<>> /\ inbox' = Tail(inbox)
      BY <3>1 DEF S!Head1, S!Consume
    <3>2. CASE S!bus_get_cb
      BY <3>2 DEF S!bus_get_cb
    <3>3. CASE S!try_and_get_name_acquired_cb
      BY <3>1, <3>3 DEF S!try_and_get_name_acquired_cb
    <3>4. CASE S!try_and_get_name_lost_cb
      BY <3>1, <3>4 DEF S!try_and_get_name_lost_cb
    <3>5. CASE S!bus_unwatch(m)
      BY <3>1, <3>5 DEF S!bus_unwatch
    <3>6. CASE S!unregistered_call
      BY <3>1, <3>6 DEF S!unregistered_call
    <3> QED
      BY <1>7, <3>2, <3>3, <3>4, <3>5, <3>6 DEF ServiceStep
  <2>3. watchers' = watchers \/ disposed
    <3>1. CASE S!bus_unwatch(m)
      <4>1. inbox # <<>> /\ Head(inbox).op = "UnWatch"
        BY <3>1 DEF S!bus_unwatch, S!Head1
      <4>2. Len(inbox) \in Nat \ {0} /\ inbox[1].op = "UnWatch"
        BY <1>t, <4>1
      <4> QED
        BY <4>2 DEF NoParting
    <3>2. CASE ~S!bus_unwatch(m)
      BY <1>7, <3>2 DEF ServiceStep, S!bus_get_cb, S!try_and_get_name_acquired_cb,
         S!try_and_get_name_lost_cb, S!unregistered_call, S!object
    <3> QED
      BY <3>1, <3>2
  <2>4. NoParting'
    <3>1. \A i \in 1 .. Len(inbox') : \E j \in 1 .. Len(inbox) : inbox'[i] = inbox[j]
      <4>1. CASE inbox' = inbox
        BY <4>1
      <4>2. CASE inbox # <<>> /\ inbox' = Tail(inbox)
        BY <1>t, <4>2
      <4> QED
        BY <2>2, <4>1, <4>2
    <3> QED
      BY <2>1, <3>1 DEF NoParting
  <2> QED
    BY <2>1, <2>3, <2>4 DEF CountedByOwner, CountedIsWatched
<1>8. CASE TimerFires
  <2>1. UNCHANGED <<disposed, restart_disabled, counted, outbox, inbox, watchers>> /\ Owner' = Owner
    BY <1>8, OwnerKept DEF TimerFires, S!timeout_no_watchers, S!world, manager
  <2> QED
    BY <2>1 DEF NoParting, CountedByOwner, CountedIsWatched
<1>9. CASE ServiceTakesName \/ OtherLeaves
  <2>1. /\ UNCHANGED <<outbox, watchers>>
        /\ \/ inbox' = inbox
           \/ \E op \in {"NameAcquired", "NameLost"} : inbox' = Append(inbox, [op |-> op])
    BY <1>9 DEF ServiceTakesName, OtherLeaves, S!RequestName, S!OtherLeaves, S!object
  <2>2. /\ UNCHANGED <<disposed, restart_disabled>>
        /\ Owner' = Owner => counted' = counted
        /\ Owner' # Owner => ~counted'
    BY <1>9, NewOwnerCountsNobody DEF ServiceTakesName, OtherLeaves
  <2>3. NoParting'
    <3>1. CASE inbox' = inbox
      BY <2>1, <2>2, <3>1 DEF NoParting
    <3>2. ASSUME NEW op \in {"NameAcquired", "NameLost"}, inbox' = Append(inbox, [op |-> op])
          PROVE  NoParting'
      <4>1. PICK e \in SP!Messages : inbox' = Append(inbox, e) /\ e.op # "UnWatch"
        BY <3>2 DEF SP!Messages, SP!NameEvents
      <4>2. \A i \in 1 .. Len(inbox') : \/ i \in 1 .. Len(inbox) /\ inbox'[i] = inbox[i]
                                        \/ inbox'[i] = e
        BY <1>t, <4>1
      <4> QED
        BY <2>1, <2>2, <4>1, <4>2 DEF NoParting
    <3> QED
      BY <2>1, <3>1, <3>2
  <2> QED
    BY <2>1, <2>2, <2>3 DEF CountedByOwner, CountedIsWatched
<1>10. CASE ServiceEnds
  <2>1. UNCHANGED <<outbox, watchers, inbox>>
    BY <1>10 DEF ServiceEnds, ServiceCrashes, S!AppQuits, S!bus_get_cb
  <2>2. /\ UNCHANGED <<disposed, restart_disabled>>
        /\ Owner' = Owner => counted' = counted
        /\ Owner' # Owner => ~counted'
    BY <1>10, NewOwnerCountsNobody DEF ServiceEnds
  <2> QED
    BY <2>1, <2>2 DEF NoParting, CountedByOwner, CountedIsWatched
<1>11. CASE ServiceStarts
  <2>1. /\ UNCHANGED <<disposed, restart_disabled, counted, outbox>> /\ Len(inbox') = 0
        /\ Owner' = Owner /\ Owner # "good"
    BY <1>11 DEF ServiceStarts, manager, Owner, Up
  <2> QED
    BY <2>1 DEF NoParting, CountedByOwner, CountedIsWatched
<1>12. CASE UNCHANGED vars
  <2>1. UNCHANGED <<disposed, restart_disabled, counted, outbox, inbox, watchers>> /\ Owner' = Owner
    BY <1>12, OwnerKept DEF vars, manager, service
  <2> QED
    BY <2>1 DEF NoParting, CountedByOwner, CountedIsWatched
<1> QED
  BY <1>1, <1>2, <1>3, <1>4, <1>5, <1>6, <1>7, <1>8, <1>9, <1>10, <1>11, <1>12 DEF Next

LEMMA Invariance == Spec => []IInv
<1>1. Init => IInv
  BY ManagerInvInit, ServiceInvInit, LinkInit DEF Init, IInv
<1>2. IInv /\ [Next]_vars => IInv'
  BY ManagersStep, ManagerInvNext, ServiceInvStep, LinkNext DEF IInv, LinkInv
<1> QED
  BY <1>1, <1>2, PTL DEF Spec

\* A service of the right version that has answered Watch has the manager in its table
\* of watchers, whatever is in flight, until it ends or the manager is disposed of:
\* what the manager's module takes for granted of bus_watch and unwatch_core is kept.
THEOREM CountIsTrue == Spec => []CountedIsWatched
<1>1. IInv => CountedIsWatched
  BY DEF IInv, LinkInv
<1> QED
  BY <1>1, Invariance, PTL

\* bus_watch is served after the name was acquired, and the name is not lost again.
LEMMA NamedWhenWatched ==
  ASSUME SP!Inv, watchers # {}
  PROVE  named
<1>1. owner = "self" /\ \A i \in 1 .. Len(inbox) : inbox[i].op \in SP!CallOps
  BY DEF SP!Inv, SP!AnnouncedBeforeCalled
<1>2. \A i \in 1 .. Len(inbox) : inbox[i].op # "NameAcquired"
  BY <1>1 DEF SP!CallOps
<1> QED
  BY <1>1, <1>2 DEF SP!Inv, SP!AnnouncedBeforeCalled

\* A manager with nothing pending is connected to a running process that watches it and
\* whose timer is off: nothing is left on either end that could part the two.
THEOREM RestLasts == Spec => []RestIsLasting
<1>1. IInv => RestIsLasting
  <2> SUFFICES ASSUME IInv, M!Quiescent, ~disposed
               PROVE  connected /\ Up /\ named /\ n \in watchers /\ timeout # "armed"
    BY DEF RestIsLasting
  <2>1. connected /\ Owner = "good" /\ counted
    BY DEF IInv, LinkInv, MP!IInv, MP!QuiescentIsConnected, MP!Quiescent, M!Quiescent
  <2>2. Up
    BY <2>1 DEF Owner
  <2>3. n \in watchers
    BY <2>1 DEF IInv, LinkInv, CountedIsWatched
  <2>4. named /\ timeout # "armed"
    BY <2>3, NamedWhenWatched DEF IInv, SP!Inv, SP!ArmedOnlyUnwatched
  <2> QED
    BY <2>1, <2>2, <2>3, <2>4
<1> QED
  BY <1>1, Invariance, PTL


\* The timer does not fire under a manager that the service counts: where it is armed
\* the table is empty, and a manager that is counted is in it.
THEOREM TimerSpares == Spec => TimerSparesServed
<1>1. IInv => (TimerFires => ~(counted /\ ~disposed /\ Owner = "good"))
  <2> SUFFICES ASSUME IInv, TimerFires, counted, ~disposed, Owner = "good"
               PROVE  FALSE
    OBVIOUS
  <2>1. watchers = {}
    BY DEF TimerFires, S!timeout_no_watchers, IInv, SP!Inv, SP!ArmedOnlyUnwatched
  <2>2. n \in watchers
    BY DEF IInv, LinkInv, CountedIsWatched
  <2> QED
    BY <2>1, <2>2
<1> QED
  BY <1>1, Invariance, PTL DEF TimerSparesServed

-----------------------------------------------------------------------------
(* The end of it: what is left of a manager after dispose. *)

LEMMA ServiceRestNext ==
  ASSUME SP!Inv, SP!RestInv, [S!Next]_(S!vars)
  PROVE  SP!RestInv'
<1>1. [x \in {m} |-> n] \in [{m} -> {n}]
  OBVIOUS
<1> QED
  BY <1>1, ServiceSameNext, SP!RestNext, ServiceAssumption

\* A crash leaves nothing to be said of the process, and a new one has nobody to watch.
LEMMA RestInvNext ==
  ASSUME IInv, SP!RestInv, [Next]_vars
  PROVE  SP!RestInv'
<1>1. CASE [S!Next]_(S!vars)
  BY <1>1, ServiceRestNext DEF IInv
<1>2. CASE ServiceCrashes
  BY <1>2 DEF ServiceCrashes, SP!RestInv, SP!NameEventPending
<1>3. CASE ServiceStarts
  BY <1>3 DEF ServiceStarts, SP!RestInv
<1> QED
  BY <1>1, <1>2, <1>3, ServicesStep DEF IInv, LinkInv

\* No callback of the manager will say anything to the service again: it has no proxy,
\* nothing is on its way that could bring one, and no restart is scheduled or will be.
IdleForEver ==
    /\ disposed /\ ~proxy
    /\ idles = 0 /\ timers = 0 /\ creating = 0 /\ watching = 0
    /\ restart_source = "blocked"
    /\ \A i \in 1 .. Len(replies) : replies[i].ev = "Proxy" => replies[i].result # "owned"

\* What the service has been told, or will be, ends with UnWatch.
Forgetting ==
    \/ \E i \in 1 .. Len(inbox) :
           /\ inbox[i].op = "UnWatch"
           /\ \A j \in i + 1 .. Len(inbox) : inbox[j].op # "Watch"
    \/ /\ watchers = {}
       /\ \A j \in 1 .. Len(inbox) : inbox[j].op # "Watch"

LastWord ==
    /\ outbox # <<>> => outbox[Len(outbox)] = "UnWatch"
    /\ (outbox = <<>> /\ Up) => Forgetting

PartingInv == parted => IdleForEver /\ LastWord

\* A reply that brings a proxy is not put into the queue any more.
LEMMA NoNewProxy ==
  ASSUME IdleForEver,
         UNCHANGED <<disposed, proxy, idles, timers, creating, watching, restart_source>>,
         \A i \in 1 .. Len(replies') :
             \/ \E j \in 1 .. Len(replies) : replies'[i] = replies[j]
             \/ replies'[i].ev = "Proxy" => replies'[i].result = "error"
  PROVE  IdleForEver'
  BY DEF IdleForEver

\* A restart is blocked: the callbacks that ask for one are refused.
LEMMA AgainRefused ==
  ASSUME IdleForEver, NEW count, M!start_service_again(count)
  PROVE  UNCHANGED <<restart_source, idles, timers>>
  BY DEF IdleForEver, M!start_service_again

LEMMA IdleKept ==
  ASSUME MP!IInv, IdleForEver, [M!Next]_(M!vars)
  PROVE  IdleForEver'
<1> DEFINE Same == UNCHANGED <<disposed, proxy, idles, timers, creating, watching, restart_source>>
<1>t. MP!TypeOK
  BY DEF MP!IInv
<1>e. Len(replies) \in Nat
  BY <1>t DEF MP!TypeOK
<1>r. ASSUME NEW ev \in {"Proxy", "Watch"}, NEW results, M!Received(ev, results), Same
      PROVE  IdleForEver'
  <2>1. \A i \in 1 .. Len(replies') : \E j \in 1 .. Len(replies) : replies'[i] = replies[j]
    BY <1>t, <1>r DEF M!Received, MP!TypeOK
  <2> QED
    BY <1>r, <2>1, NoNewProxy
<1>s. ASSUME NEW ev \in {"Lost", "Appeared"}, M!Signalled(ev), Same
      PROVE  IdleForEver'
  <2>1. MP!Signalled(ev)
    BY <1>s DEF M!Signalled, MP!Signalled
  <2>2. \A i \in 1 .. Len(replies') :
            \/ \E j \in 1 .. Len(replies) : replies'[i] = replies[j]
            \/ replies'[i].ev # "Proxy"
    BY <1>t, <2>1, MP!SignalledFacts, ManagerAssumption
  <2> QED
    BY <1>s, <2>2, NoNewProxy
<1>a. ASSUME NEW msg, msg.ev = "Proxy" => msg.result = "error",
             replies' = Append(replies, msg), Same
      PROVE  IdleForEver'
  <2>1. \A i \in 1 .. Len(replies') :
            \/ \E j \in 1 .. Len(replies) : replies'[i] = replies[j]
            \/ replies'[i] = msg
    BY <1>a, <1>t DEF MP!TypeOK
  <2> QED
    BY <1>a, <2>1, NoNewProxy
<1>k. ASSUME replies' = replies, Same
      PROVE  IdleForEver'
  BY <1>k, <1>e, NoNewProxy
<1> HIDE DEF Same
<1>1. CASE M!service_proxy_cb_fails \/ M!watch_cb_fails \/ M!watch_cb_mismatch
  <2>1. Same
    BY <1>1, AgainRefused DEF M!service_proxy_cb_fails, M!watch_cb_fails, M!watch_cb_mismatch,
       M!pending, M!handles, Same
  <2> QED
    BY <1>1, <2>1, <1>r DEF M!service_proxy_cb_fails, M!watch_cb_fails, M!watch_cb_mismatch
<1>2. CASE M!service_proxy_cb_succeeds
  <2>1. replies # <<>> /\ Head(replies).ev = "Proxy" /\ Head(replies).result = "owned"
    BY <1>2 DEF M!service_proxy_cb_succeeds, M!Received
  <2> QED
    BY <1>t, <2>1 DEF MP!TypeOK, IdleForEver
<1>3. CASE M!watch_cb_connects
  <2>1. Same
    BY <1>3 DEF M!watch_cb_connects, M!pending, M!handles, Same
  <2> QED
    BY <1>3, <2>1, <1>r DEF M!watch_cb_connects
<1>4. CASE M!service_proxy_name_changed_lost
  <2>1. Same
    BY <1>4, AgainRefused DEF M!service_proxy_name_changed_lost, M!pending, M!handles, Same
  <2> QED
    BY <1>4, <2>1, <1>s DEF M!service_proxy_name_changed_lost
<1>5. CASE M!service_proxy_name_changed_appeared
  <2>1. Same
    BY <1>5 DEF M!service_proxy_name_changed_appeared, M!restart, M!handles, IdleForEver, Same
  <2> QED
    BY <1>5, <2>1, <1>s DEF M!service_proxy_name_changed_appeared
<1>6. CASE M!signal_unheard
  <2>1. Same
    BY <1>6 DEF M!signal_unheard, M!pending, M!restart, M!handles, Same
  <2> QED
    BY <1>6, <2>1, <1>s DEF M!signal_unheard
<1>7. CASE M!restart_in_idle \/ M!restart_in_timeout \/ M!indicator_service_manager_dispose
           \/ M!ProxyCreated \/ M!WatchAnswered
  BY <1>7 DEF M!restart_in_idle, M!restart_in_timeout, M!indicator_service_manager_dispose,
     M!ProxyCreated, M!WatchAnswered, IdleForEver
<1>8. CASE M!DroppedEnds
  <2>1. Same
    BY <1>8 DEF M!DroppedEnds, M!restart, M!handles, Same
  <2>2. \/ replies' = Append(replies, [ev |-> "Proxy", result |-> "error"])
        \/ replies' = Append(replies, [ev |-> "Watch", result |-> "error"])
    BY <1>8 DEF M!DroppedEnds, M!Reply
  <2> QED
    BY <2>1, <2>2, <1>a
<1>9. CASE M!Environment
  <2>1. Same
    BY <1>9 DEF M!Environment, M!ServiceDies, M!ServiceAppears, M!ServiceReplaced, M!pending,
       M!restart, M!handles, Same
  <2>2. \/ replies' = replies
        \/ \E ev \in {"Lost", "Appeared"} : replies' = Append(replies, [ev |-> ev, left |-> subs])
    BY <1>9 DEF M!Environment, M!ServiceDies, M!ServiceAppears, M!ServiceReplaced, M!Tell
  <2> QED
    BY <2>1, <2>2, <1>a, <1>k
<1>10. CASE UNCHANGED M!vars
  BY <1>10, <1>k DEF M!vars, M!pending, M!restart, M!handles, Same
<1> QED
  BY <1>1, <1>2, <1>3, <1>4, <1>5, <1>6, <1>7, <1>8, <1>9, <1>10 DEF M!Next, M!Dispatch


\* Taking a message from the inbox: an UnWatch that is handled empties the table.
LEMMA ForgettingConsumed ==
  ASSUME SP!TypeOK, Forgetting, inbox # <<>>, inbox' = Tail(inbox),
         Head(inbox).op = "UnWatch" => watchers' = {},
         Head(inbox).op # "Watch" => watchers' \subseteq watchers
  PROVE  Forgetting'
<1>1. /\ inbox \in Seq(SP!Messages) /\ Len(inbox) \in Nat \ {0}
      /\ Head(inbox) = inbox[1]
      /\ Len(inbox') = Len(inbox) - 1
      /\ \A i \in 1 .. Len(inbox') : i + 1 \in 1 .. Len(inbox) /\ inbox'[i] = inbox[i + 1]
  BY DEF SP!TypeOK
<1>2. ASSUME NEW i \in 1 .. Len(inbox), inbox[i].op = "UnWatch",
             \A j \in i + 1 .. Len(inbox) : inbox[j].op # "Watch"
      PROVE  Forgetting'
  <2>1. CASE i = 1
    <3>1. watchers' = {}
      BY <1>1, <1>2, <2>1
    <3>2. \A j \in 1 .. Len(inbox') : inbox'[j].op # "Watch"
      BY <1>1, <1>2, <2>1
    <3> QED
      BY <3>1, <3>2 DEF Forgetting
  <2>2. CASE i # 1
    <3>1. i - 1 \in 1 .. Len(inbox') /\ inbox'[i - 1].op = "UnWatch"
      BY <1>1, <1>2, <2>2
    <3>2. \A j \in (i - 1) + 1 .. Len(inbox') : inbox'[j].op # "Watch"
      BY <1>1, <1>2, <2>2
    <3> QED
      BY <3>1, <3>2 DEF Forgetting
  <2> QED
    BY <2>1, <2>2
<1>3. CASE watchers = {} /\ \A j \in 1 .. Len(inbox) : inbox[j].op # "Watch"
  <2>1. watchers' = {}
    BY <1>1, <1>3
  <2>2. \A j \in 1 .. Len(inbox') : inbox'[j].op # "Watch"
    BY <1>1, <1>3
  <2> QED
    BY <2>1, <2>2 DEF Forgetting
<1> QED
  BY <1>2, <1>3 DEF Forgetting

\* A message that is no Watch is added to the inbox.
LEMMA ForgettingAppended ==
  ASSUME SP!TypeOK, NEW e, e.op # "Watch", inbox' = Append(inbox, e), watchers' = watchers,
         Forgetting \/ e.op = "UnWatch"
  PROVE  Forgetting'
<1>1. /\ Len(inbox) \in Nat /\ Len(inbox') = Len(inbox) + 1 /\ inbox'[Len(inbox) + 1] = e
      /\ \A i \in 1 .. Len(inbox) : inbox'[i] = inbox[i]
  BY DEF SP!TypeOK
<1>2. CASE e.op = "UnWatch"
  <2>1. /\ Len(inbox) + 1 \in 1 .. Len(inbox')
        /\ \A j \in (Len(inbox) + 1) + 1 .. Len(inbox') : inbox'[j].op # "Watch"
    BY <1>1
  <2> QED
    BY <1>1, <1>2, <2>1 DEF Forgetting
<1>3. ASSUME NEW i \in 1 .. Len(inbox), inbox[i].op = "UnWatch",
             \A j \in i + 1 .. Len(inbox) : inbox[j].op # "Watch"
      PROVE  Forgetting'
  <2>1. /\ i \in 1 .. Len(inbox') /\ inbox'[i].op = "UnWatch"
        /\ \A j \in i + 1 .. Len(inbox') : inbox'[j].op # "Watch"
    BY <1>1, <1>3
  <2> QED
    BY <2>1 DEF Forgetting
<1>4. CASE watchers = {} /\ \A j \in 1 .. Len(inbox) : inbox[j].op # "Watch"
  <2>1. \A j \in 1 .. Len(inbox') : inbox'[j].op # "Watch"
    BY <1>1, <1>4
  <2> QED
    BY <1>4, <2>1 DEF Forgetting
<1> QED
  BY <1>2, <1>3, <1>4 DEF Forgetting

LEMMA LastWordNext ==
  ASSUME IInv, SP!RestInv, parted, IdleForEver, IdleForEver', LastWord, [Next]_vars
  PROVE  LastWord'
<1>t. /\ SP!TypeOK /\ SP!AnnouncedBeforeCalled
      /\ inbox \in Seq(SP!Messages) /\ watchers \in SUBSET {n}
      /\ outbox \in Seq({"Watch", "UnWatch"})
  BY DEF IInv, LinkInv, SP!Inv, SP!TypeOK
<1>k. ASSUME UNCHANGED <<outbox, inbox, watchers, process>>
      PROVE  LastWord'
  BY <1>k DEF LastWord, Forgetting, Up
<1>q. ASSUME outbox # <<>>, outbox' = Tail(outbox),
             Head(outbox) = "UnWatch" /\ Up' => Forgetting'
      PROVE  LastWord'
  <2>1. /\ Len(outbox) \in Nat \ {0} /\ Head(outbox) = outbox[1]
        /\ Len(outbox') = Len(outbox) - 1
        /\ \A i \in 1 .. Len(outbox') : outbox'[i] = outbox[i + 1]
        /\ outbox' \in Seq({"Watch", "UnWatch"})
    BY <1>t, <1>q
  <2>2. CASE outbox' = <<>>
    <3>1. Len(outbox) = 1
      BY <2>1, <2>2
    <3> QED
      BY <1>q, <2>1, <2>2, <3>1 DEF LastWord
  <2>3. CASE outbox' # <<>>
    <3>1. Len(outbox') \in 1 .. Len(outbox') /\ Len(outbox') + 1 = Len(outbox)
      BY <2>1, <2>3
    <3> QED
      BY <1>q, <2>1, <2>3, <3>1 DEF LastWord
  <2> QED
    BY <2>2, <2>3
<1>1. CASE ManagerStep
  <2>1. watching' = 0 /\ watching = 0
    BY DEF IdleForEver
  <2>2. outbox' = outbox \o [i \in 1 .. 0 - 0 |-> "Watch"]
    BY <1>1, <2>1 DEF ManagerStep, Sends
  <2>3. [i \in 1 .. 0 - 0 |-> "Watch"] = <<>>
    BY SMT
  <2>4. outbox' = outbox
    BY <1>t, <2>2, <2>3
  <2> QED
    BY <1>1, <2>4, <1>k DEF ManagerStep, service
<1>2. CASE CallEnds \/ TimerFires \/ UNCHANGED vars
  BY <1>2, <1>k DEF CallEnds, TimerFires, S!timeout_no_watchers, vars, service
<1>3. CASE ManagerDisposes
  BY <1>3 DEF ManagerDisposes, M!indicator_service_manager_dispose, IdleForEver
<1>4. CASE RouteToService
  <2>1. /\ watchers' = watchers /\ outbox # <<>> /\ outbox' = Tail(outbox)
        /\ inbox' = Append(inbox, [op |-> Head(outbox), from |-> m])
    BY <1>4 DEF RouteToService, S!Call, S!object
  <2>2. Head(outbox) = "UnWatch" => Forgetting'
    <3> SUFFICES ASSUME Head(outbox) = "UnWatch"
                 PROVE  Forgetting'
      OBVIOUS
    <3> DEFINE e == [op |-> "UnWatch", from |-> m]
    <3>1. e.op = "UnWatch" /\ inbox' = Append(inbox, e)
      BY <2>1
    <3> HIDE DEF e
    <3> QED
      BY <1>t, <2>1, <3>1, ForgettingAppended
  <2> QED
    BY <2>1, <2>2, <1>q
<1>5. CASE RouteElsewhere
  <2>1. /\ UNCHANGED <<inbox, watchers, process, owner>>
        /\ outbox # <<>> /\ outbox' = Tail(outbox)
        /\ Head(outbox) = "UnWatch" => Owner # "good"
    BY <1>5 DEF RouteElsewhere, service
  <2>2. Up /\ Owner # "good" => Forgetting
    <3> SUFFICES ASSUME owner # "self"
                 PROVE  Forgetting
      BY DEF Owner
    <3>1. watchers = {} /\ \A i \in 1 .. Len(inbox) : inbox[i].op \notin SP!CallOps
      BY <1>t DEF SP!AnnouncedBeforeCalled
    <3> QED
      BY <3>1 DEF Forgetting, SP!CallOps
  <2>3. (Up <=> Up') /\ (Forgetting <=> Forgetting')
    BY <2>1 DEF Up, Forgetting
  <2> QED
    BY <2>1, <2>2, <2>3, <1>q
<1>6. CASE ServiceHandlesWatch
  <2>1. /\ outbox' = outbox /\ process' = process
        /\ inbox # <<>> /\ inbox' = Tail(inbox) /\ Head(inbox).op = "Watch"
    BY <1>6 DEF ServiceHandlesWatch, S!bus_watch, S!unregistered_call, S!object, S!Consume
  <2>2. Forgetting => Forgetting'
    BY <1>t, <2>1, ForgettingConsumed
  <2> QED
    BY <2>1, <2>2 DEF LastWord, Up
<1>7. CASE ServiceStep
  <2>1. outbox' = outbox /\ process' = process
    BY <1>7 DEF ServiceStep, S!try_and_get_name_acquired_cb, S!try_and_get_name_lost_cb,
       S!bus_unwatch, S!unregistered_call, S!object
  <2>2. Up /\ Forgetting => Forgetting'
    <3> SUFFICES ASSUME Up, Forgetting
                 PROVE  Forgetting'
      OBVIOUS
    <3>1. CASE S!bus_get_cb
      BY <3>1 DEF S!bus_get_cb, Forgetting
    <3>2. CASE S!try_and_get_name_acquired_cb \/ S!try_and_get_name_lost_cb
      <4>1. /\ inbox # <<>> /\ inbox' = Tail(inbox) /\ watchers' = watchers
            /\ Head(inbox).op # "UnWatch"
        BY <3>2 DEF S!try_and_get_name_acquired_cb, S!try_and_get_name_lost_cb, S!Head1, S!Consume
      <4> QED
        BY <1>t, <4>1, ForgettingConsumed
    <3>3. CASE S!bus_unwatch(m)
      <4>1. inbox # <<>> /\ inbox' = Tail(inbox) /\ watchers' = watchers \ {n}
        BY <3>3 DEF S!bus_unwatch, S!Head1, S!Consume, S!unwatch_core
      <4> QED
        BY <1>t, <4>1, ForgettingConsumed
    <3>4. CASE S!unregistered_call
      <4>1. inbox # <<>> /\ inbox' = Tail(inbox) /\ watchers' = watchers /\ bus # "ready"
        BY <3>4 DEF S!unregistered_call, S!Head1, S!Consume, S!object, S!Registered, Up
      <4>2. watchers = {}
        BY <1>t, <4>1 DEF SP!TypeOK, SP!RestInv
      <4> QED
        BY <1>t, <4>1, <4>2, ForgettingConsumed
    <3> QED
      BY <1>7, <3>1, <3>2, <3>3, <3>4 DEF ServiceStep
  <2> QED
    BY <2>1, <2>2 DEF LastWord, Up
<1>8. CASE ServiceTakesName \/ OtherLeaves
  <2>1. /\ UNCHANGED <<outbox, watchers, process>>
        /\ \/ inbox' = inbox
           \/ \E op \in {"NameAcquired", "NameLost"} : inbox' = Append(inbox, [op |-> op])
    BY <1>8 DEF ServiceTakesName, OtherLeaves, S!RequestName, S!OtherLeaves, S!object
  <2>2. ASSUME NEW op \in {"NameAcquired", "NameLost"}, inbox' = Append(inbox, [op |-> op]),
               Forgetting
        PROVE  Forgetting'
    <3> DEFINE e == [op |-> op]
    <3>1. e.op # "Watch" /\ inbox' = Append(inbox, e)
      BY <2>2
    <3> HIDE DEF e
    <3> QED
      BY <1>t, <2>1, <2>2, <3>1, ForgettingAppended
  <2>3. inbox' = inbox /\ Forgetting => Forgetting'
    BY <2>1 DEF Forgetting
  <2> QED
    BY <2>1, <2>2, <2>3 DEF LastWord, Up
<1>9. CASE ServiceEnds
  <2>1. outbox' = outbox /\ process' # "running"
    BY <1>9 DEF ServiceEnds, S!AppQuits, S!bus_get_cb, ServiceCrashes
  <2> QED
    BY <2>1 DEF LastWord, Up
<1>10. CASE ServiceStarts
  BY <1>10 DEF ServiceStarts, IdleForEver
<1> QED
  BY <1>1, <1>2, <1>3, <1>4, <1>5, <1>6, <1>7, <1>8, <1>9, <1>10 DEF Next

LEMMA PartingNext ==
  ASSUME IInv, SP!RestInv, PartingInv, [Next]_vars
  PROVE  PartingInv'
<1>1. CASE ManagerDisposes
  <2> SUFFICES ASSUME parted'
               PROVE  IdleForEver' /\ LastWord'
    BY DEF PartingInv
  <2>1. proxy /\ idles = 0 /\ timers' = 0
    BY <1>1 DEF ManagerDisposes
  <2>2. /\ disposed' /\ proxy' = FALSE /\ idles' = 0 /\ creating' = 0 /\ watching' = 0
        /\ restart_source' = "blocked"
        /\ replies' = [i \in DOMAIN replies |-> M!Cancel(replies[i])]
    BY <1>1, <2>1 DEF ManagerDisposes, M!indicator_service_manager_dispose
  <2>3. \A i \in 1 .. Len(replies') : replies'[i].ev = "Proxy" => replies'[i].result # "owned"
    <3>t. replies \in Seq(MP!Messages)
      BY DEF IInv, MP!IInv, MP!TypeOK
    <3>1. DOMAIN replies = 1 .. Len(replies) /\ Len(replies) \in Nat
      BY <3>t, LenProperties
    <3>2. Len(replies') = Len(replies)
      BY <2>2, <3>1
    <3>3. ASSUME NEW msg \in MP!Messages, M!Cancel(msg).ev = "Proxy"
          PROVE  M!Cancel(msg).result # "owned"
      BY <3>3 DEF M!Cancel, MP!Messages, MP!ProxyReplies, MP!WatchReplies, MP!OwnerSignals
    <3>4. \A i \in 1 .. Len(replies) :
              replies[i] \in MP!Messages /\ replies'[i] = M!Cancel(replies[i])
      BY <2>2, <3>t, <3>1
    <3> QED
      BY <3>2, <3>3, <3>4
  <2>4. outbox' = Append(outbox, "UnWatch")
    BY <1>1, <2>1 DEF ManagerDisposes
  <2>5. outbox' # <<>> /\ outbox'[Len(outbox')] = "UnWatch"
    BY <2>4 DEF IInv, LinkInv
  <2> QED
    BY <2>1, <2>2, <2>3, <2>5 DEF IdleForEver, LastWord
<1>2. CASE ~ManagerDisposes
  <2>1. parted' = parted
    BY <1>2 DEF Next, vars, ManagerStep, CallEnds, RouteToService, RouteElsewhere,
       ServiceHandlesWatch, ServiceStep, TimerFires, ServiceTakesName, OtherLeaves, ServiceEnds,
       ServiceStarts
  <2> SUFFICES ASSUME parted
               PROVE  IdleForEver' /\ LastWord'
    BY <2>1 DEF PartingInv
  <2>2. IdleForEver'
    BY ManagersStep, IdleKept DEF IInv, PartingInv
  <2> QED
    BY <2>2, LastWordNext DEF PartingInv
<1> QED
  BY <1>1, <1>2

LEMMA PartingInvariance == Spec => [](SP!RestInv /\ PartingInv)
<1>1. Init => SP!RestInv /\ PartingInv
  BY DEF Init, S!Init, SP!RestInv, PartingInv
<1>2. IInv /\ (SP!RestInv /\ PartingInv) /\ [Next]_vars => (SP!RestInv /\ PartingInv)'
  BY RestInvNext, PartingNext
<1> QED
  BY <1>1, <1>2, Invariance, PTL DEF Spec

\* When what a disposed manager has sent has arrived the service does not watch it: no
\* Watch is sent after the UnWatch, by no callback that was pending in dispose, and an
\* UnWatch that a service did not get was not owed to it.
THEOREM PartedForgotten == Spec => []PartedIsForgotten
<1>1. PartingInv => PartedIsForgotten
  <2>1. Len(<<>>) = 0
    OBVIOUS
  <2> QED
    BY <2>1 DEF PartingInv, LastWord, Forgetting, PartedIsForgotten
<1> QED
  BY <1>1, PartingInvariance, PTL

\* A disposed manager keeps no service: one at rest has emitted SHUTDOWN, unless the
\* environment told it not to.
THEOREM PartedStopped == Spec => []PartedRestIsOver
<1>1. IInv /\ SP!RestInv /\ PartingInv => PartedRestIsOver
  <2> SUFFICES ASSUME IInv, SP!RestInv, PartingInv,
                      parted, outbox = <<>>, S!AtRest, ~env.allow_no_watchers
               PROVE  shutdown
    BY DEF PartedRestIsOver
  <2>1. Len(<<>>) = 0
    OBVIOUS
  <2>2. inbox = <<>> /\ Up
    BY DEF S!AtRest, Up
  <2>3. watchers = {}
    BY <2>1, <2>2 DEF PartingInv, LastWord, Forgetting
  <2>4. SP!RestIsWatchedOrOver
    <3>1. [x \in {m} |-> n] \in [{m} -> {n}]
      OBVIOUS
    <3> QED
      BY <3>1, SP!RestIsRight, ServiceAssumption DEF IInv
  <2> QED
    BY <2>3, <2>4 DEF SP!RestIsWatchedOrOver, SP!AtRest, S!AtRest
<1> QED
  BY <1>1, Invariance, PartingInvariance, PTL
=============================================================================
