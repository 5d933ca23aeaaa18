----------------------- MODULE IndicatorServiceProofs -----------------------
(***************************************************************************)
(* Theorems about IndicatorService, for any number of managers and names   *)
(* and any bound on the calls.                                             *)
(*                                                                         *)
(* The argument: the bus announces the name to the service before it       *)
(* routes the first call to it, and a connection delivers in order.  So    *)
(* no name event is pending once a watcher is in the table (Routed), which *)
(* is why try_and_get_name_acquired_cb may arm the timer without looking   *)
(* at the table.                                                           *)
(***************************************************************************)
EXTENDS IndicatorService, TLAPS

(* Every variable stays in its type. *)
LEMMA TypeInductive == TypeOK /\ [Next]_vars => TypeOK'
<1> SUFFICES ASSUME TypeOK, [Next]_vars PROVE TypeOK'
  OBVIOUS
<1> USE SenderAssumption, MaxCallsAssumption
<1>1. CASE bus_get_cb
  BY <1>1 DEF TypeOK, bus_get_cb, Looping, world
<1>2. CASE try_and_get_name_acquired_cb
  BY <1>2 DEF TypeOK, try_and_get_name_acquired_cb, Head1, Consume, world
<1>3. CASE try_and_get_name_lost_cb
  <2>1. (timeout' = "armed" /\ shutdown' = shutdown) \/ (shutdown' = TRUE /\ timeout' = timeout)
    BY <1>3, Zenon DEF try_and_get_name_lost_cb
  <2>2. timeout' \in {"none", "armed", "stale"} /\ shutdown' \in BOOLEAN
    BY <2>1, Zenon DEF TypeOK
  <2> QED
    BY <1>3, <2>2 DEF TypeOK, try_and_get_name_lost_cb, Head1, Consume, world
<1>4. ASSUME NEW m \in Managers, bus_watch(m) PROVE TypeOK'
  BY <1>4 DEF TypeOK, bus_watch, Head1, Consume, world
<1>5. ASSUME NEW m \in Managers, bus_unwatch(m) PROVE TypeOK'
  BY <1>5 DEF TypeOK, bus_unwatch, unwatch_core, Head1, Consume, world
<1>6. CASE bus_shutdown
  BY <1>6 DEF TypeOK, bus_shutdown, Head1, Consume, world
<1>7. CASE unregistered_call
  BY <1>7 DEF TypeOK, unregistered_call, Head1, Consume, object, world
<1>8. ASSUME NEW n \in Names, watcher_vanished_cb(n) PROVE TypeOK'
  BY <1>8 DEF TypeOK, watcher_vanished_cb, unwatch_core, world
<1>9. CASE timeout_no_watchers
  BY <1>9 DEF TypeOK, timeout_no_watchers, world
<1>10. CASE indicator_service_dispose
  BY <1>10 DEF TypeOK, indicator_service_dispose, world
<1>11. CASE AppQuits
  BY <1>11 DEF TypeOK, AppQuits, world
<1>12. CASE RequestName
  <2>1. /\ [op |-> "NameAcquired"] \in Messages
        /\ [op |-> "NameLost"] \in Messages
    BY Zenon DEF Messages, NameEvents
  <2>2. PICK e \in Messages : inbox' = Append(inbox, e)
    BY <1>12, <2>1, Zenon DEF RequestName
  <2>3. inbox' \in Seq(Messages)
    BY <2>2 DEF TypeOK
  <2>4. /\ request' \in {"unsent", "queued", "owner"}
        /\ owner' \in {"nobody", "other", "self"}
    BY <1>12, Zenon DEF TypeOK, RequestName
  <2> QED
    BY <1>12, <2>3, <2>4 DEF TypeOK, RequestName, object
<1>13. CASE OtherLeaves
  BY <1>13 DEF TypeOK, OtherLeaves, object, Messages, NameEvents
<1>14. ASSUME NEW msg \in Calls, Call(msg) PROVE TypeOK'
  BY <1>14 DEF TypeOK, Call, object, Messages
<1>15. ASSUME NEW n \in Names, PeerDies(n) PROVE TypeOK'
  BY <1>15 DEF TypeOK, PeerDies, object
<1>16. CASE UNCHANGED vars
  BY <1>16 DEF TypeOK, vars, object, world
<1> QED
  BY <1>1, <1>2, <1>3, <1>4, <1>5, <1>6, <1>7, <1>8, <1>9, <1>10, <1>11, <1>12,
     <1>13, <1>14, <1>15, <1>16 DEF Next, Dispatch, Vanish

(* The model keeps its types: whatever the order of callbacks, the timer id, the   *)
(* table of watchers and the queue of messages are what the callbacks expect.      *)
THEOREM TypeCorrect == Spec => []TypeOK
<1>1. Init => TypeOK
  <2>1. ASSUME Init PROVE 0 \in 0 .. MaxCalls /\ <<>> \in Seq(Messages)
    BY MaxCallsAssumption
  <2> QED
    BY <2>1, Zenon DEF Init, TypeOK
<1> QED
  BY <1>1, TypeInductive, PTL DEF Spec

-----------------------------------------------------------------------------
(* The order of names and calls. *)

(* A step that leaves the queue and the bus alone and does not fill the table. *)
LEMMA OrderKept ==
  ASSUME AnnouncedBeforeCalled,
         UNCHANGED <<request, owner, inbox, named>>,
         watchers' = {} \/ watchers # {}
  PROVE  AnnouncedBeforeCalled'
  BY DEF AnnouncedBeforeCalled

(* Taking the first message off the queue.  Only a call may fill the table, and   *)
(* only a NameAcquired is lost that the invariant needed.                          *)
LEMMA OrderConsumed ==
  ASSUME TypeOK, AnnouncedBeforeCalled,
         inbox # <<>>, Consume, UNCHANGED <<request, owner>>,
         watchers' = {} \/ watchers # {} \/ Head(inbox).op \in CallOps,
         named => named',
         Head(inbox).op = "NameAcquired" => named'
  PROVE  AnnouncedBeforeCalled'
<1>1. /\ Head(inbox) = inbox[1]
      /\ Len(inbox) \in Nat \ {0}
      /\ Len(inbox') = Len(inbox) - 1
      /\ \A i \in 1 .. Len(inbox') : inbox'[i] = inbox[i + 1]
  BY DEF TypeOK, Consume
<1>2. \A i \in 1 .. Len(inbox') : i + 1 \in 1 .. Len(inbox) /\ inbox'[i].op = inbox[i + 1].op
  BY <1>1
<1>3. (request = "owner" <=> owner = "self")'
  BY DEF AnnouncedBeforeCalled
<1>4. (\A i \in 1 .. Len(inbox) : inbox[i].op \in CallOps => owner = "self")'
  BY <1>2 DEF AnnouncedBeforeCalled, CallOps
<1>5. (\A i, j \in 1 .. Len(inbox) :
         (i < j /\ inbox[i].op \in CallOps) => inbox[j].op \in CallOps)'
  <2> SUFFICES ASSUME NEW i \in 1 .. Len(inbox'), NEW j \in 1 .. Len(inbox'),
                      i < j, inbox'[i].op \in CallOps
               PROVE  inbox'[j].op \in CallOps
    BY DEF CallOps
  <2>1. i + 1 < j + 1 /\ i + 1 \in 1 .. Len(inbox) /\ j + 1 \in 1 .. Len(inbox)
    BY <1>2
  <2> QED
    BY <1>2, <2>1 DEF AnnouncedBeforeCalled
<1>6. (watchers # {} => owner = "self" /\ \A i \in 1 .. Len(inbox) : inbox[i].op \in CallOps)'
  <2> SUFFICES ASSUME watchers' # {}
               PROVE  owner = "self" /\ \A i \in 1 .. Len(inbox') : inbox'[i].op \in CallOps
    BY DEF CallOps
  <2>1. CASE watchers # {}
    BY <1>2, <2>1 DEF AnnouncedBeforeCalled
  <2>2. CASE inbox[1].op \in CallOps
    <3>1. 1 \in 1 .. Len(inbox) /\ owner = "self"
      BY <1>1, <2>2 DEF AnnouncedBeforeCalled
    <3>2. \A j \in 1 .. Len(inbox) : 1 < j => inbox[j].op \in CallOps
      BY <2>2, <3>1 DEF AnnouncedBeforeCalled
    <3> QED
      BY <1>1, <1>2, <3>1, <3>2
  <2> QED
    BY <1>1, <2>1, <2>2
<1>7. (owner = "self" /\ ~named => \E i \in 1 .. Len(inbox) : inbox[i].op = "NameAcquired")'
  <2> SUFFICES ASSUME owner = "self", ~named'
               PROVE  \E i \in 1 .. Len(inbox') : inbox'[i].op = "NameAcquired"
    OBVIOUS
  <2>1. PICK i \in 1 .. Len(inbox) : inbox[i].op = "NameAcquired"
    BY DEF AnnouncedBeforeCalled
  <2>2. i # 1
    BY <1>1, <2>1
  <2>3. i - 1 \in 1 .. Len(inbox') /\ (i - 1) + 1 = i
    BY <1>1, <2>2
  <2> QED
    BY <1>2, <2>1, <2>3
<1> QED
  BY <1>3, <1>4, <1>5, <1>6, <1>7, Zenon DEF AnnouncedBeforeCalled

(* A message the bus routes to the service: a call to a name it owns, or news of   *)
(* the name before it owns it, in particular that it owns it now.                  *)
LEMMA OrderRouted ==
  ASSUME TypeOK, AnnouncedBeforeCalled,
         NEW e \in Messages, inbox' = Append(inbox, e),
         UNCHANGED <<watchers, named>>,
         (request = "owner" <=> owner = "self")',
         \/ e.op \in CallOps /\ owner = "self" /\ owner' = "self"
         \/ e.op \notin CallOps /\ owner # "self" /\ (owner' = "self" => e.op = "NameAcquired")
  PROVE  AnnouncedBeforeCalled'
<1>1. /\ Len(inbox) \in Nat
      /\ Len(inbox') = Len(inbox) + 1
      /\ inbox'[Len(inbox) + 1] = e
      /\ \A i \in 1 .. Len(inbox) : inbox'[i] = inbox[i]
  BY DEF TypeOK
<1>2. \A i \in 1 .. Len(inbox') : i \in 1 .. Len(inbox) \/ i = Len(inbox) + 1
  BY <1>1
<1>3. (\A i \in 1 .. Len(inbox) : inbox[i].op \in CallOps => owner = "self")'
  BY <1>1, <1>2 DEF AnnouncedBeforeCalled, CallOps
<1>4. (\A i, j \in 1 .. Len(inbox) :
         (i < j /\ inbox[i].op \in CallOps) => inbox[j].op \in CallOps)'
  <2> SUFFICES ASSUME NEW i \in 1 .. Len(inbox'), NEW j \in 1 .. Len(inbox'),
                      i < j, inbox'[i].op \in CallOps
               PROVE  inbox'[j].op \in CallOps
    BY DEF CallOps
  <2>1. i \in 1 .. Len(inbox) /\ inbox[i].op \in CallOps
    BY <1>1, <1>2
  <2>2. owner = "self" /\ e.op \in CallOps
    BY <2>1 DEF AnnouncedBeforeCalled
  <2> QED
    BY <1>1, <1>2, <2>1, <2>2 DEF AnnouncedBeforeCalled
<1>5. (watchers # {} => owner = "self" /\ \A i \in 1 .. Len(inbox) : inbox[i].op \in CallOps)'
  BY <1>1, <1>2 DEF AnnouncedBeforeCalled, CallOps
<1>6. (owner = "self" /\ ~named => \E i \in 1 .. Len(inbox) : inbox[i].op = "NameAcquired")'
  <2>1. CASE e.op \in CallOps
    BY <1>1, <1>2, <2>1 DEF AnnouncedBeforeCalled
  <2>2. CASE e.op \notin CallOps
    BY <1>1, <2>2 DEF AnnouncedBeforeCalled
  <2> QED
    BY <2>1, <2>2
<1> QED
  BY <1>3, <1>4, <1>5, <1>6, Zenon DEF AnnouncedBeforeCalled

-----------------------------------------------------------------------------
(* The inductive invariant. *)

Inv == /\ TypeOK
       /\ AnnouncedBeforeCalled
       /\ ArmedOnlyUnwatched
       /\ UnwatchedIsTimed

LEMMA InitInv == Init => Inv
<1> SUFFICES ASSUME Init PROVE Inv
  OBVIOUS
<1>1. 0 \in 0 .. MaxCalls /\ <<>> \in Seq(Messages) /\ Len(inbox) = 0
  BY MaxCallsAssumption DEF Init
<1>2. TypeOK
  BY <1>1, Zenon DEF Init, TypeOK
<1>3. AnnouncedBeforeCalled
  BY <1>1 DEF Init, AnnouncedBeforeCalled
<1>4. ArmedOnlyUnwatched /\ UnwatchedIsTimed
  BY DEF Init, ArmedOnlyUnwatched, UnwatchedIsTimed
<1> QED
  BY <1>2, <1>3, <1>4 DEF Inv

LEMMA NextInv == Inv /\ [Next]_vars => Inv'
<1> SUFFICES ASSUME Inv, [Next]_vars PROVE Inv'
  OBVIOUS
<1> USE DEF Inv
<1>0. TypeOK'
  BY TypeInductive
<1> DEFINE Timer == ArmedOnlyUnwatched' /\ UnwatchedIsTimed'
<1>1. CASE bus_get_cb
  <2>1. Timer
    BY <1>1 DEF bus_get_cb, ArmedOnlyUnwatched, UnwatchedIsTimed
  <2>2. AnnouncedBeforeCalled'
    BY <1>1, OrderKept DEF bus_get_cb, world
  <2> QED
    BY <1>0, <2>1, <2>2
<1>2. CASE try_and_get_name_acquired_cb
  <2>1. inbox # <<>> /\ Head(inbox).op = "NameAcquired" /\ Head(inbox) = inbox[1]
        /\ 1 \in 1 .. Len(inbox)
    BY <1>2 DEF try_and_get_name_acquired_cb, Head1, TypeOK
  <2>2. watchers = {}
    BY <2>1 DEF AnnouncedBeforeCalled, CallOps
  <2>3. Timer
    BY <1>2, <2>2 DEF try_and_get_name_acquired_cb, ArmedOnlyUnwatched, UnwatchedIsTimed
  <2>4. AnnouncedBeforeCalled'
    BY <1>2, <2>1, OrderConsumed DEF try_and_get_name_acquired_cb, world
  <2> QED
    BY <1>0, <2>3, <2>4
<1>3. CASE try_and_get_name_lost_cb
  <2>1. inbox # <<>> /\ Head(inbox).op = "NameLost" /\ Head(inbox) = inbox[1]
        /\ 1 \in 1 .. Len(inbox)
    BY <1>3 DEF try_and_get_name_lost_cb, Head1, TypeOK
  <2>2. watchers = {}
    BY <2>1 DEF AnnouncedBeforeCalled, CallOps
  <2>3. /\ timeout' = "armed" \/ timeout' = timeout
        /\ UNCHANGED <<process, watchers, named>>
    BY <1>3, Zenon DEF try_and_get_name_lost_cb
  <2>4. Timer
    BY <2>2, <2>3 DEF ArmedOnlyUnwatched, UnwatchedIsTimed
  <2>5. AnnouncedBeforeCalled'
    BY <1>3, <2>1, OrderConsumed DEF try_and_get_name_lost_cb, world
  <2> QED
    BY <1>0, <2>4, <2>5
<1>4. ASSUME NEW m \in Managers, bus_watch(m) PROVE Inv'
  <2>1. inbox # <<>> /\ Head(inbox).op = "Watch"
    BY <1>4 DEF bus_watch, Head1
  <2>2. Timer
    BY <1>4 DEF bus_watch, ArmedOnlyUnwatched, UnwatchedIsTimed
  <2>3. AnnouncedBeforeCalled'
    BY <1>4, <2>1, OrderConsumed DEF bus_watch, world, CallOps
  <2> QED
    BY <1>0, <2>2, <2>3
<1>5. ASSUME NEW m \in Managers, bus_unwatch(m) PROVE Inv'
  <2>1. inbox # <<>> /\ Head(inbox).op = "UnWatch"
    BY <1>5 DEF bus_unwatch, Head1
  <2>2. Timer
    BY <1>5 DEF bus_unwatch, unwatch_core, ArmedOnlyUnwatched, UnwatchedIsTimed
  <2>3. AnnouncedBeforeCalled'
    BY <1>5, <2>1, OrderConsumed DEF bus_unwatch, unwatch_core, world, CallOps
  <2> QED
    BY <1>0, <2>2, <2>3
<1>6. CASE bus_shutdown
  <2>1. inbox # <<>> /\ Head(inbox).op = "Shutdown"
    BY <1>6 DEF bus_shutdown, Head1
  <2>2. Timer
    BY <1>6 DEF bus_shutdown, ArmedOnlyUnwatched, UnwatchedIsTimed
  <2>3. AnnouncedBeforeCalled'
    BY <1>6, <2>1, OrderConsumed DEF bus_shutdown, world, CallOps
  <2> QED
    BY <1>0, <2>2, <2>3
<1>7. CASE unregistered_call
  <2>1. inbox # <<>> /\ Head(inbox).op \in CallOps
    BY <1>7 DEF unregistered_call, Head1, CallOps
  <2>2. Timer
    BY <1>7 DEF unregistered_call, object, ArmedOnlyUnwatched, UnwatchedIsTimed
  <2>3. AnnouncedBeforeCalled'
    BY <1>7, <2>1, OrderConsumed DEF unregistered_call, object, world, CallOps
  <2> QED
    BY <1>0, <2>2, <2>3
<1>8. ASSUME NEW n \in Names, watcher_vanished_cb(n) PROVE Inv'
  <2>1. Timer
    BY <1>8 DEF watcher_vanished_cb, unwatch_core, ArmedOnlyUnwatched, UnwatchedIsTimed
  <2>2. AnnouncedBeforeCalled'
    BY <1>8, OrderKept DEF watcher_vanished_cb, unwatch_core, world
  <2> QED
    BY <1>0, <2>1, <2>2
<1>9. CASE timeout_no_watchers
  <2>1. Timer
    BY <1>9 DEF timeout_no_watchers, ArmedOnlyUnwatched, UnwatchedIsTimed
  <2>2. AnnouncedBeforeCalled'
    BY <1>9, OrderKept DEF timeout_no_watchers, world
  <2> QED
    BY <1>0, <2>1, <2>2
<1>10. CASE indicator_service_dispose
  <2>1. Timer
    BY <1>10 DEF indicator_service_dispose, ArmedOnlyUnwatched, UnwatchedIsTimed
  <2>2. AnnouncedBeforeCalled'
    BY <1>10, OrderKept DEF indicator_service_dispose, world
  <2> QED
    BY <1>0, <2>1, <2>2
<1>11. CASE AppQuits
  <2>1. Timer
    BY <1>11 DEF AppQuits, ArmedOnlyUnwatched, UnwatchedIsTimed
  <2>2. AnnouncedBeforeCalled'
    BY <1>11, OrderKept DEF AppQuits, world
  <2> QED
    BY <1>0, <2>1, <2>2
<1>12. CASE RequestName \/ OtherLeaves
  <2>1. Timer
    BY <1>12 DEF RequestName, OtherLeaves, object, ArmedOnlyUnwatched, UnwatchedIsTimed
  <2>2. CASE inbox' = inbox
    <3>1. owner' = "nobody" /\ request' = request /\ owner = "other" /\ UNCHANGED <<watchers, named>>
      BY <1>12, <2>2 DEF RequestName, OtherLeaves, object, TypeOK
    <3> QED
      BY <1>0, <2>1, <2>2, <3>1 DEF AnnouncedBeforeCalled
  <2>3. CASE inbox' # inbox
    <3>1. [op |-> "NameAcquired"] \in Messages /\ [op |-> "NameLost"] \in Messages
      BY Zenon DEF Messages, NameEvents
    <3>2. PICK e \in Messages :
             /\ inbox' = Append(inbox, e)
             /\ \/ e = [op |-> "NameAcquired"] /\ owner' = "self" /\ request' = "owner"
                \/ e = [op |-> "NameLost"] /\ owner' = owner /\ request' = "queued"
      BY <1>12, <2>3, <3>1, Zenon DEF RequestName, OtherLeaves
    <3>3. owner # "self" /\ UNCHANGED <<watchers, named>>
      BY <1>12, Zenon DEF RequestName, OtherLeaves, AnnouncedBeforeCalled, object, TypeOK
    <3>4. e.op \notin CallOps /\ (owner' = "self" => e.op = "NameAcquired")
      BY <3>2, <3>3 DEF CallOps
    <3>5. (request = "owner" <=> owner = "self")'
      BY <3>2, <3>3
    <3>6. AnnouncedBeforeCalled'
      BY <3>2, <3>3, <3>4, <3>5, OrderRouted
    <3> QED
      BY <1>0, <2>1, <3>6
  <2> QED
    BY <2>2, <2>3
<1>13. ASSUME NEW msg \in Calls, Call(msg) PROVE Inv'
  <2>1. Timer
    BY <1>13 DEF Call, object, ArmedOnlyUnwatched, UnwatchedIsTimed
  <2>2. msg \in Messages /\ msg.op \in CallOps
    BY DEF Messages, Calls, WatchCalls, CallOps
  <2>3. inbox' = Append(inbox, msg) /\ owner = "self" /\ UNCHANGED <<watchers, named, owner, request>>
    BY <1>13 DEF Call, object
  <2>4. AnnouncedBeforeCalled'
    BY <2>2, <2>3, OrderRouted DEF AnnouncedBeforeCalled
  <2> QED
    BY <1>0, <2>1, <2>4
<1>14. ASSUME NEW n \in Names, PeerDies(n) PROVE Inv'
  <2>1. Timer
    BY <1>14 DEF PeerDies, object, ArmedOnlyUnwatched, UnwatchedIsTimed
  <2>2. AnnouncedBeforeCalled'
    BY <1>14, OrderKept DEF PeerDies, object
  <2> QED
    BY <1>0, <2>1, <2>2
<1>15. CASE UNCHANGED vars
  BY <1>0, <1>15, OrderKept DEF vars, object, world, ArmedOnlyUnwatched, UnwatchedIsTimed
<1> QED
  BY <1>1, <1>2, <1>3, <1>4, <1>5, <1>6, <1>7, <1>8, <1>9, <1>10, <1>11, <1>12,
     <1>13, <1>14, <1>15 DEF Next, Dispatch, Vanish

LEMMA Invariance == Spec => []Inv
  BY InitInv, NextInv, PTL DEF Spec

(* A running shutdown timer means that nobody watches, whichever callback armed   *)
(* it: in particular try_and_get_name_acquired_cb, which does not look.            *)
THEOREM TimerSound == Spec => []ArmedOnlyUnwatched
<1>1. Inv => ArmedOnlyUnwatched
  BY DEF Inv
<1> QED
  BY <1>1, Invariance, PTL

(* A named service that nobody watches has a timer that runs or has run.           *)
THEOREM NeverIdleForever == Spec => []UnwatchedIsTimed
<1>1. Inv => UnwatchedIsTimed
  BY DEF Inv
<1> QED
  BY <1>1, Invariance, PTL

(* The service hears of its name before the first call that was routed by it.     *)
THEOREM AnnouncedFirst == Spec => []AnnouncedBeforeCalled
<1>1. Inv => AnnouncedBeforeCalled
  BY DEF Inv
<1> QED
  BY <1>1, Invariance, PTL

-----------------------------------------------------------------------------
(* Who is protected from the timer. *)

\* Every manager calls from a unique name of its own: no two indicators of one
\* service in one process.
OneManagerPerProcess == \A a, b \in Managers : Sender[a] = Sender[b] => a = b

\* An answered Watch is in the table.
AnsweredAreWatchers == \A m \in answered : Sender[m] \in watchers

LEMMA AnsweredKept ==
  ASSUME OneManagerPerProcess, TypeOK, AnsweredAreWatchers, [Next]_vars
  PROVE  AnsweredAreWatchers'
<1> USE DEF AnsweredAreWatchers
<1>1. ASSUME NEW m \in Managers, bus_watch(m) PROVE AnsweredAreWatchers'
  BY <1>1 DEF bus_watch
<1>2. ASSUME NEW m \in Managers, bus_unwatch(m) PROVE AnsweredAreWatchers'
  BY <1>2 DEF bus_unwatch, unwatch_core, OneManagerPerProcess, TypeOK
<1>3. ASSUME NEW n \in Names, watcher_vanished_cb(n) PROVE AnsweredAreWatchers'
  BY <1>3 DEF watcher_vanished_cb, unwatch_core
<1>4. CASE indicator_service_dispose
  BY <1>4 DEF indicator_service_dispose
<1>5. ASSUME UNCHANGED <<watchers, answered>> PROVE AnsweredAreWatchers'
  BY <1>5
<1>6. CASE bus_get_cb \/ try_and_get_name_acquired_cb \/ try_and_get_name_lost_cb
  BY <1>5, <1>6 DEF bus_get_cb, try_and_get_name_acquired_cb, try_and_get_name_lost_cb
<1>7. CASE bus_shutdown \/ unregistered_call \/ timeout_no_watchers \/ AppQuits
  BY <1>5, <1>7 DEF bus_shutdown, unregistered_call, timeout_no_watchers, AppQuits, object
<1>8. CASE RequestName \/ OtherLeaves
  BY <1>5, <1>8 DEF RequestName, OtherLeaves, object
<1>9. ASSUME NEW msg \in Calls, Call(msg) PROVE AnsweredAreWatchers'
  BY <1>5, <1>9 DEF Call, object
<1>10. ASSUME NEW n \in Names, PeerDies(n) PROVE AnsweredAreWatchers'
  BY <1>5, <1>10 DEF PeerDies, object
<1>11. CASE UNCHANGED vars
  BY <1>5, <1>11 DEF vars, object
<1> QED
  BY <1>1, <1>2, <1>3, <1>4, <1>6, <1>7, <1>8, <1>9, <1>10, <1>11 DEF Next, Dispatch, Vanish

(* When no two managers share a process, the timer never emits SHUTDOWN under a    *)
(* manager whose Watch was answered.  The hypothesis is needed: the UnWatch of one *)
(* manager takes the name of its process out of the table, and so the other too.   *)
THEOREM TimeoutNeverBetrays ==
  ASSUME OneManagerPerProcess
  PROVE  Spec => TimedOutAlone
<1>1. Init => AnsweredAreWatchers
  BY DEF Init, AnsweredAreWatchers
<1>2. Inv /\ AnsweredAreWatchers /\ [Next]_vars => AnsweredAreWatchers'
  BY AnsweredKept, OneManagerPerProcess DEF Inv
<1>3. Inv /\ AnsweredAreWatchers /\ [Next]_vars => [TimeoutEmits => Listening = {}]_vars
  BY DEF Inv, ArmedOnlyUnwatched, AnsweredAreWatchers, TimeoutEmits, Listening
<1> QED
  BY <1>1, <1>2, <1>3, Invariance, PTL DEF Spec, TimedOutAlone

-----------------------------------------------------------------------------
(* What a service at rest has done. *)

\* The bus has said whether the name is had, and the service has not dispatched it.
NameEventPending == \E i \in 1 .. Len(inbox) : inbox[i].op \in {"NameAcquired", "NameLost"}

\* Calls are handled once there is a bus, a timer that fired has emitted SHUTDOWN, and
\* news of the name is never without effect.
RestInv ==
    /\ bus = "getting" => watchers = {}
    /\ timeout = "stale" => shutdown \/ env.allow_no_watchers
    /\ (process = "running" /\ request # "unsent") =>
           NameEventPending \/ named \/ timeout # "none" \/ shutdown

(* Once a call is at the head of the queue the service has heard of its name, so   *)
(* a timer runs, or has run, unless somebody watches.                              *)
LEMMA CalledIsNamed ==
  ASSUME Inv, inbox # <<>>, Head(inbox).op \in CallOps
  PROVE  named
<1>1. /\ Head(inbox) = inbox[1]
      /\ 1 \in 1 .. Len(inbox)
      /\ Len(inbox) \in Nat
  BY DEF Inv, TypeOK
<1>2. owner = "self"
  BY <1>1 DEF Inv, AnnouncedBeforeCalled
<1>3. \A j \in 1 .. Len(inbox) : inbox[j].op \in CallOps
  <2> TAKE j \in 1 .. Len(inbox)
  <2>1. j = 1 \/ 1 < j
    BY <1>1
  <2> QED
    BY <1>1, <2>1 DEF Inv, AnnouncedBeforeCalled
<1> QED
  BY <1>2, <1>3 DEF Inv, AnnouncedBeforeCalled, CallOps

(* A call is handled by a service that has its name, so its news came before.      *)
LEMMA CallHandled ==
  ASSUME Inv, RestInv, inbox # <<>>, Head(inbox).op \in CallOps, named' = named,
         UNCHANGED <<env, bus, shutdown>>, bus = "ready" \/ watchers' = watchers,
         timeout' \in {"none", "armed", timeout}
  PROVE  RestInv'
  BY CalledIsNamed DEF RestInv

(* A step that leaves the queue, the timer and the name alone.                     *)
LEMMA RestKept ==
  ASSUME RestInv, UNCHANGED <<env, inbox, timeout, named>>, shutdown => shutdown',
         request' = request, process' = process \/ process' # "running",
         bus' = bus \/ bus' = "ready", watchers' = watchers
  PROVE  RestInv'
  BY DEF RestInv, NameEventPending

LEMMA RestNext ==
  ASSUME Inv, RestInv, [Next]_vars
  PROVE  RestInv'
<1>1. CASE bus_get_cb
  BY <1>1, RestKept DEF bus_get_cb, world
<1>2. CASE try_and_get_name_acquired_cb
  BY <1>2 DEF try_and_get_name_acquired_cb, RestInv, world
<1>3. CASE try_and_get_name_lost_cb
  <2>1. \/ timeout' = "armed" /\ shutdown' = shutdown
        \/ shutdown'
    BY <1>3, Zenon DEF try_and_get_name_lost_cb
  <2>2. UNCHANGED <<bus, watchers, env>> /\ (shutdown' \/ timeout' = "armed")
    BY <1>3, <2>1 DEF try_and_get_name_lost_cb, world
  <2> QED
    BY <2>2 DEF RestInv
<1>4. ASSUME NEW m \in Managers, bus_watch(m)
      PROVE  RestInv'
  BY <1>4, CallHandled DEF bus_watch, Head1, Registered, CallOps, world
<1>5. ASSUME NEW m \in Managers, bus_unwatch(m)
      PROVE  RestInv'
  BY <1>5, CallHandled DEF bus_unwatch, unwatch_core, Head1, Registered, CallOps, world
<1>6. CASE bus_shutdown
  BY <1>6 DEF bus_shutdown, RestInv, world
<1>7. CASE unregistered_call
  BY <1>7, CallHandled DEF unregistered_call, Head1, CallOps, object, world
<1>8. ASSUME NEW n \in Names, watcher_vanished_cb(n)
      PROVE  RestInv'
  BY <1>8 DEF watcher_vanished_cb, unwatch_core, RestInv, NameEventPending, world
<1>9. CASE timeout_no_watchers
  <2>1. timeout' = "stale" /\ (shutdown' <=> shutdown \/ ~env.allow_no_watchers)
    BY <1>9, Zenon DEF timeout_no_watchers
  <2> QED
    BY <1>9, <2>1 DEF timeout_no_watchers, RestInv, world
<1>10. CASE indicator_service_dispose
  BY <1>10 DEF indicator_service_dispose, RestInv, world
<1>11. CASE AppQuits
  BY <1>11, RestKept DEF AppQuits, world
<1>12. CASE RequestName \/ OtherLeaves
  <2>1. UNCHANGED <<env, process, bus, watchers, timeout, named, shutdown>>
    BY <1>12 DEF RequestName, OtherLeaves, object
  <2>2. CASE inbox' = inbox
    <3>1. request' = request
      BY <1>12, <2>2 DEF RequestName, OtherLeaves, Inv, TypeOK
    <3> QED
      BY <2>1, <2>2, <3>1, RestKept
  <2>3. ASSUME NEW e \in {[op |-> "NameAcquired"], [op |-> "NameLost"]},
               inbox' = Append(inbox, e)
        PROVE  RestInv'
    <3>1. Len(inbox) + 1 \in 1 .. Len(inbox') /\ inbox'[Len(inbox) + 1] = e
      BY <2>3 DEF Inv, TypeOK
    <3>2. NameEventPending'
      BY <3>1 DEF NameEventPending
    <3> QED
      BY <2>1, <3>2 DEF RestInv
  <2> QED
    BY <1>12, <2>2, <2>3 DEF RequestName, OtherLeaves
<1>13. ASSUME NEW msg \in Calls, Call(msg)
       PROVE  RestInv'
  <2>1. \A i \in 1 .. Len(inbox) : i \in 1 .. Len(inbox') /\ inbox'[i] = inbox[i]
    BY <1>13 DEF Call, Inv, TypeOK
  <2> QED
    BY <1>13, <2>1 DEF Call, object, RestInv, NameEventPending
<1>14. ASSUME NEW n \in Names, PeerDies(n)
       PROVE  RestInv'
  BY <1>14, RestKept DEF PeerDies, object
<1>15. CASE UNCHANGED vars
  BY <1>15, RestKept DEF vars, object, world
<1> QED
  BY <1>1, <1>2, <1>3, <1>4, <1>5, <1>6, <1>7, <1>8, <1>9, <1>10, <1>11, <1>12,
     <1>13, <1>14, <1>15 DEF Next, Dispatch, Vanish

LEMMA RestInit == Init => RestInv
  BY DEF Init, RestInv

LEMMA RestIsRight ==
  ASSUME Inv, RestInv
  PROVE  RestIsWatchedOrOver
<1> SUFFICES ASSUME AtRest, ~env.allow_no_watchers, watchers = {}
             PROVE  shutdown
  BY DEF RestIsWatchedOrOver
<1>1. ~NameEventPending
  BY DEF AtRest, NameEventPending
<1>2. timeout = "stale" => shutdown
  BY DEF RestInv
<1>3. timeout \in {"none", "stale"}
  BY DEF AtRest, Inv, TypeOK
<1>4. named => timeout # "none"
  BY DEF AtRest, Inv, UnwatchedIsTimed
<1> QED
  BY <1>1, <1>2, <1>3, <1>4 DEF AtRest, RestInv

(* No order of callbacks leaves a service alone: when nothing will call it back    *)
(* any more somebody watches it, or SHUTDOWN has been emitted.                      *)
THEOREM NeverLeftAlone == Spec => []RestIsWatchedOrOver
<1>1. Init => RestInv
  BY RestInit
<1>2. Inv /\ RestInv /\ [Next]_vars => RestInv'
  BY RestNext
<1>3. Inv /\ RestInv => RestIsWatchedOrOver
  BY RestIsRight
<1> QED
  BY <1>1, <1>2, <1>3, Invariance, PTL DEF Spec

-----------------------------------------------------------------------------
(* The abstract lifetime. *)

LEMMA PhaseCases ==
  ASSUME TypeOK
  PROVE  /\ process # "running" => LifetimePhase = "retired" /\ LifetimePeers = {}
         /\ process = "running" => LifetimePeers = watchers
         /\ process = "running" /\ watchers # {} => LifetimePhase = "watched"
         /\ process = "running" /\ watchers = {} /\ timeout = "armed" => LifetimePhase = "grace"
         /\ process = "running" /\ watchers = {} /\ timeout = "stale" => LifetimePhase = "over"
         /\ process = "running" /\ watchers = {} /\ timeout = "none" => LifetimePhase = "starting"
  BY DEF TypeOK, LifetimePhase, LifetimePeers

LEMMA PhaseCasesNext ==
  ASSUME TypeOK'
  PROVE  /\ process' # "running" => LifetimePhase' = "retired" /\ LifetimePeers' = {}
         /\ process' = "running" => LifetimePeers' = watchers'
         /\ process' = "running" /\ watchers' # {} => LifetimePhase' = "watched"
         /\ process' = "running" /\ watchers' = {} /\ timeout' = "armed" => LifetimePhase' = "grace"
         /\ process' = "running" /\ watchers' = {} /\ timeout' = "stale" => LifetimePhase' = "over"
         /\ process' = "running" /\ watchers' = {} /\ timeout' = "none" => LifetimePhase' = "starting"
  BY DEF TypeOK, LifetimePhase, LifetimePeers

(* Every callback of the service is a step of the abstract lifetime, or invisible. *)
LEMMA LifetimeStep == Inv /\ Inv' /\ [Next]_vars => [Lifetime!Next]_(Lifetime!vars)
<1> SUFFICES ASSUME Inv, Inv', [Next]_vars PROVE [Lifetime!Next]_(Lifetime!vars)
  OBVIOUS
<1> USE DEF Lifetime!Next, Lifetime!vars
<1>t. TypeOK /\ TypeOK'
  BY DEF Inv
<1>a. ASSUME UNCHANGED <<process, watchers, timeout>>
      PROVE  [Lifetime!Next]_(Lifetime!vars)
  BY <1>a DEF LifetimePhase, LifetimePeers
<1>b. ASSUME process # "running", process' # "running"
      PROVE  [Lifetime!Next]_(Lifetime!vars)
  BY <1>b, <1>t, PhaseCases, PhaseCasesNext
<1>c. ASSUME process' # "running" PROVE Lifetime!Retire
  BY <1>c, <1>t, PhaseCasesNext DEF Lifetime!Retire
<1>d. ASSUME process = "running", process' = "running", watchers = {}, watchers' = {},
             timeout' = "armed"
      PROVE  Lifetime!OpenGrace
  BY <1>d, <1>t, PhaseCases, PhaseCasesNext DEF Lifetime!OpenGrace, TypeOK
<1>e. ASSUME NEW n \in Names, process = "running", process' = "running", unwatch_core(n)
      PROVE  [Lifetime!Next]_(Lifetime!vars)
  <2>1. CASE watchers = {}
    BY <1>d, <1>e, <2>1 DEF unwatch_core
  <2>2. CASE watchers # {}
    <3>1. Lifetime!Leave(n)
      BY <1>e, <1>t, <2>2, PhaseCases, PhaseCasesNext DEF Lifetime!Leave, unwatch_core
    <3> QED
      BY <3>1
  <2> QED
    BY <2>1, <2>2
<1>1. CASE bus_get_cb
  BY <1>1, <1>a, <1>c DEF bus_get_cb
<1>2. CASE try_and_get_name_acquired_cb
  <2>1. /\ Len(inbox) \in Nat \ {0}
        /\ inbox[1].op = "NameAcquired"
    BY <1>2, <1>t DEF try_and_get_name_acquired_cb, Head1, TypeOK
  <2>2. watchers = {}
    BY <2>1 DEF Inv, AnnouncedBeforeCalled, CallOps
  <2> QED
    BY <1>2, <2>2, <1>b, <1>d DEF try_and_get_name_acquired_cb
<1>3. CASE try_and_get_name_lost_cb
  <2>1. /\ Len(inbox) \in Nat \ {0}
        /\ inbox[1].op = "NameLost"
    BY <1>3, <1>t DEF try_and_get_name_lost_cb, Head1, TypeOK
  <2>2. watchers = {}
    BY <2>1 DEF Inv, AnnouncedBeforeCalled, CallOps
  <2>3. /\ timeout' = "armed" \/ timeout' = timeout
        /\ UNCHANGED <<process, watchers>>
    BY <1>3, Zenon DEF try_and_get_name_lost_cb
  <2> QED
    BY <2>2, <2>3, <1>a, <1>b, <1>d
<1>4. ASSUME NEW m \in Managers, bus_watch(m) PROVE [Lifetime!Next]_(Lifetime!vars)
  <2>1. named
    BY <1>4, CalledIsNamed DEF bus_watch, Head1, CallOps
  <2>2. LifetimePhase \in {"grace", "watched", "over"} /\ LifetimePeers = watchers
    BY <1>4, <1>t, <2>1, PhaseCases DEF Inv, UnwatchedIsTimed, bus_watch, Registered, TypeOK
  <2>3. LifetimePhase' = "watched" /\ LifetimePeers' = watchers \cup {Sender[m]}
    BY <1>4, <1>t, PhaseCasesNext DEF bus_watch, Registered
  <2>4. Sender[m] \in Names
    BY SenderAssumption
  <2>5. Lifetime!Join(Sender[m])
    BY <2>2, <2>3 DEF Lifetime!Join
  <2> QED
    BY <2>4, <2>5
<1>5. ASSUME NEW m \in Managers, bus_unwatch(m) PROVE [Lifetime!Next]_(Lifetime!vars)
  BY <1>5, <1>e, SenderAssumption DEF bus_unwatch, Registered
<1>6. CASE bus_shutdown \/ unregistered_call
  BY <1>6, <1>a DEF bus_shutdown, unregistered_call, object
<1>7. ASSUME NEW n \in Names, watcher_vanished_cb(n) PROVE [Lifetime!Next]_(Lifetime!vars)
  BY <1>7, <1>e DEF watcher_vanished_cb
<1>8. CASE timeout_no_watchers
  <2>1. watchers = {}
    BY <1>8 DEF timeout_no_watchers, Inv, ArmedOnlyUnwatched
  <2>2. CASE process = "running"
    BY <1>8, <1>t, <2>1, <2>2, PhaseCases, PhaseCasesNext
    DEF timeout_no_watchers, Lifetime!Expire
  <2> QED
    BY <1>8, <1>b, <2>2 DEF timeout_no_watchers
<1>9. CASE indicator_service_dispose \/ AppQuits
  BY <1>9, <1>c DEF indicator_service_dispose, AppQuits
<1>10. CASE RequestName \/ OtherLeaves
  BY <1>10, <1>a DEF RequestName, OtherLeaves, object
<1>11. ASSUME NEW msg \in Calls, Call(msg) PROVE [Lifetime!Next]_(Lifetime!vars)
  BY <1>11, <1>a DEF Call, object
<1>12. ASSUME NEW n \in Names, PeerDies(n) PROVE [Lifetime!Next]_(Lifetime!vars)
  BY <1>12, <1>a DEF PeerDies, object
<1>13. CASE UNCHANGED vars
  BY <1>13, <1>a DEF vars, object
<1> QED
  BY <1>1, <1>2, <1>3, <1>4, <1>5, <1>6, <1>7, <1>8, <1>9, <1>10, <1>11, <1>12,
     <1>13 DEF Next, Dispatch, Vanish

(* The service implements its abstract lifetime: it is never watched before it is  *)
(* announced, and once announced it is watched, in grace, or out of it.            *)
THEOREM Refinement == Spec => ImplementsLifetime
<1>1. Init => Lifetime!Init
  BY DEF Init, Lifetime!Init, LifetimePhase, LifetimePeers
<1> QED
  BY <1>1, LifetimeStep, Invariance, PTL DEF Spec, ImplementsLifetime, Lifetime!Spec
=============================================================================
