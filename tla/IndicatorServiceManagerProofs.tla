------------------- MODULE IndicatorServiceManagerProofs -------------------
(***************************************************************************)
(* Theorems about IndicatorServiceManager, for any backoff, any number of  *)
(* faults and any number of subscriptions told apart.                      *)
(*                                                                         *)
(* The argument: as long as the manager is neither disposed nor connected  *)
(* something that will call it back exists, and it is never forgotten      *)
(* without a successor.  proxy_cancel stands for a proxy on its way        *)
(* (CreationIsPending), restart_source for a timer (RestartSourceIsLive),  *)
(* a missing proxy for one of the two (ProxyIsComing); a manager that was  *)
(* ever told something good is subscribed (Subscribed), so good news that  *)
(* is outdated is followed by a signal in the queue (GoodNewsHolds,        *)
(* LossFollows).                                                           *)
(***************************************************************************)
EXTENDS IndicatorServiceManager, TLAPS

(* What holds of the queue of a manager that is not disposed. *)

IsSignal(i) == inbox[i].ev \in {"Lost", "Appeared"}
IsGood(i)   == inbox[i].ev = "Watch" /\ inbox[i].result = "good"

\* A signal finds the subscriptions it was sent to.
Heard == \A i \in 1 .. Len(inbox) : IsSignal(i) => inbox[i].left <= subs

\* Watch is called after subscribing, and signals go to subscriptions.
Subscribed ==
    (\/ proxy \/ connected \/ watching > 0
     \/ \E i \in 1 .. Len(inbox) : IsSignal(i) \/ inbox[i].ev = "Watch") => subs > 0

\* A good answer is true, or the news that it is not comes later in the queue.
GoodNewsHolds ==
    \A i \in 1 .. Len(inbox) : IsGood(i) =>
        \/ owner = "good" /\ counted
        \/ \E j \in 1 .. Len(inbox) : i < j /\ IsSignal(j)

\* What makes the manager connected is true, or followed by the loss.
LossFollows ==
    owner = "none" =>
        \A i \in 1 .. Len(inbox) : (IsGood(i) \/ inbox[i].ev = "Appeared") =>
            \E j \in 1 .. Len(inbox) : i < j /\ inbox[j].ev = "Lost"

QueueInv == Heard /\ Subscribed /\ GoodNewsHolds /\ LossFollows

(* What holds of the restarts of a manager that is not disposed. *)

\* proxy_cancel stands for a proxy on its way.
CreationIsPending ==
    proxy_cancel => \/ creating > 0
                    \/ \E i \in 1 .. Len(inbox) : inbox[i].ev = "Proxy"

\* Without a proxy, one is on its way or will be asked for.
ProxyIsComing ==
    ~proxy /\ ~restart_disabled => proxy_cancel \/ idles > 0 \/ timers > 0

\* start_service_again is blocked by dispose only.
NotBlocked == restart_source # "blocked"

\* Calls are cancelled by dispose only.
NothingDropped == dropped.proxies = 0 /\ dropped.watches = 0

RestartInv == CreationIsPending /\ ProxyIsComing /\ NotBlocked /\ NothingDropped

IInv ==
    /\ TypeOK
    /\ RestartSourceIsLive
    /\ ~disposed => QueueInv /\ RestartInv
    /\ LossIsNoticed
    /\ QuiescentIsConnected

-----------------------------------------------------------------------------

(* Every variable stays in its type. *)
LEMMA AgainType ==
  ASSUME TypeOK, NEW count \in Nat, start_service_again(count)
  PROVE  /\ restart_count' \in Nat
         /\ restart_source' \in {"none", "timer", "blocked"}
         /\ idles' \in Nat
         /\ timers' \in Nat
  BY BackoffAssumption DEF TypeOK, start_service_again, AtMost

(* start_service_again leaves something pending, whatever was pending before. *)
LEMMA AgainWakes ==
  ASSUME TypeOK, RestartSourceIsLive, restart_source # "blocked", NEW count \in Nat,
         start_service_again(count)
  PROVE  /\ RestartSourceIsLive'
         /\ restart_source' # "blocked"
         /\ idles' >= idles /\ timers' >= timers
         /\ ~restart_disabled => idles' > 0 \/ timers' > 0
  BY BackoffAssumption DEF TypeOK, start_service_again, AtMost, RestartSourceIsLive

(* Taking a reply off the queue. *)
LEMMA ReceivedFacts ==
  ASSUME TypeOK, NEW ev, NEW results, Received(ev, results)
  PROVE  /\ Len(inbox) \in Nat \ {0}
         /\ inbox[1] = Head(inbox)
         /\ inbox[1].ev = ev /\ inbox[1].result \in results
         /\ inbox' \in Seq(Messages)
         /\ Len(inbox') = Len(inbox) - 1
         /\ \A i \in 1 .. Len(inbox') : i + 1 \in 1 .. Len(inbox) /\ inbox'[i] = inbox[i + 1]
  BY DEF TypeOK, Received

(* Adding a message to the queue. *)
LEMMA ReplyFacts ==
  ASSUME TypeOK, NEW msg \in Messages, Reply(msg)
  PROVE  /\ Len(inbox) \in Nat
         /\ inbox' \in Seq(Messages)
         /\ Len(inbox') = Len(inbox) + 1
         /\ inbox'[Len(inbox) + 1] = msg
         /\ \A i \in 1 .. Len(inbox) : i \in 1 .. Len(inbox') /\ inbox'[i] = inbox[i]
         /\ \A i \in 1 .. Len(inbox') : i \in 1 .. Len(inbox) \/ i = Len(inbox) + 1
  BY DEF TypeOK, Reply

(* A signal that is handed to one subscription goes, or stays for the others. *)
LEMMA SignalledFacts ==
  ASSUME TypeOK, NEW ev \in {"Lost", "Appeared"}, Signalled(ev)
  PROVE  /\ Len(inbox) \in Nat \ {0}
         /\ inbox[1] = Head(inbox)
         /\ inbox[1].ev = ev
         /\ inbox[1].left \in 1 .. MaxSubs
         /\ inbox' \in Seq(Messages)
         /\ \/ /\ Len(inbox') = Len(inbox) - 1
               /\ \A i \in 1 .. Len(inbox') :
                     i + 1 \in 1 .. Len(inbox) /\ inbox'[i] = inbox[i + 1]
            \/ /\ Len(inbox') = Len(inbox)
               /\ inbox'[1].ev = ev
               /\ inbox'[1].left < inbox[1].left
               /\ \A i \in 1 .. Len(inbox) : i # 1 => inbox'[i] = inbox[i]
<1>1. /\ Len(inbox) \in Nat \ {0}
      /\ inbox[1] = Head(inbox)
      /\ inbox[1] \in Messages
      /\ inbox[1].ev = ev
  BY DEF TypeOK, Signalled
<1>2. inbox[1] \in OwnerSignals
  BY <1>1 DEF Messages, ProxyReplies, WatchReplies
<1>3. inbox[1].left \in 1 .. MaxSubs
  BY <1>2 DEF OwnerSignals
<1>4. CASE inbox[1].left = 1
  BY <1>1, <1>3, <1>4 DEF TypeOK, Signalled
<1>5. CASE inbox[1].left # 1
  <2> DEFINE rest == [inbox[1] EXCEPT !.left = @ - 1]
  <2>1. /\ rest \in OwnerSignals
        /\ rest.ev = ev
        /\ rest.left < inbox[1].left
    BY <1>1, <1>2, <1>3, <1>5, BoundsAssumption DEF OwnerSignals
  <2>2. rest \in Messages
    BY <2>1 DEF Messages
  <2>3. inbox' = <<rest>> \o Tail(inbox)
    BY <1>1, <1>5 DEF Signalled
  <2> HIDE DEF rest
  <2>4. /\ inbox' \in Seq(Messages)
        /\ Len(inbox') = Len(inbox)
        /\ inbox'[1] = rest
        /\ \A i \in 1 .. Len(inbox) : i # 1 => inbox'[i] = inbox[i]
    BY <1>1, <2>2, <2>3 DEF TypeOK
  <2> QED
    BY <1>1, <1>3, <2>1, <2>4
<1> QED
  BY <1>4, <1>5
-----------------------------------------------------------------------------
(* The queue. *)

\* Dispatching the head keeps the rest of the queue as it was.
LEMMA PopKeeps ==
  ASSUME TypeOK, QueueInv, Len(inbox) \in Nat \ {0},
         Len(inbox') = Len(inbox) - 1,
         \A i \in 1 .. Len(inbox') : i + 1 \in 1 .. Len(inbox) /\ inbox'[i] = inbox[i + 1],
         owner' = owner, owner = "good" /\ counted => counted',
         subs' \in 0 .. MaxSubs, subs <= subs'
  PROVE  /\ Heard'
         /\ GoodNewsHolds'
         /\ LossFollows'
         /\ (\E i \in 1 .. Len(inbox') : (IsSignal(i) \/ inbox[i].ev = "Watch")') => subs' > 0
<1> USE BoundsAssumption
<1>1. Heard'
  <2> SUFFICES ASSUME NEW i \in 1 .. Len(inbox'), IsSignal(i)'
               PROVE  inbox'[i].left <= subs'
    BY DEF Heard
  <2>1. i + 1 \in 1 .. Len(inbox) /\ IsSignal(i + 1) /\ inbox'[i] = inbox[i + 1]
    BY DEF IsSignal
  <2>2. inbox[i + 1].left <= subs
    BY <2>1 DEF QueueInv, Heard
  <2>3. inbox[i + 1] \in OwnerSignals
    <3>1. inbox[i + 1] \in Messages
      BY <2>1 DEF TypeOK
    <3> QED
      BY <2>1, <3>1 DEF Messages, ProxyReplies, WatchReplies, IsSignal
  <2>4. inbox[i + 1].left \in Nat /\ subs \in Nat /\ subs' \in Nat
    BY <2>3 DEF TypeOK, OwnerSignals
  <2> QED
    BY <2>1, <2>2, <2>4
<1>2. GoodNewsHolds'
  <2> SUFFICES ASSUME NEW i \in 1 .. Len(inbox'), IsGood(i)', ~(owner = "good" /\ counted)'
               PROVE  \E j \in 1 .. Len(inbox') : i < j /\ IsSignal(j)'
    BY DEF GoodNewsHolds
  <2>1. i + 1 \in 1 .. Len(inbox) /\ IsGood(i + 1)
    BY DEF IsGood
  <2>2. PICK j \in 1 .. Len(inbox) : i + 1 < j /\ IsSignal(j)
    BY <2>1 DEF QueueInv, GoodNewsHolds
  <2>3. j - 1 \in 1 .. Len(inbox') /\ i < j - 1 /\ inbox'[j - 1] = inbox[j]
    BY <2>1, <2>2
  <2> QED
    BY <2>2, <2>3 DEF IsSignal
<1>3. LossFollows'
  <2> SUFFICES ASSUME owner' = "none", NEW i \in 1 .. Len(inbox'),
                      IsGood(i)' \/ inbox'[i].ev = "Appeared"
               PROVE  \E j \in 1 .. Len(inbox') : i < j /\ inbox'[j].ev = "Lost"
    BY DEF LossFollows
  <2>1. i + 1 \in 1 .. Len(inbox) /\ (IsGood(i + 1) \/ inbox[i + 1].ev = "Appeared")
    BY DEF IsGood
  <2>2. PICK j \in 1 .. Len(inbox) : i + 1 < j /\ inbox[j].ev = "Lost"
    BY <2>1 DEF QueueInv, LossFollows
  <2>3. j - 1 \in 1 .. Len(inbox') /\ i < j - 1 /\ inbox'[j - 1] = inbox[j]
    BY <2>1, <2>2
  <2> QED
    BY <2>2, <2>3
<1>4. (\E i \in 1 .. Len(inbox') : (IsSignal(i) \/ inbox[i].ev = "Watch")') => subs' > 0
  BY DEF QueueInv, Subscribed, IsSignal, TypeOK
<1> QED
  BY <1>1, <1>2, <1>3, <1>4

\* So does handing a signal to one of its subscriptions.
LEMMA TrimKeeps ==
  ASSUME TypeOK, QueueInv, Len(inbox) \in Nat \ {0},
         Len(inbox') = Len(inbox), IsSignal(1),
         inbox'[1].ev = inbox[1].ev, inbox[1].left \in Nat, inbox'[1].left < inbox[1].left,
         inbox' \in Seq(Messages),
         \A i \in 1 .. Len(inbox) : i # 1 => inbox'[i] = inbox[i],
         UNCHANGED <<owner, counted, subs>>
  PROVE  /\ Heard'
         /\ GoodNewsHolds'
         /\ LossFollows'
         /\ (\E i \in 1 .. Len(inbox') : (IsSignal(i) \/ inbox[i].ev = "Watch")') => subs' > 0
<1>1. inbox'[1] \in OwnerSignals
  <2>1. inbox'[1] \in Messages
    OBVIOUS
  <2> QED
    BY <2>1 DEF Messages, ProxyReplies, WatchReplies, OwnerSignals, IsSignal
<1>2. Heard'
  <2>1. inbox'[1].left <= subs
    <3>1. inbox[1].left <= subs
      BY DEF QueueInv, Heard
    <3>2. inbox'[1].left \in Nat /\ subs \in Nat
      BY <1>1, BoundsAssumption DEF OwnerSignals, TypeOK
    <3> QED
      BY <3>1, <3>2
  <2>2. \A i \in 1 .. Len(inbox) : i # 1 /\ IsSignal(i)' => inbox'[i].left <= subs
    BY DEF QueueInv, Heard, IsSignal
  <2> QED
    BY <2>1, <2>2 DEF Heard
<1>3. \A i \in 1 .. Len(inbox) : inbox'[i].ev = inbox[i].ev
  OBVIOUS
<1>4. \A i \in 1 .. Len(inbox) : IsGood(i)' => IsGood(i)
  BY DEF IsGood, IsSignal
<1>5. \A i \in 1 .. Len(inbox) : IsSignal(i)' <=> IsSignal(i)
  BY <1>3 DEF IsSignal
<1>6. GoodNewsHolds'
  BY <1>4, <1>5 DEF QueueInv, GoodNewsHolds
<1>7. LossFollows'
  BY <1>3, <1>4 DEF QueueInv, LossFollows
<1>8. (\E i \in 1 .. Len(inbox') : (IsSignal(i) \/ inbox[i].ev = "Watch")') => subs' > 0
  BY <1>3, <1>5 DEF QueueInv, Subscribed
<1> QED
  BY <1>2, <1>6, <1>7, <1>8

\* A reply goes to the end of the queue; a good one is true.
LEMMA ReplyKeeps ==
  ASSUME TypeOK, QueueInv, NEW msg \in ProxyReplies \cup WatchReplies, Reply(msg),
         msg.ev = "Watch" => subs > 0,
         msg.result = "good" => owner = "good" /\ counted',
         owner' = owner, subs' = subs, counted => counted'
  PROVE  /\ Heard'
         /\ GoodNewsHolds'
         /\ LossFollows'
         /\ (\E i \in 1 .. Len(inbox') : (IsSignal(i) \/ inbox[i].ev = "Watch")') => subs' > 0
         /\ CreationIsPending /\ proxy_cancel' = proxy_cancel
              /\ (creating' = creating \/ msg.ev = "Proxy") => CreationIsPending'
         /\ LossIsNoticed /\ UNCHANGED <<connected, disposed>> => LossIsNoticed'
         /\ ~Quiescent'
<1>1. msg \in Messages
  BY DEF Messages
<1>2. /\ Len(inbox) \in Nat
      /\ Len(inbox') = Len(inbox) + 1
      /\ inbox'[Len(inbox) + 1] = msg
      /\ \A i \in 1 .. Len(inbox) : i \in 1 .. Len(inbox') /\ inbox'[i] = inbox[i]
      /\ \A i \in 1 .. Len(inbox') : i \in 1 .. Len(inbox) \/ i = Len(inbox) + 1
  BY <1>1, ReplyFacts
<1>3. msg.ev \in {"Proxy", "Watch"}
  BY DEF ProxyReplies, WatchReplies
<1>4. Heard'
  BY <1>2, <1>3 DEF QueueInv, Heard, IsSignal
<1>5. GoodNewsHolds'
  <2> SUFFICES ASSUME NEW i \in 1 .. Len(inbox'), IsGood(i)'
               PROVE  \/ (owner = "good" /\ counted)'
                      \/ \E j \in 1 .. Len(inbox') : i < j /\ IsSignal(j)'
    BY DEF GoodNewsHolds
  <2>1. CASE i = Len(inbox) + 1
    BY <2>1, <1>2 DEF IsGood
  <2>2. CASE i \in 1 .. Len(inbox)
    BY <2>2, <1>2 DEF QueueInv, GoodNewsHolds, IsGood, IsSignal
  <2> QED
    BY <2>1, <2>2, <1>2
<1>6. LossFollows'
  <2> SUFFICES ASSUME owner' = "none", NEW i \in 1 .. Len(inbox'),
                      IsGood(i)' \/ inbox'[i].ev = "Appeared"
               PROVE  \E j \in 1 .. Len(inbox') : i < j /\ inbox'[j].ev = "Lost"
    BY DEF LossFollows
  <2>1. CASE i = Len(inbox) + 1
    BY <2>1, <1>2, <1>3 DEF IsGood
  <2>2. CASE i \in 1 .. Len(inbox)
    BY <2>2, <1>2 DEF QueueInv, LossFollows, IsGood
  <2> QED
    BY <2>1, <2>2, <1>2
<1>7. (\E i \in 1 .. Len(inbox') : (IsSignal(i) \/ inbox[i].ev = "Watch")') => subs' > 0
  BY <1>2, <1>3 DEF QueueInv, Subscribed, IsSignal
<1>8. CreationIsPending /\ proxy_cancel' = proxy_cancel
         /\ (creating' = creating \/ msg.ev = "Proxy") => CreationIsPending'
  BY <1>2 DEF CreationIsPending
<1>9. LossIsNoticed /\ UNCHANGED <<connected, disposed>> => LossIsNoticed'
  BY <1>2 DEF LossIsNoticed
<1>10. ~Quiescent'
  BY <1>2 DEF Quiescent
<1> QED
  BY <1>4, <1>5, <1>6, <1>7, <1>8, <1>9, <1>10
\* A signal to every subscription goes to the end of the queue.
LEMMA TellFacts ==
  ASSUME TypeOK, NEW ev \in {"Lost", "Appeared"}, Tell(ev)
  PROVE  /\ inbox' \in Seq(Messages)
         /\ subs = 0 => inbox' = inbox
         /\ subs > 0 =>
               /\ Len(inbox') = Len(inbox) + 1
               /\ inbox'[Len(inbox) + 1].ev = ev
               /\ inbox'[Len(inbox) + 1].left = subs
               /\ \A i \in 1 .. Len(inbox) : i \in 1 .. Len(inbox') /\ inbox'[i] = inbox[i]
               /\ \A i \in 1 .. Len(inbox') : i \in 1 .. Len(inbox) \/ i = Len(inbox) + 1
<1>1. CASE subs = 0
  BY <1>1 DEF Tell, TypeOK
<1>2. CASE subs > 0
  <2>1. PICK msg \in OwnerSignals : msg.ev = ev /\ msg.left = subs /\ Reply(msg)
    <3> DEFINE told == [ev |-> ev, left |-> subs]
    <3>1. subs \in 1 .. MaxSubs
      BY <1>2, BoundsAssumption DEF TypeOK
    <3>2. told \in OwnerSignals /\ told.ev = ev /\ told.left = subs
      BY <3>1, Zenon DEF OwnerSignals
    <3>3. Reply(told)
      BY <1>2, <3>1 DEF Tell, Reply
    <3> QED
      BY <3>2, <3>3, Zenon
  <2>2. msg \in Messages
    BY DEF Messages
  <2> QED
    BY <1>2, <2>1, <2>2, ReplyFacts
<1> QED
  BY <1>1, <1>2, BoundsAssumption DEF TypeOK

\* It corrects what was good news.
LEMMA TellKeeps ==
  ASSUME TypeOK, QueueInv, NEW ev \in {"Lost", "Appeared"}, Tell(ev),
         owner' = "none" => ev = "Lost",
         owner = "none" => ev = "Appeared" /\ owner' # "none",
         UNCHANGED <<proxy, connected, watching, subs>>
  PROVE  QueueInv'
<1>1. CASE subs = 0
  <2>1. inbox' = inbox
    BY <1>1, TellFacts
  <2>2. \A i \in 1 .. Len(inbox) : ~IsSignal(i) /\ inbox[i].ev # "Watch"
    BY <1>1 DEF QueueInv, Subscribed
  <2> QED
    BY <2>1, <2>2 DEF QueueInv, Heard, Subscribed, GoodNewsHolds, LossFollows, IsSignal, IsGood
<1>2. CASE subs > 0
  <2>1. /\ Len(inbox) \in Nat
        /\ Len(inbox') = Len(inbox) + 1
        /\ inbox'[Len(inbox) + 1].ev = ev
        /\ inbox'[Len(inbox) + 1].left = subs
        /\ \A i \in 1 .. Len(inbox) : i \in 1 .. Len(inbox') /\ inbox'[i] = inbox[i]
        /\ \A i \in 1 .. Len(inbox') : i \in 1 .. Len(inbox) \/ i = Len(inbox) + 1
    BY <1>2, TellFacts DEF TypeOK
  <2>2. Heard'
    BY <2>1, BoundsAssumption DEF QueueInv, Heard, IsSignal, TypeOK
  <2>3. Subscribed'
    BY <1>2 DEF Subscribed
  <2>4. GoodNewsHolds'
    BY <2>1 DEF GoodNewsHolds, IsSignal, IsGood
  <2>5. LossFollows'
    BY <2>1 DEF LossFollows, IsGood
  <2> QED
    BY <2>2, <2>3, <2>4, <2>5 DEF QueueInv
<1> QED
  BY <1>1, <1>2, BoundsAssumption DEF TypeOK
-----------------------------------------------------------------------------
(* Types, and the timer that restart_source names. *)

LEMMA SourceKept ==
  ASSUME TypeOK, RestartSourceIsLive, NEW count \in Nat, start_service_again(count)
  PROVE  RestartSourceIsLive'
  BY DEF TypeOK, start_service_again, RestartSourceIsLive

LEMMA CancelType ==
  ASSUME NEW msg \in Messages
  PROVE  Cancel(msg) \in Messages /\ Cancel(msg).ev = msg.ev
<1>1. CASE msg \in ProxyReplies
  BY <1>1 DEF Cancel, Messages, ProxyReplies
<1>2. CASE msg \in WatchReplies
  BY <1>2 DEF Cancel, Messages, WatchReplies
<1>3. CASE msg \in OwnerSignals
  BY <1>3 DEF Cancel, Messages, OwnerSignals
<1> QED
  BY <1>1, <1>2, <1>3 DEF Messages

LEMMA StartType ==
  ASSUME TypeOK, start_service
  PROVE  proxy' \in BOOLEAN /\ proxy_cancel' \in BOOLEAN /\ creating' \in Nat
<1>1. proxy' \in BOOLEAN /\ proxy_cancel' \in BOOLEAN
  BY Zenon DEF TypeOK, start_service
<1>2. creating' \in Nat
  BY DEF TypeOK, start_service
<1> QED
  BY <1>1, <1>2

\* A manager with a proxy is subscribed, so what dispose drops is there.
LEMMA TypeInductive ==
  TypeOK /\ RestartSourceIsLive /\ (~disposed => Subscribed) /\ [Next]_vars
    => TypeOK' /\ RestartSourceIsLive'
<1> SUFFICES ASSUME TypeOK, RestartSourceIsLive, ~disposed => Subscribed, [Next]_vars
             PROVE  TypeOK' /\ RestartSourceIsLive'
  OBVIOUS
<1> USE BoundsAssumption, BackoffAssumption
<1>1. CASE service_proxy_cb_fails
  BY <1>1, ReceivedFacts, AgainType, SourceKept DEF TypeOK, service_proxy_cb_fails, pending, bus
<1>2. CASE service_proxy_cb_succeeds
  <2>1. inbox' \in Seq(Messages) /\ subs' \in 0 .. MaxSubs /\ watching' \in Nat
    BY <1>2, ReceivedFacts DEF TypeOK, service_proxy_cb_succeeds, AtMost
  <2>2. proxy' \in BOOLEAN /\ proxy_cancel' \in BOOLEAN /\ name_watcher' \in BOOLEAN
    BY <1>2, Zenon DEF service_proxy_cb_succeeds
  <2> QED
    BY <1>2, <2>1, <2>2 DEF TypeOK, service_proxy_cb_succeeds, restart, bus, RestartSourceIsLive
<1>3. CASE watch_cb_fails
  BY <1>3, ReceivedFacts, AgainType, SourceKept DEF TypeOK, watch_cb_fails, handles, pending, bus
<1>4. CASE watch_cb_mismatch
  <2>1. counted' \in BOOLEAN
    BY <1>4, Zenon DEF watch_cb_mismatch
  <2>2. LittleWhile \in Nat /\ start_service_again(LittleWhile)
    BY <1>4 DEF watch_cb_mismatch
  <2>3. RestartSourceIsLive'
    BY <2>2, SourceKept
  <2>4. inbox' \in Seq(Messages)
    BY <1>4, ReceivedFacts DEF watch_cb_mismatch
  <2>5. /\ restart_count' \in Nat
        /\ restart_source' \in {"none", "timer", "blocked"}
        /\ idles' \in Nat
        /\ timers' \in Nat
    BY <2>2, AgainType
  <2> QED
    BY <1>4, <2>1, <2>3, <2>4, <2>5 DEF TypeOK, watch_cb_mismatch, handles, pending
<1>5. CASE watch_cb_connects
  BY <1>5, ReceivedFacts DEF TypeOK, watch_cb_connects, handles, pending, bus, RestartSourceIsLive
<1>6. CASE service_proxy_name_changed_lost
  BY <1>6, SignalledFacts, AgainType, SourceKept
     DEF TypeOK, service_proxy_name_changed_lost, handles, pending, bus
<1>7. CASE service_proxy_name_changed_appeared
  BY <1>7, SignalledFacts
     DEF TypeOK, service_proxy_name_changed_appeared, handles, restart, bus, RestartSourceIsLive
<1>8. CASE signal_unheard
  BY <1>8, SignalledFacts
     DEF TypeOK, signal_unheard, handles, restart, pending, bus, RestartSourceIsLive
<1>9. CASE restart_in_idle
  <2>1. proxy' \in BOOLEAN /\ proxy_cancel' \in BOOLEAN /\ creating' \in Nat
    BY <1>9, StartType DEF restart_in_idle, start_service_again_cb
  <2>2. idles' \in Nat /\ timers' = timers /\ restart_count' \in Nat
    BY <1>9 DEF restart_in_idle, start_service_again_cb, TypeOK
  <2> QED
    BY <1>9, <2>1, <2>2
       DEF TypeOK, restart_in_idle, start_service_again_cb, bus, RestartSourceIsLive
<1>10. CASE restart_in_timeout
  <2>1. proxy' \in BOOLEAN /\ proxy_cancel' \in BOOLEAN /\ creating' \in Nat
    BY <1>10, StartType DEF restart_in_timeout, start_service_again_cb
  <2>2. timers' \in Nat /\ idles' = idles /\ restart_count' \in Nat
    BY <1>10 DEF restart_in_timeout, start_service_again_cb, TypeOK
  <2> QED
    BY <1>10, <2>1, <2>2
       DEF TypeOK, restart_in_timeout, start_service_again_cb, bus, RestartSourceIsLive
<1>11. CASE indicator_service_manager_dispose
  <2>1. inbox' \in Seq(Messages)
    BY <1>11, CancelType DEF indicator_service_manager_dispose, TypeOK
  <2>2. timers' \in Nat
    BY <1>11 DEF indicator_service_manager_dispose, TypeOK, RestartSourceIsLive
  <2>3. subs' \in 0 .. MaxSubs
    BY <1>11 DEF indicator_service_manager_dispose, TypeOK, Subscribed
  <2>4. counted' \in BOOLEAN
    BY <1>11, Zenon DEF indicator_service_manager_dispose
  <2> QED
    BY <1>11, <2>1, <2>2, <2>3, <2>4 DEF indicator_service_manager_dispose, TypeOK, RestartSourceIsLive
<1>12. CASE ProxyCreated
  <2>1. PICK msg \in ProxyReplies : Reply(msg)
    BY <1>12, Zenon DEF ProxyCreated, ProxyReplies
  <2>2. inbox' \in Seq(Messages)
    BY <2>1, ReplyFacts DEF Messages
  <2> QED
    BY <1>12, <2>2 DEF TypeOK, ProxyCreated, Blame, handles, restart, RestartSourceIsLive
<1>13. CASE WatchAnswered
  <2>1. PICK msg \in WatchReplies : Reply(msg)
    BY <1>13 DEF WatchAnswered, WatchReplies, TypeOK
  <2>2. inbox' \in Seq(Messages)
    BY <2>1, ReplyFacts DEF Messages
  <2>3. faults' \in 0 .. MaxFaults
    BY <1>13 DEF WatchAnswered, Blame, TypeOK
  <2>4. counted' \in BOOLEAN
    BY <1>13, Zenon DEF WatchAnswered, TypeOK
  <2> QED
    BY <1>13, <2>2, <2>3, <2>4 DEF TypeOK, WatchAnswered, handles, restart, RestartSourceIsLive
<1>14. CASE DroppedEnds
  <2>1. PICK msg \in ProxyReplies \cup WatchReplies : Reply(msg)
    BY <1>14, Zenon DEF DroppedEnds, ProxyReplies, WatchReplies
  <2>2. inbox' \in Seq(Messages)
    BY <2>1, ReplyFacts DEF Messages
  <2>3. dropped' \in [proxies : Nat, watches : Nat]
    BY SMTT(20), <1>14 DEF DroppedEnds, TypeOK
  <2> QED
    BY <1>14, <2>2, <2>3 DEF TypeOK, DroppedEnds, handles, restart, bus, RestartSourceIsLive
<1>15. CASE ServiceDies
  <2>1. inbox' \in Seq(Messages)
    BY <1>15, TellFacts DEF ServiceDies
  <2>2. faults' \in 0 .. MaxFaults
    BY <1>15 DEF TypeOK, ServiceDies, Blame
  <2>3. counted' \in BOOLEAN /\ owner' \in {"none", "good", "bad"}
    BY <1>15, Zenon DEF TypeOK, ServiceDies
  <2> QED
    BY <1>15, <2>1, <2>2, <2>3 DEF TypeOK, ServiceDies, handles, restart, pending, RestartSourceIsLive
<1>16. ASSUME NEW kind \in {"good", "bad"}, ServiceAppears(kind) \/ ServiceReplaced(kind)
       PROVE  TypeOK' /\ RestartSourceIsLive'
  <2>1. inbox' \in Seq(Messages)
    BY <1>16, TellFacts DEF ServiceAppears, ServiceReplaced
  <2>2. faults' \in 0 .. MaxFaults
    BY <1>16 DEF TypeOK, ServiceAppears, ServiceReplaced, Blame
  <2>3. counted' \in BOOLEAN /\ owner' \in {"none", "good", "bad"}
    BY <1>16, Zenon DEF TypeOK, ServiceAppears, ServiceReplaced
  <2> QED
    BY <1>16, <2>1, <2>2, <2>3
       DEF TypeOK, ServiceAppears, ServiceReplaced, handles, restart, pending, RestartSourceIsLive
<1>17. CASE UNCHANGED vars
  BY <1>17 DEF TypeOK, vars, handles, restart, pending, bus, RestartSourceIsLive
<1> QED
  BY <1>1, <1>2, <1>3, <1>4, <1>5, <1>6, <1>7, <1>8, <1>9, <1>10, <1>11, <1>12, <1>13, <1>14,
     <1>15, <1>16, <1>17 DEF Next, Dispatch, Environment
-----------------------------------------------------------------------------
(* The inductive step, while the manager is not disposed of. *)

Alive == QueueInv /\ RestartInv /\ LossIsNoticed /\ QuiescentIsConnected

\* What a callback finds when it is run for the head of the queue.
LEMMA ReceivedKeeps ==
  ASSUME TypeOK, QueueInv, NEW ev, NEW results, Received(ev, results),
         owner' = owner, owner = "good" /\ counted => counted',
         subs' \in 0 .. MaxSubs, subs <= subs'
  PROVE  /\ Heard' /\ GoodNewsHolds' /\ LossFollows'
         /\ (\E i \in 1 .. Len(inbox') : (IsSignal(i) \/ inbox[i].ev = "Watch")') => subs' > 0
         /\ \A j \in 1 .. Len(inbox) : j # 1 => \E k \in 1 .. Len(inbox') : inbox'[k] = inbox[j]
         /\ 1 \in 1 .. Len(inbox) /\ inbox[1].ev = ev /\ inbox[1].result \in results
<1>1. /\ Len(inbox) \in Nat \ {0}
      /\ inbox[1].ev = ev /\ inbox[1].result \in results
      /\ Len(inbox') = Len(inbox) - 1
      /\ \A i \in 1 .. Len(inbox') : i + 1 \in 1 .. Len(inbox) /\ inbox'[i] = inbox[i + 1]
  BY ReceivedFacts
<1>2. \A j \in 1 .. Len(inbox) : j # 1 => j - 1 \in 1 .. Len(inbox') /\ inbox'[j - 1] = inbox[j]
  BY <1>1
<1> QED
  BY <1>1, <1>2, PopKeeps

LEMMA SignalledKeeps ==
  ASSUME TypeOK, QueueInv, NEW ev \in {"Lost", "Appeared"}, Signalled(ev),
         UNCHANGED <<owner, counted, subs>>
  PROVE  /\ Heard' /\ GoodNewsHolds' /\ LossFollows'
         /\ (\E i \in 1 .. Len(inbox') : (IsSignal(i) \/ inbox[i].ev = "Watch")') => subs' > 0
         /\ \A j \in 1 .. Len(inbox) : j # 1 => \E k \in 1 .. Len(inbox') : inbox'[k] = inbox[j]
         /\ 1 \in 1 .. Len(inbox) /\ inbox[1].ev = ev
<1>1. /\ Len(inbox) \in Nat \ {0}
      /\ inbox[1].ev = ev
      /\ inbox[1].left \in Nat
      /\ inbox' \in Seq(Messages)
  BY SignalledFacts, BoundsAssumption
<1>2. CASE /\ Len(inbox') = Len(inbox) - 1
           /\ \A i \in 1 .. Len(inbox') :
                 i + 1 \in 1 .. Len(inbox) /\ inbox'[i] = inbox[i + 1]
  <2>1. \A j \in 1 .. Len(inbox) : j # 1 => j - 1 \in 1 .. Len(inbox') /\ inbox'[j - 1] = inbox[j]
    BY <1>1, <1>2
  <2>2. subs' \in 0 .. MaxSubs /\ subs <= subs'
    BY BoundsAssumption DEF TypeOK
  <2> QED
    BY <1>1, <1>2, <2>1, <2>2, PopKeeps
<1>3. CASE /\ Len(inbox') = Len(inbox)
           /\ inbox'[1].ev = ev
           /\ inbox'[1].left < inbox[1].left
           /\ \A i \in 1 .. Len(inbox) : i # 1 => inbox'[i] = inbox[i]
  <2>1. IsSignal(1)
    BY <1>1 DEF IsSignal
  <2> QED
    BY <1>1, <1>3, <2>1, TrimKeeps
<1> QED
  BY <1>2, <1>3, SignalledFacts

\* A restart that is scheduled, or blocked by another one, is something to wait for.
LEMMA AgainKeeps ==
  ASSUME TypeOK, RestartSourceIsLive, NotBlocked, NEW count \in Nat, start_service_again(count),
         restart_disabled' = restart_disabled
  PROVE  NotBlocked' /\ ProxyIsComing' /\ QuiescentIsConnected'
<1>1. /\ restart_source' # "blocked"
      /\ ~restart_disabled => idles' > 0 \/ timers' > 0
  BY AgainWakes DEF NotBlocked
<1>2. idles' \in Nat /\ timers' \in Nat
  BY AgainType
<1> QED
  BY <1>1, <1>2 DEF NotBlocked, ProxyIsComing, QuiescentIsConnected, Quiescent

LEMMA RepliesAlive ==
  ASSUME TypeOK, RestartSourceIsLive, Alive, ~disposed,
         \/ service_proxy_cb_fails \/ service_proxy_cb_succeeds
         \/ watch_cb_fails \/ watch_cb_mismatch \/ watch_cb_connects
  PROVE  Alive'
<1> USE BoundsAssumption DEF Alive, QueueInv, RestartInv
<1>0. restart_count \in Nat /\ LittleWhile \in Nat /\ subs \in 0 .. MaxSubs
  BY BackoffAssumption DEF TypeOK
<1>1. CASE service_proxy_cb_fails
  <2>1. /\ Received("Proxy", {"error", "unowned"}) /\ start_service_again(restart_count)
        /\ proxy_cancel' = FALSE
        /\ UNCHANGED <<disposed, connected, proxy, watching, dropped, subs, owner, counted,
                       restart_disabled>>
    BY <1>1 DEF service_proxy_cb_fails, pending, bus
  <2>2. /\ Heard' /\ GoodNewsHolds' /\ LossFollows'
        /\ (\E i \in 1 .. Len(inbox') : (IsSignal(i) \/ inbox[i].ev = "Watch")') => subs' > 0
        /\ \A j \in 1 .. Len(inbox) : j # 1 => \E k \in 1 .. Len(inbox') : inbox'[k] = inbox[j]
        /\ 1 \in 1 .. Len(inbox) /\ inbox[1].ev = "Proxy"
    BY <1>0, <2>1, ReceivedKeeps
  <2>3. Subscribed'
    BY <2>1, <2>2 DEF Subscribed
  <2>4. CreationIsPending' /\ NothingDropped'
    BY <2>1 DEF CreationIsPending, NothingDropped
  <2>5. NotBlocked' /\ ProxyIsComing' /\ QuiescentIsConnected'
    BY <1>0, <2>1, AgainKeeps
  <2>6. LossIsNoticed'
    BY <2>1, <2>2 DEF LossIsNoticed
  <2> QED
    BY <2>2, <2>3, <2>4, <2>5, <2>6
<1>2. CASE service_proxy_cb_succeeds
  <2>1. /\ Received("Proxy", {"owned"})
        /\ proxy_cancel' = FALSE /\ proxy' = TRUE /\ watching' = watching + 1
        /\ subs' = AtMost(MaxSubs, subs + 1)
        /\ UNCHANGED <<disposed, connected, dropped, owner, counted, restart_source, restart_disabled>>
    BY <1>2 DEF service_proxy_cb_succeeds, restart, bus
  <2>2. subs' \in 0 .. MaxSubs /\ subs <= subs' /\ subs' > 0
    BY <1>0, <2>1 DEF AtMost
  <2>3. /\ Heard' /\ GoodNewsHolds' /\ LossFollows'
        /\ \A j \in 1 .. Len(inbox) : j # 1 => \E k \in 1 .. Len(inbox') : inbox'[k] = inbox[j]
        /\ 1 \in 1 .. Len(inbox) /\ inbox[1].ev = "Proxy"
    BY <2>1, <2>2, ReceivedKeeps
  <2>4. Subscribed'
    BY <2>2 DEF Subscribed
  <2>5. CreationIsPending' /\ NotBlocked' /\ ProxyIsComing' /\ NothingDropped'
    BY <2>1 DEF CreationIsPending, NotBlocked, ProxyIsComing, NothingDropped
  <2>6. QuiescentIsConnected'
    BY <2>1 DEF QuiescentIsConnected, Quiescent, TypeOK
  <2>7. LossIsNoticed'
    BY <2>1, <2>3 DEF LossIsNoticed
  <2> QED
    BY <2>3, <2>4, <2>5, <2>6, <2>7
<1>3. CASE watch_cb_fails \/ watch_cb_mismatch
  <2>1. PICK count \in Nat, results \in {{"error"}, {"bad"}} :
          /\ Received("Watch", results) /\ start_service_again(count)
          /\ owner = "good" /\ counted => counted'
          /\ UNCHANGED <<disposed, connected, proxy, proxy_cancel, creating, watching, dropped, subs, owner,
                         restart_disabled>>
    <3>1. CASE watch_cb_fails
      BY <1>0, <3>1 DEF watch_cb_fails, handles, pending, bus
    <3>2. CASE watch_cb_mismatch
      BY <1>0, <3>2 DEF watch_cb_mismatch, handles, pending
    <3> QED
      BY <1>3, <3>1, <3>2
  <2>2. /\ Heard' /\ GoodNewsHolds' /\ LossFollows'
        /\ (\E i \in 1 .. Len(inbox') : (IsSignal(i) \/ inbox[i].ev = "Watch")') => subs' > 0
        /\ \A j \in 1 .. Len(inbox) : j # 1 => \E k \in 1 .. Len(inbox') : inbox'[k] = inbox[j]
        /\ 1 \in 1 .. Len(inbox) /\ inbox[1].ev = "Watch"
    BY <1>0, <2>1, ReceivedKeeps
  <2>3. Subscribed'
    BY <2>1, <2>2 DEF Subscribed
  <2>4. CreationIsPending' /\ NothingDropped'
    BY <2>1, <2>2 DEF CreationIsPending, NothingDropped
  <2>5. NotBlocked' /\ ProxyIsComing' /\ QuiescentIsConnected'
    BY <2>1, AgainKeeps
  <2>6. LossIsNoticed'
    BY <2>1, <2>2 DEF LossIsNoticed
  <2> QED
    BY <2>2, <2>3, <2>4, <2>5, <2>6
<1>4. CASE watch_cb_connects
  <2>1. /\ Received("Watch", {"good"}) /\ connected' = TRUE
        /\ UNCHANGED <<disposed, proxy, proxy_cancel, creating, watching, dropped, subs, owner, counted,
                       restart_source, idles, timers, restart_disabled>>
    BY <1>4 DEF watch_cb_connects, handles, pending, bus
  <2>2. /\ Heard' /\ GoodNewsHolds' /\ LossFollows'
        /\ (\E i \in 1 .. Len(inbox') : (IsSignal(i) \/ inbox[i].ev = "Watch")') => subs' > 0
        /\ \A j \in 1 .. Len(inbox) : j # 1 => \E k \in 1 .. Len(inbox') : inbox'[k] = inbox[j]
        /\ 1 \in 1 .. Len(inbox) /\ inbox[1].ev = "Watch" /\ IsGood(1)
    BY <1>0, <2>1, ReceivedKeeps DEF IsGood
  <2>3. Subscribed'
    BY <2>1, <2>2 DEF Subscribed
  <2>4. CreationIsPending' /\ NotBlocked' /\ ProxyIsComing' /\ NothingDropped'
    BY <2>1, <2>2 DEF CreationIsPending, NotBlocked, ProxyIsComing, NothingDropped
  <2>5. QuiescentIsConnected'
    <3>1. CASE owner = "good" /\ counted
      BY <2>1, <3>1 DEF QuiescentIsConnected
    <3>2. CASE \E j \in 1 .. Len(inbox) : 1 < j
      <4>1. PICK j \in 1 .. Len(inbox) : j # 1
        BY <3>2
      <4>2. inbox' # <<>>
        BY <2>2, <4>1
      <4> QED
        BY <4>2 DEF QuiescentIsConnected, Quiescent
    <3> QED
      BY <2>2, <3>1, <3>2 DEF GoodNewsHolds
  <2>6. LossIsNoticed'
    <3> SUFFICES ASSUME owner = "none"
                 PROVE  \E k \in 1 .. Len(inbox') : inbox'[k].ev = "Lost"
      BY <2>1 DEF LossIsNoticed
    <3>1. PICK j \in 1 .. Len(inbox) : 1 < j /\ inbox[j].ev = "Lost"
      BY <2>2 DEF LossFollows
    <3> QED
      BY <2>2, <3>1
  <2> QED
    BY <2>2, <2>3, <2>4, <2>5, <2>6
<1> QED
  BY <1>1, <1>2, <1>3, <1>4
LEMMA SignalsAlive ==
  ASSUME TypeOK, RestartSourceIsLive, Alive, ~disposed,
         \/ service_proxy_name_changed_lost \/ service_proxy_name_changed_appeared
         \/ signal_unheard
  PROVE  Alive'
<1> USE BoundsAssumption DEF Alive, QueueInv, RestartInv
<1>0. restart_count \in Nat /\ subs \in 0 .. MaxSubs /\ watching \in Nat /\ Len(inbox) \in Nat
  BY DEF TypeOK
<1>1. CASE service_proxy_name_changed_lost
  <2>1. /\ Signalled("Lost") /\ start_service_again(restart_count)
        /\ connected' = FALSE
        /\ UNCHANGED <<disposed, proxy, proxy_cancel, creating, watching, dropped, subs, owner, counted,
                       restart_disabled>>
    BY <1>1 DEF service_proxy_name_changed_lost, handles, pending, bus
  <2>2. /\ Heard' /\ GoodNewsHolds' /\ LossFollows'
        /\ (\E i \in 1 .. Len(inbox') : (IsSignal(i) \/ inbox[i].ev = "Watch")') => subs' > 0
        /\ \A j \in 1 .. Len(inbox) : j # 1 => \E k \in 1 .. Len(inbox') : inbox'[k] = inbox[j]
        /\ 1 \in 1 .. Len(inbox) /\ inbox[1].ev = "Lost"
    BY <2>1, SignalledKeeps
  <2>3. Subscribed'
    BY <2>1, <2>2 DEF Subscribed
  <2>4. CreationIsPending' /\ NothingDropped'
    BY <2>1, <2>2 DEF CreationIsPending, NothingDropped
  <2>5. NotBlocked' /\ ProxyIsComing' /\ QuiescentIsConnected'
    BY <1>0, <2>1, AgainKeeps
  <2>6. LossIsNoticed'
    BY <2>1 DEF LossIsNoticed
  <2> QED
    BY <2>2, <2>3, <2>4, <2>5, <2>6
<1>2. CASE service_proxy_name_changed_appeared
  <2>1. /\ Signalled("Appeared")
        /\ connected' = TRUE
        /\ watching' = IF proxy THEN watching + 1 ELSE watching
        /\ UNCHANGED <<disposed, proxy, proxy_cancel, creating, dropped, subs, owner, counted,
                       restart_source, idles, timers, restart_disabled>>
    BY <1>2 DEF service_proxy_name_changed_appeared, handles, restart, bus
  <2>2. /\ Heard' /\ GoodNewsHolds' /\ LossFollows'
        /\ (\E i \in 1 .. Len(inbox') : (IsSignal(i) \/ inbox[i].ev = "Watch")') => subs' > 0
        /\ \A j \in 1 .. Len(inbox) : j # 1 => \E k \in 1 .. Len(inbox') : inbox'[k] = inbox[j]
        /\ 1 \in 1 .. Len(inbox) /\ inbox[1].ev = "Appeared"
    BY <2>1, SignalledKeeps
  <2>3. Subscribed'
    BY <2>1, <2>2 DEF Subscribed, IsSignal
  <2>4. CreationIsPending' /\ NotBlocked' /\ ProxyIsComing' /\ NothingDropped'
    BY <2>1, <2>2 DEF CreationIsPending, NotBlocked, ProxyIsComing, NothingDropped
  <2>5. QuiescentIsConnected'
    <3> SUFFICES ASSUME Quiescent', ~restart_disabled
                 PROVE  FALSE
      BY <2>1 DEF QuiescentIsConnected
    <3>1. inbox' = <<>> /\ watching' = 0 /\ creating = 0 /\ idles = 0 /\ timers = 0
      BY <2>1 DEF Quiescent
    <3>2. ~proxy
      BY <1>0, <2>1, <3>1
    <3>3. proxy_cancel
      BY <3>1, <3>2 DEF ProxyIsComing
    <3>4. PICK i \in 1 .. Len(inbox) : inbox[i].ev = "Proxy"
      BY <3>1, <3>3 DEF CreationIsPending
    <3>5. i # 1
      BY <2>2, <3>4
    <3>6. \E k \in 1 .. Len(inbox') : inbox'[k] = inbox[i]
      BY <2>2, <3>5
    <3> QED
      BY <3>1, <3>6
  <2>6. LossIsNoticed'
    <3> SUFFICES ASSUME owner = "none"
                 PROVE  \E k \in 1 .. Len(inbox') : inbox'[k].ev = "Lost"
      BY <2>1 DEF LossIsNoticed
    <3>1. PICK j \in 1 .. Len(inbox) : 1 < j /\ inbox[j].ev = "Lost"
      BY <2>2 DEF LossFollows
    <3> QED
      BY <2>2, <3>1
  <2> QED
    BY <2>2, <2>3, <2>4, <2>5, <2>6
<1>3. CASE signal_unheard
  <2>1. PICK ev \in {"Lost", "Appeared"} : Signalled(ev)
    BY <1>3 DEF signal_unheard
  <2>2. 1 \in 1 .. Len(inbox) /\ inbox[1] = Head(inbox) /\ IsSignal(1) /\ inbox[1].left \in Nat
    BY <2>1, SignalledFacts DEF IsSignal
  <2>3. inbox[1].left > subs
    BY <1>3, <2>2 DEF signal_unheard
  <2>4. inbox[1].left <= subs
    BY <2>2 DEF Heard
  <2> QED
    BY <1>0, <2>2, <2>3, <2>4
<1> QED
  BY <1>1, <1>2, <1>3

\* A restart drops the proxy only when it asks for a new one.
LEMMA RestartsAlive ==
  ASSUME TypeOK, RestartSourceIsLive, Alive, ~disposed, restart_in_idle \/ restart_in_timeout
  PROVE  Alive'
<1> USE DEF Alive, QueueInv, RestartInv
<1>1. /\ start_service
      /\ restart_source' = "none"
      /\ UNCHANGED <<disposed, connected, subs, watching, dropped, inbox, owner, counted,
                    restart_disabled>>
  BY DEF restart_in_idle, restart_in_timeout, start_service_again_cb, bus
<1>2. /\ proxy_cancel'
      /\ (creating' = creating /\ proxy_cancel) \/ creating' > 0
      /\ proxy' => proxy
  BY <1>1 DEF start_service, TypeOK
<1>3. Heard' /\ GoodNewsHolds' /\ LossFollows'
  BY <1>1 DEF Heard, GoodNewsHolds, LossFollows, IsSignal, IsGood
<1>4. Subscribed'
  BY <1>1, <1>2 DEF Subscribed, IsSignal
<1>5. CreationIsPending' /\ NotBlocked' /\ ProxyIsComing' /\ NothingDropped'
  BY <1>1, <1>2 DEF CreationIsPending, NotBlocked, ProxyIsComing, NothingDropped
<1>6. QuiescentIsConnected'
  <2> SUFFICES ASSUME Quiescent'
               PROVE  FALSE
    BY DEF QuiescentIsConnected
  <2>1. creating' = 0 /\ inbox' = <<>>
    BY DEF Quiescent
  <2> QED
    BY <1>2, <1>5, <2>1 DEF CreationIsPending
<1>7. LossIsNoticed'
  BY <1>1 DEF LossIsNoticed
<1> QED
  BY <1>3, <1>4, <1>5, <1>6, <1>7

\* A good answer to Watch is true when it is sent, and there is a subscription.
LEMMA RepliesSentAlive ==
  ASSUME TypeOK, RestartSourceIsLive, Alive, ~disposed,
         ProxyCreated \/ WatchAnswered \/ DroppedEnds
  PROVE  Alive'
<1> USE BoundsAssumption DEF Alive, QueueInv, RestartInv
<1>1. ~DroppedEnds
  BY DEF DroppedEnds, NothingDropped
<1>2. PICK msg \in ProxyReplies \cup WatchReplies :
        /\ Reply(msg)
        /\ msg.result = "good" => owner = "good" /\ counted'
        /\ creating' = creating \/ msg.ev = "Proxy"
        /\ msg.ev = "Watch" => watching > 0
        /\ counted => counted'
        /\ watching' > 0 => watching > 0
        /\ UNCHANGED <<disposed, connected, proxy, proxy_cancel, dropped, subs, owner,
                       restart_source, idles, timers, restart_disabled>>
  <2>1. CASE ProxyCreated
    <3>1. PICK msg \in ProxyReplies : Reply(msg)
      BY <2>1, Zenon DEF ProxyCreated, ProxyReplies
    <3> QED
      BY <2>1, <3>1 DEF ProxyCreated, handles, restart, ProxyReplies
  <2>2. CASE WatchAnswered
    <3>1. PICK result \in {"error", "good", "bad"} :
            /\ Reply([ev |-> "Watch", result |-> result])
            /\ result = "good" => owner = "good" /\ counted'
            /\ counted => counted'
      BY <2>2 DEF WatchAnswered, TypeOK
    <3>2. [ev |-> "Watch", result |-> result] \in WatchReplies
      BY <3>1, Zenon DEF WatchReplies
    <3> QED
      BY <2>2, <3>1, <3>2 DEF WatchAnswered, handles, restart, TypeOK
  <2> QED
    BY <1>1, <2>1, <2>2
<1>3. msg.ev = "Watch" => subs > 0
  BY <1>2 DEF Subscribed
<1>4. /\ Heard' /\ GoodNewsHolds' /\ LossFollows' /\ CreationIsPending' /\ LossIsNoticed'
      /\ (\E i \in 1 .. Len(inbox') : (IsSignal(i) \/ inbox[i].ev = "Watch")') => subs' > 0
      /\ ~Quiescent'
  BY <1>2, <1>3, ReplyKeeps
<1>5. Subscribed'
  BY <1>2, <1>4 DEF Subscribed
<1>6. QuiescentIsConnected' /\ NotBlocked' /\ ProxyIsComing' /\ NothingDropped'
  BY <1>2, <1>4 DEF QuiescentIsConnected, NotBlocked, ProxyIsComing, NothingDropped
<1> QED
  BY <1>4, <1>5, <1>6

\* A subscription is told of every change of the owner.
LEMMA EnvironmentAlive ==
  ASSUME TypeOK, RestartSourceIsLive, Alive, ~disposed, Environment
  PROVE  Alive'
<1> USE BoundsAssumption DEF Alive, QueueInv, RestartInv
<1>1. PICK ev \in {"Lost", "Appeared"} : Tell(ev) /\ (owner' = "none" <=> ev = "Lost")
  BY DEF Environment, ServiceDies, ServiceAppears, ServiceReplaced
<1>2. /\ owner = "none" => owner' # "none"
      /\ UNCHANGED <<disposed, connected, proxy, proxy_cancel, creating, watching, dropped, subs,
                     restart_source, idles, timers, restart_disabled>>
  BY DEF Environment, ServiceDies, ServiceAppears, ServiceReplaced, handles, restart, pending
<1>3. QueueInv'
  BY <1>1, <1>2, TellKeeps
<1>4. Len(inbox) \in Nat /\ subs \in 0 .. MaxSubs
  BY DEF TypeOK
<1>5. \A i \in 1 .. Len(inbox) : i \in 1 .. Len(inbox') /\ inbox'[i] = inbox[i]
  BY <1>1, <1>4, TellFacts
<1>6. CreationIsPending' /\ NotBlocked' /\ ProxyIsComing' /\ NothingDropped'
  BY <1>2, <1>5 DEF CreationIsPending, NotBlocked, ProxyIsComing, NothingDropped
<1>7. LossIsNoticed'
  <2> SUFFICES ASSUME connected, owner' = "none"
               PROVE  \E k \in 1 .. Len(inbox') : inbox'[k].ev = "Lost"
    BY <1>2 DEF LossIsNoticed
  <2>1. ev = "Lost" /\ subs > 0
    BY <1>1 DEF Subscribed
  <2>2. Len(inbox) + 1 \in 1 .. Len(inbox') /\ inbox'[Len(inbox) + 1].ev = "Lost"
    BY <1>1, <1>4, <2>1, TellFacts
  <2> QED
    BY <2>2
<1>8. QuiescentIsConnected'
  <2> SUFFICES ASSUME Quiescent', ~restart_disabled
               PROVE  FALSE
    BY <1>2 DEF QuiescentIsConnected
  <2>1. creating = 0 /\ watching = 0 /\ idles = 0 /\ timers = 0 /\ inbox' = <<>>
    BY <1>2 DEF Quiescent
  <2>2. inbox = <<>>
    BY <1>4, <1>5, <2>1 DEF TypeOK
  <2>3. connected
    BY <2>1, <2>2 DEF QuiescentIsConnected, Quiescent
  <2>4. subs > 0
    BY <2>3 DEF Subscribed
  <2>5. Len(inbox') = Len(inbox) + 1
    BY <1>1, <2>4, TellFacts
  <2> QED
    BY <1>4, <2>1, <2>5
<1> QED
  BY <1>3, <1>6, <1>7, <1>8

-----------------------------------------------------------------------------
(* The theorems. *)

LEMMA InitInv ==
  Init => IInv
<1> SUFFICES ASSUME Init
             PROVE  IInv
  OBVIOUS
<1>1. TypeOK
  <2>1. inbox \in Seq(Messages) /\ 0 \in 0 .. MaxSubs /\ 0 \in 0 .. MaxFaults
    BY BoundsAssumption DEF Init
  <2>2. dropped \in [proxies : Nat, watches : Nat]
    BY DEF Init
  <2> QED
    BY <2>1, <2>2 DEF Init, TypeOK
<1>2. Len(inbox) = 0
  BY DEF Init
<1>3. QueueInv /\ RestartInv
  BY <1>2 DEF Init, QueueInv, Heard, Subscribed, GoodNewsHolds, LossFollows, RestartInv,
              CreationIsPending, ProxyIsComing, NotBlocked, NothingDropped
<1> QED
  BY <1>1, <1>3 DEF Init, IInv, RestartSourceIsLive, LossIsNoticed, QuiescentIsConnected, Quiescent

LEMMA NextInv ==
  IInv /\ [Next]_vars => IInv'
<1> SUFFICES ASSUME IInv, [Next]_vars
             PROVE  IInv'
  OBVIOUS
<1>1. TypeOK' /\ RestartSourceIsLive'
  BY TypeInductive DEF IInv, QueueInv
<1>2. ASSUME ~disposed'
      PROVE  Alive'
  <2>1. Alive /\ ~disposed /\ TypeOK /\ RestartSourceIsLive
    <3>1. ~disposed
      BY <1>2 DEF Next, Dispatch, Environment, service_proxy_cb_fails, service_proxy_cb_succeeds,
         watch_cb_fails, watch_cb_mismatch, watch_cb_connects, service_proxy_name_changed_lost,
         service_proxy_name_changed_appeared, signal_unheard, restart_in_idle, restart_in_timeout,
         start_service_again_cb, indicator_service_manager_dispose, ProxyCreated, WatchAnswered,
         DroppedEnds, ServiceDies, ServiceAppears, ServiceReplaced, vars
    <3> QED
      BY <3>1 DEF Alive, IInv
  <2>2. CASE \/ service_proxy_cb_fails \/ service_proxy_cb_succeeds
             \/ watch_cb_fails \/ watch_cb_mismatch \/ watch_cb_connects
    BY <2>1, <2>2, RepliesAlive
  <2>3. CASE \/ service_proxy_name_changed_lost \/ service_proxy_name_changed_appeared
             \/ signal_unheard
    BY <2>1, <2>3, SignalsAlive
  <2>4. CASE restart_in_idle \/ restart_in_timeout
    BY <2>1, <2>4, RestartsAlive
  <2>5. CASE ProxyCreated \/ WatchAnswered \/ DroppedEnds
    BY <2>1, <2>5, RepliesSentAlive
  <2>6. CASE Environment
    BY <2>1, <2>6, EnvironmentAlive
  <2>7. CASE indicator_service_manager_dispose
    BY <1>2, <2>7 DEF indicator_service_manager_dispose
  <2>8. CASE UNCHANGED vars
    BY <2>1, <2>8 DEF vars, handles, restart, pending, bus, Alive, QueueInv, RestartInv, Heard,
       Subscribed, GoodNewsHolds, LossFollows, IsSignal, IsGood, CreationIsPending, ProxyIsComing,
       NotBlocked, NothingDropped, LossIsNoticed, QuiescentIsConnected, Quiescent
  <2> QED
    BY <2>2, <2>3, <2>4, <2>5, <2>6, <2>7, <2>8 DEF Next, Dispatch
<1>3. CASE disposed'
  BY <1>1, <1>3 DEF IInv, LossIsNoticed, QuiescentIsConnected
<1>4. CASE ~disposed'
  BY <1>1, <1>2, <1>4 DEF IInv, Alive
<1> QED
  BY <1>3, <1>4

LEMMA Invariance == Spec => []IInv
<1>1. Init => IInv
  BY InitInv
<1>2. IInv /\ [Next]_vars => IInv'
  BY NextInv
<1> QED
  BY <1>1, <1>2, PTL DEF Spec

\* Every variable of the manager stays in its type, so that no step takes down a
\* source or a subscription that is not there.
THEOREM TypeCorrect == Spec => []TypeOK
<1>1. IInv => TypeOK
  BY DEF IInv
<1> QED
  BY <1>1, Invariance, PTL

\* A manager that waits for nothing is connected to a service of the right version
\* which knows it, whatever calls failed and however often the service was replaced.
THEOREM NeverGivesUp == Spec => []QuiescentIsConnected
<1>1. IInv => QuiescentIsConnected
  BY DEF IInv
<1> QED
  BY <1>1, Invariance, PTL

\* A manager that says it is connected is about to hear of it when the name has no
\* owner any more.
THEOREM NeverFooled == Spec => []LossIsNoticed
<1>1. IInv => LossIsNoticed
  BY DEF IInv
<1> QED
  BY <1>1, Invariance, PTL

\* restart_source names a timer only while there is one, so no restart is refused
\* for a source that is gone.
THEOREM RestartSourceSound == Spec => []RestartSourceIsLive
<1>1. IInv => RestartSourceIsLive
  BY DEF IInv
<1> QED
  BY <1>1, Invariance, PTL
=============================================================================
