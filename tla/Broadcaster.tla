---------------------------- MODULE Broadcaster ----------------------------
(***************************************************************************)
(* The event system: source/Core/Broadcaster.cpp, Listener.cpp, Event.cpp. *)
(*                                                                         *)
(* Broadcasters hand events to the queues of the listeners that subscribed *)
(* to them, or to the listener on top of their stack of hijackers.         *)
(* Threads wait on a listener's queue for an event that matches a filter.  *)
(*                                                                         *)
(* A broadcast holds its broadcaster's m_listeners_mutex from the moment   *)
(* it picks the listeners until the last of them has the event, and takes  *)
(* each listener's m_events_mutex only around the look (unique events) and *)
(* the insertion: these are separate steps here.  Starting and stopping to *)
(* listen is two critical sections, the listener's and the broadcaster's.  *)
(* The order in which mutexes nest is the subject of EventLocks, and       *)
(* subscriptions by broadcaster class that of BroadcasterManager.          *)
(*                                                                         *)
(* Threads appear as records: a broadcast, a subscription change or a wait *)
(* in progress, with the thread that is in it.                             *)
(***************************************************************************)
EXTENDS Integers, Sequences, FiniteSets

CONSTANTS
  Broadcasters, Listeners, Threads,
  Bits,              \* event bits; an event has one, a mask is a set of them
  AnyBroadcaster,    \* a wait for events of any broadcaster
  MaxEvents,         \* bound: events broadcast
  MaxChanges,        \* bound: subscription changes, hijacks and destructions
  MaxWaits           \* bound: calls of GetEvent

ASSUME NamesAssumption == AnyBroadcaster \notin Broadcasters

ASSUME LimitsAssumption ==
  MaxEvents \in Nat /\ MaxChanges \in Nat /\ MaxWaits \in Nat

VARIABLES
  m_listeners,           \* BroadcasterImpl::m_listeners, in order
  m_hijacking_listeners, \* BroadcasterImpl::m_hijacking_listeners
  m_hijacking_masks,     \* BroadcasterImpl::m_hijacking_masks
  m_broadcasters,        \* Listener::m_broadcasters: pairs <<broadcaster, mask>>
  m_events,              \* Listener::m_events
  bAlive, lAlive,        \* broadcasters and listeners not destroyed yet
  sending,               \* broadcasts in progress
  pending,               \* second halves of subscription changes
  waiting,               \* calls of GetEventInternal in progress
  sent, changes, waits   \* counters for the bounds

subscriptionVars == <<m_listeners, m_hijacking_listeners, m_hijacking_masks,
                      m_broadcasters, bAlive, lAlive>>
vars == <<subscriptionVars, m_events, sending, pending, waiting, sent, changes,
          waits>>

---------------------------------------------------------------------------
Masks == SUBSET Bits
Subscription == [listener : Listeners, mask : Masks]
Event == [id : Nat, broadcaster : Broadcasters, type : Bits, unique : BOOLEAN]
Sending == [thread : Threads, event : Event, todo : Seq(Listeners),
            peeked : BOOLEAN]
Change == [thread : Threads, op : {"add", "remove"}, listener : Listeners,
           broadcaster : Broadcasters, mask : Masks]
Wait == [thread : Threads, listener : Listeners,
         broadcaster : Broadcasters \union {AnyBroadcaster}, mask : Masks,
         timed : BOOLEAN, at : {"look", "asleep", "woken"}]

TypeOK ==
  /\ m_listeners \in [Broadcasters -> Seq(Subscription)]
  /\ m_hijacking_listeners \in [Broadcasters -> Seq(Listeners)]
  /\ m_hijacking_masks \in [Broadcasters -> Seq(Masks)]
  /\ \A b \in Broadcasters :
       Len(m_hijacking_masks[b]) = Len(m_hijacking_listeners[b])
  /\ m_broadcasters \in [Listeners -> SUBSET (Broadcasters \X Masks)]
  /\ m_events \in [Listeners -> Seq(Event)]
  /\ bAlive \subseteq Broadcasters
  /\ lAlive \subseteq Listeners
  /\ sending \subseteq Sending
  /\ pending \subseteq Change
  /\ waiting \subseteq Wait
  /\ sent \in Nat /\ changes \in Nat /\ waits \in Nat

Init ==
  /\ m_listeners = [b \in Broadcasters |-> <<>>]
  /\ m_hijacking_listeners = [b \in Broadcasters |-> <<>>]
  /\ m_hijacking_masks = [b \in Broadcasters |-> <<>>]
  /\ m_broadcasters = [l \in Listeners |-> {}]
  /\ m_events = [l \in Listeners |-> <<>>]
  /\ bAlive = Broadcasters
  /\ lAlive = Listeners
  /\ sending = {}
  /\ pending = {}
  /\ waiting = {}
  /\ sent = 0 /\ changes = 0 /\ waits = 0

---------------------------------------------------------------------------
Idle(t) == \A r \in sending \union pending \union waiting : r.thread # t

(* m_listeners_mutex of b is held across steps only by a broadcast.         *)
MutexFree(b) == \A r \in sending : r.event.broadcaster # b

(* The loops that erase from a collection: the members at the positions in  *)
(* I stay, in their order.                                                  *)
Keep(q, I) ==
  LET kept[i \in 0..Len(q)] ==
        IF i = 0 THEN <<>>
        ELSE IF i \in I THEN Append(kept[i - 1], q[i]) ELSE kept[i - 1]
  IN  kept[Len(q)]

(* GetListeners drops subscriptions without bits and of dead listeners.     *)
GetListeners(b) ==
  LET s == m_listeners[b]
  IN  Keep(s, {i \in 1..Len(s) : s[i].listener \in lAlive /\ s[i].mask # {}})

(* The subscriptions that an event of this type is for.                     *)
Wants(b, bit) ==
  LET s == GetListeners(b) IN Keep(s, {i \in 1..Len(s) : bit \in s[i].mask})

Top(stack) == stack[Len(stack)]

Hijacked(b, bit) ==
  /\ m_hijacking_listeners[b] # <<>>
  /\ bit \in Top(m_hijacking_masks[b])

Front1(stack) == SubSeq(stack, 1, Len(stack) - 1)

---------------------------------------------------------------------------
(* PrivateBroadcastEvent                                                    *)

(* Mutant: the listeners are picked and served without m_listeners_mutex.   *)
Broadcast_Unlocked(t, b, bit, unique) ==
  /\ Idle(t) /\ b \in bAlive
  /\ sent < MaxEvents
  /\ sent' = sent + 1
  /\ LET e == [id |-> sent, broadcaster |-> b, type |-> bit, unique |-> unique]
         todo == IF Hijacked(b, bit) THEN <<Top(m_hijacking_listeners[b])>>
                 ELSE [i \in 1..Len(Wants(b, bit)) |-> Wants(b, bit)[i].listener]
     IN  sending' = sending \union
           {[thread |-> t, event |-> e, todo |-> todo, peeked |-> FALSE]}
  /\ UNCHANGED <<subscriptionVars, m_events, pending, waiting, changes, waits>>

(* Lock the broadcaster and pick the listeners: the top hijacker if it      *)
(* wants this bit, otherwise every subscriber of the bit.                   *)
Broadcast(t, b, bit, unique) ==
  /\ Idle(t) /\ b \in bAlive /\ MutexFree(b)
  /\ sent < MaxEvents
  /\ sent' = sent + 1
  /\ LET e == [id |-> sent, broadcaster |-> b, type |-> bit, unique |-> unique]
         todo == IF Hijacked(b, bit) THEN <<Top(m_hijacking_listeners[b])>>
                 ELSE [i \in 1..Len(Wants(b, bit)) |-> Wants(b, bit)[i].listener]
     IN  sending' = sending \union
           {[thread |-> t, event |-> e, todo |-> todo, peeked |-> FALSE]}
  /\ m_listeners' = [m_listeners EXCEPT ![b] =
                       IF Hijacked(b, bit) THEN @ ELSE GetListeners(b)]
  /\ UNCHANGED <<m_hijacking_listeners, m_hijacking_masks, m_broadcasters,
                 bAlive, lAlive, m_events, pending, waiting, changes, waits>>

(* Is an event of this broadcaster and type queued at l?                    *)
PeekAtNextEventForBroadcasterWithType(l, b, bit) ==
  \E i \in 1..Len(m_events[l]) :
    m_events[l][i].broadcaster = b /\ m_events[l][i].type = bit

(* Mutant: only the oldest queued event is looked at.                       *)
PeekUnique_OldestOnly(r) ==
  /\ r.todo # <<>> /\ r.event.unique /\ ~r.peeked
  /\ LET q == m_events[Head(r.todo)]
     IN  sending' = (sending \ {r}) \union
           {IF q # <<>> /\ q[1].broadcaster = r.event.broadcaster
                        /\ q[1].type = r.event.type
              THEN [r EXCEPT !.todo = Tail(@)]
              ELSE [r EXCEPT !.peeked = TRUE]}
  /\ UNCHANGED <<subscriptionVars, m_events, pending, waiting, sent, changes,
                 waits>>

(* A unique event is not queued again.                                      *)
PeekUnique(r) ==
  /\ r.todo # <<>> /\ r.event.unique /\ ~r.peeked
  /\ sending' = (sending \ {r}) \union
       {IF PeekAtNextEventForBroadcasterWithType(
              Head(r.todo), r.event.broadcaster, r.event.type)
          THEN [r EXCEPT !.todo = Tail(@)]
          ELSE [r EXCEPT !.peeked = TRUE]}
  /\ UNCHANGED <<subscriptionVars, m_events, pending, waiting, sent, changes,
                 waits>>

Asleep(w, l) == w.listener = l /\ w.at = "asleep"
Woken(w, l) == IF Asleep(w, l) THEN [w EXCEPT !.at = "woken"] ELSE w

(* Mutant: notify_one instead of notify_all.                                *)
AddEvent_NotifyOne(r) ==
  /\ r.todo # <<>> /\ (r.event.unique => r.peeked)
  /\ LET l == Head(r.todo)
     IN  /\ m_events' = [m_events EXCEPT ![l] = Append(@, r.event)]
         /\ IF \E w \in waiting : Asleep(w, l)
              THEN \E w \in waiting :
                     /\ Asleep(w, l)
                     /\ waiting' = (waiting \ {w}) \union {Woken(w, l)}
              ELSE UNCHANGED waiting
  /\ sending' = (sending \ {r}) \union
                  {[r EXCEPT !.todo = Tail(@), !.peeked = FALSE]}
  /\ UNCHANGED <<subscriptionVars, pending, sent, changes, waits>>

(* Listener::AddEvent: queue the event and wake everybody who waits.        *)
AddEvent(r) ==
  /\ r.todo # <<>> /\ (r.event.unique => r.peeked)
  /\ LET l == Head(r.todo)
     IN  /\ m_events' = [m_events EXCEPT ![l] = Append(@, r.event)]
         /\ waiting' = {Woken(w, l) : w \in waiting}
  /\ sending' = (sending \ {r}) \union
                  {[r EXCEPT !.todo = Tail(@), !.peeked = FALSE]}
  /\ UNCHANGED <<subscriptionVars, pending, sent, changes, waits>>

(* The last listener is served: m_listeners_mutex is released.              *)
BroadcastDone(r) ==
  /\ r.todo = <<>>
  /\ sending' = sending \ {r}
  /\ UNCHANGED <<subscriptionVars, m_events, pending, waiting, sent, changes,
                 waits>>

---------------------------------------------------------------------------
(* Subscriptions                                                            *)

Changing == changes < MaxChanges /\ changes' = changes + 1

(* Start- and StopListeningForEvents change the listener's own record       *)
(* first: starting adds an entry, stopping erases all entries of the        *)
(* broadcaster whatever the mask.                                           *)
StartListeningForEvents(t, l, b, mask) ==
  /\ Idle(t) /\ l \in lAlive /\ b \in bAlive /\ Changing
  /\ m_broadcasters' = [m_broadcasters EXCEPT ![l] = @ \union {<<b, mask>>}]
  /\ pending' = pending \union {[thread |-> t, op |-> "add", listener |-> l,
                                 broadcaster |-> b, mask |-> mask]}
  /\ UNCHANGED <<m_listeners, m_hijacking_listeners, m_hijacking_masks, bAlive,
                 lAlive, m_events, sending, waiting, sent, waits>>

Entries(l, b) == {p \in m_broadcasters[l] : p[1] = b}

StopListeningForEvents(t, l, b, mask) ==
  /\ Idle(t) /\ l \in lAlive /\ b \in bAlive /\ Changing
  /\ m_broadcasters' = [m_broadcasters EXCEPT ![l] = @ \ Entries(l, b)]
  /\ pending' = pending \union {[thread |-> t, op |-> "remove", listener |-> l,
                                 broadcaster |-> b, mask |-> mask]}
  /\ UNCHANGED <<m_listeners, m_hijacking_listeners, m_hijacking_masks, bAlive,
                 lAlive, m_events, sending, waiting, sent, waits>>

(* ...and then, under m_listeners_mutex, the broadcaster's.                 *)
AddTo(list, l, mask) ==
  IF \E i \in 1..Len(list) : list[i].listener = l
    THEN [i \in 1..Len(list) |->
            IF list[i].listener = l
              THEN [list[i] EXCEPT !.mask = @ \union mask] ELSE list[i]]
    ELSE Append(list, [listener |-> l, mask |-> mask])

AddListener(c) ==
  /\ c.op = "add" /\ MutexFree(c.broadcaster)
  /\ m_listeners' = [m_listeners EXCEPT ![c.broadcaster] =
                       AddTo(GetListeners(c.broadcaster), c.listener, c.mask)]
  /\ pending' = pending \ {c}
  /\ UNCHANGED <<m_hijacking_listeners, m_hijacking_masks, m_broadcasters,
                 bAlive, lAlive, m_events, sending, waiting, sent, changes,
                 waits>>

RemoveFrom(list, l, mask) ==
  [i \in 1..Len(list) |->
     IF list[i].listener = l THEN [list[i] EXCEPT !.mask = @ \ mask]
                             ELSE list[i]]

(* Mutant: RemoveListener does not wait for a broadcast in progress.        *)
RemoveListener_Unlocked(c) ==
  /\ c.op = "remove"
  /\ m_listeners' = [m_listeners EXCEPT ![c.broadcaster] =
                       RemoveFrom(GetListeners(c.broadcaster), c.listener, c.mask)]
  /\ pending' = pending \ {c}
  /\ UNCHANGED <<m_hijacking_listeners, m_hijacking_masks, m_broadcasters,
                 bAlive, lAlive, m_events, sending, waiting, sent, changes,
                 waits>>

RemoveListener(c) ==
  /\ c.op = "remove" /\ MutexFree(c.broadcaster)
  /\ m_listeners' = [m_listeners EXCEPT ![c.broadcaster] =
                       RemoveFrom(GetListeners(c.broadcaster), c.listener, c.mask)]
  /\ pending' = pending \ {c}
  /\ UNCHANGED <<m_hijacking_listeners, m_hijacking_masks, m_broadcasters,
                 bAlive, lAlive, m_events, sending, waiting, sent, changes,
                 waits>>

HijackBroadcaster(b, l, mask) ==
  /\ b \in bAlive /\ l \in lAlive /\ MutexFree(b) /\ Changing
  /\ m_hijacking_listeners' = [m_hijacking_listeners EXCEPT ![b] = Append(@, l)]
  /\ m_hijacking_masks' = [m_hijacking_masks EXCEPT ![b] = Append(@, mask)]
  /\ UNCHANGED <<m_listeners, m_broadcasters, bAlive, lAlive, m_events, sending,
                 pending, waiting, sent, waits>>

(* Mutant: the mask of the restored hijacker is left behind.                *)
RestoreBroadcaster_KeepMask(b) ==
  /\ b \in bAlive /\ MutexFree(b) /\ Changing
  /\ m_hijacking_listeners[b] # <<>>
  /\ m_hijacking_listeners' =
       [m_hijacking_listeners EXCEPT ![b] = Front1(@)]
  /\ UNCHANGED <<m_hijacking_masks, m_listeners, m_broadcasters, bAlive, lAlive,
                 m_events, sending, pending, waiting, sent, waits>>

(* Whoever hijacked last is popped; on an empty stack nothing happens.      *)
RestoreBroadcaster(b) ==
  /\ b \in bAlive /\ MutexFree(b) /\ Changing
  /\ m_hijacking_listeners[b] # <<>>
  /\ m_hijacking_listeners' =
       [m_hijacking_listeners EXCEPT ![b] = Front1(@)]
  /\ m_hijacking_masks' = [m_hijacking_masks EXCEPT ![b] = Front1(@)]
  /\ UNCHANGED <<m_listeners, m_broadcasters, bAlive, lAlive, m_events, sending,
                 pending, waiting, sent, waits>>

(* Listener::Clear: every broadcaster the listener still knows drops it,    *)
(* then the queue is emptied.                                               *)
ClearListener(l) ==
  LET known == {b \in bAlive : Entries(l, b) # {}}
      mask(b) == UNION {p[2] : p \in Entries(l, b)}
  IN  /\ \A b \in known : MutexFree(b)
      /\ m_listeners' = [b \in Broadcasters |->
           IF b \in known THEN RemoveFrom(GetListeners(b), l, mask(b))
                          ELSE m_listeners[b]]
      /\ m_broadcasters' = [m_broadcasters EXCEPT ![l] = {}]
      /\ m_events' = [m_events EXCEPT ![l] = <<>>]

Clear(l) ==
  /\ l \in lAlive /\ Changing
  /\ ClearListener(l)
  /\ UNCHANGED <<m_hijacking_listeners, m_hijacking_masks, bAlive, lAlive,
                 sending, pending, waiting, sent, waits>>

(* The last reference to a listener goes away.  Hijack stacks, broadcasts   *)
(* in progress and calls in progress keep one.                              *)
DestroyListener(l) ==
  /\ l \in lAlive /\ Changing
  /\ \A b \in bAlive, i \in 1..MaxChanges :
       i \in DOMAIN m_hijacking_listeners[b] => m_hijacking_listeners[b][i] # l
  /\ \A r \in sending : ~\E i \in 1..Len(r.todo) : r.todo[i] = l
  /\ \A r \in pending \union waiting : r.listener # l
  /\ ClearListener(l)
  /\ lAlive' = lAlive \ {l}
  /\ UNCHANGED <<m_hijacking_listeners, m_hijacking_masks, bAlive, sending,
                 pending, waiting, sent, waits>>

(* ~Broadcaster: every current subscriber forgets the broadcaster and drops *)
(* its queued events (BroadcasterWillDestruct).                             *)
DestroyBroadcaster(b) ==
  LET subscribers == {GetListeners(b)[i].listener : i \in 1..Len(GetListeners(b))}
  IN  /\ b \in bAlive /\ MutexFree(b) /\ Changing
      /\ \A r \in pending \union waiting : r.broadcaster # b
      /\ m_broadcasters' = [l \in Listeners |->
           IF l \in subscribers THEN m_broadcasters[l] \ Entries(l, b)
                                ELSE m_broadcasters[l]]
      /\ m_events' = [l \in Listeners |->
           IF l \in subscribers
             THEN Keep(m_events[l],
                       {i \in 1..Len(m_events[l]) : m_events[l][i].broadcaster # b})
             ELSE m_events[l]]
      /\ m_listeners' = [m_listeners EXCEPT ![b] = <<>>]
      /\ m_hijacking_listeners' = [m_hijacking_listeners EXCEPT ![b] = <<>>]
      /\ m_hijacking_masks' = [m_hijacking_masks EXCEPT ![b] = <<>>]
      /\ bAlive' = bAlive \ {b}
      /\ UNCHANGED <<lAlive, sending, pending, waiting, sent, waits>>

---------------------------------------------------------------------------
(* GetEventInternal                                                         *)

EventMatcher(w, e) ==
  /\ w.broadcaster # AnyBroadcaster =>
       e.broadcaster = w.broadcaster /\ e.broadcaster \in bAlive
  /\ w.mask # {} => e.type \in w.mask

MatchesAt(w) ==
  {i \in 1..Len(m_events[w.listener]) :
     EventMatcher(w, m_events[w.listener][i])}

GetEvent(t, l, b, mask, timed) ==
  /\ Idle(t) /\ l \in lAlive /\ b \in bAlive \union {AnyBroadcaster}
  /\ waits < MaxWaits
  /\ waits' = waits + 1
  /\ waiting' = waiting \union
       {[thread |-> t, listener |-> l, broadcaster |-> b, mask |-> mask,
         timed |-> timed, at |-> "look"]}
  /\ UNCHANGED <<subscriptionVars, m_events, sending, pending, sent, changes>>

RemoveAt(q, i) == [j \in 1..(Len(q) - 1) |-> IF j < i THEN q[j] ELSE q[j + 1]]

(* The oldest matching event is removed and returned...                     *)
FindNextEvent(w) ==
  /\ w.at # "asleep"
  /\ \E i \in MatchesAt(w) :
       /\ \A j \in MatchesAt(w) : i <= j
       /\ m_events' = [m_events EXCEPT ![w.listener] = RemoveAt(@, i)]
  /\ waiting' = waiting \ {w}
  /\ UNCHANGED <<subscriptionVars, sending, pending, sent, changes, waits>>

(* ...or the thread sleeps until the next notify_all...                     *)
WaitForEvent(w) ==
  /\ w.at # "asleep"
  /\ MatchesAt(w) = {}
  /\ waiting' = (waiting \ {w}) \union {[w EXCEPT !.at = "asleep"]}
  /\ UNCHANGED <<subscriptionVars, m_events, sending, pending, sent, changes,
                 waits>>

(* ...and a wait_for whose time has passed gives up without another look,   *)
(* even if a notification woke it first.                                    *)
WaitTimedOut(w) ==
  /\ w.timed /\ w.at # "look"
  /\ waiting' = waiting \ {w}
  /\ UNCHANGED <<subscriptionVars, m_events, sending, pending, sent, changes,
                 waits>>

---------------------------------------------------------------------------
Send ==
  \/ \E t \in Threads, b \in Broadcasters, bit \in Bits, u \in BOOLEAN :
       Broadcast(t, b, bit, u)
  \/ \E r \in sending : PeekUnique(r) \/ AddEvent(r) \/ BroadcastDone(r)

Subscribe ==
  \/ \E t \in Threads, l \in Listeners, b \in Broadcasters, m \in Masks \ {{}} :
       StartListeningForEvents(t, l, b, m) \/ StopListeningForEvents(t, l, b, m)
  \/ \E c \in pending : AddListener(c) \/ RemoveListener(c)
  \/ \E b \in Broadcasters, l \in Listeners, m \in Masks \ {{}} :
       HijackBroadcaster(b, l, m)
  \/ \E b \in Broadcasters : RestoreBroadcaster(b) \/ DestroyBroadcaster(b)
  \/ \E l \in Listeners : Clear(l) \/ DestroyListener(l)

Receive ==
  \/ \E t \in Threads, l \in Listeners, b \in Broadcasters \union {AnyBroadcaster},
        m \in Masks, timed \in BOOLEAN : GetEvent(t, l, b, m, timed)
  \/ \E w \in waiting : FindNextEvent(w) \/ WaitForEvent(w) \/ WaitTimedOut(w)

Next == Send \/ Subscribe \/ Receive

Spec == Init /\ [][Next]_vars

---------------------------------------------------------------------------
(* Properties *)

(* Two events of one broadcaster that are queued at two listeners are       *)
(* queued in the same order at both, however many threads broadcast at      *)
(* once: PrivateBroadcastEvent (lines 194-245) keeps m_listeners_mutex      *)
(* until the last listener has the event.                                   *)
SameOrder ==
  \A l, k \in Listeners :
    \A i, j \in 1..Len(m_events[l]) : \A p, q \in 1..Len(m_events[k]) :
      /\ i < j /\ p < q
      /\ m_events[l][i].broadcaster = m_events[l][j].broadcaster
      => ~ (m_events[l][i] = m_events[k][q] /\ m_events[l][j] = m_events[k][p])

(* BroadcastEventIfUnique (lines 190-192, 227-242) never queues an event    *)
(* behind one of the same broadcaster and type, although the look and the   *)
(* insertion are two critical sections and other threads broadcast.         *)
UniqueOnce ==
  \A l \in Listeners : \A i, j \in 1..Len(m_events[l]) :
    /\ i < j
    /\ m_events[l][i].broadcaster = m_events[l][j].broadcaster
    /\ m_events[l][i].type = m_events[l][j].type
    => ~m_events[l][j].unique

(* Subscribes(b, l, bit): l gets b's events of this type.                   *)
Subscribes(b, l, bit) ==
  IF Hijacked(b, bit)
    THEN l = Top(m_hijacking_listeners[b])
    ELSE \E i \in 1..Len(m_listeners[b]) :
           m_listeners[b][i].listener = l /\ bit \in m_listeners[b][i].mask

(* An event is only queued at a listener that is subscribed to it at that   *)
(* very moment: once StopListeningForEvents or HijackBroadcaster returns,   *)
(* no broadcast that started earlier still delivers.                        *)
DeliverySubscribed ==
  [][\A l \in Listeners :
       Len(m_events'[l]) > Len(m_events[l])
         => LET e == m_events'[l][Len(m_events'[l])]
            IN  Subscribes(e.broadcaster, l, e.type)]_vars

(* No wakeup is lost: a thread asleep in GetEventInternal (lines 356-384)   *)
(* has no event in its listener's queue that it asked for.                  *)
NoLostWakeup == \A w \in waiting : w.at = "asleep" => MatchesAt(w) = {}
============================================================================
