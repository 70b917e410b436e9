----------------------------- MODULE EventLocks -----------------------------
(***************************************************************************)
(* How the event system nests its mutexes: the BroadcasterManager's        *)
(* m_manager_mutex, each broadcaster's m_listeners_mutex, each listener's  *)
(* m_broadcasters_mutex and m_events_mutex.                                *)
(*                                                                         *)
(* An operation is what it does to mutexes: the outer ones it takes, in    *)
(* order, and the chains it takes and lets go of again, one after the      *)
(* other, while it holds them.  Every listener is subscribed to every      *)
(* broadcaster and known to the manager, so every loop visits all of them. *)
(* Mutexes are recursive, except m_events_mutex which no operation takes   *)
(* twice: taking one again that the thread holds never blocks and is left  *)
(* out.                                                                    *)
(***************************************************************************)
EXTENDS Integers, Sequences, FiniteSets, Functions

CONSTANTS Threads, Listeners, Broadcasters

VARIABLES
  operation,  \* the one each thread is in, or "none"
  held,       \* the mutexes each thread holds
  outer,      \* those it holds until the call returns
  want,       \* the mutexes it still has to take, in order
  todo        \* the chains it has not come to yet

vars == <<operation, held, outer, want, todo>>

---------------------------------------------------------------------------
m_manager_mutex == <<"manager", "the">>
m_listeners_mutex(b) == <<"listeners", b>>
m_broadcasters_mutex(l) == <<"broadcasters", l>>
m_events_mutex(l) == <<"events", l>>

Program(op, first, chains) == [op |-> op, first |-> first, chains |-> chains]

(* Two critical sections, one after the other; also StopListeningForEvents. *)
StartListeningForEvents(l, b) ==
  Program("StartListeningForEvents", <<>>,
          {<<m_broadcasters_mutex(l)>>, <<m_listeners_mutex(b)>>})

StartListeningForEventSpec(l) ==
  Program("StartListeningForEventSpec",
          <<m_manager_mutex, m_broadcasters_mutex(l)>>, {})

StopListeningForEventSpec(l) ==
  Program("StopListeningForEventSpec",
          <<m_broadcasters_mutex(l), m_manager_mutex>>, {})

(* StartListeningForEvents for each listener of the class.                  *)
SignUpListenersForBroadcaster(b) ==
  Program("SignUpListenersForBroadcaster", <<m_manager_mutex>>,
          {<<m_broadcasters_mutex(l)>> : l \in Listeners}
            \union {<<m_listeners_mutex(b)>>})

(* PeekAtNextEventForBroadcasterWithType and AddEvent for each listener.    *)
PrivateBroadcastEvent(b) ==
  Program("PrivateBroadcastEvent", <<m_listeners_mutex(b)>>,
          {<<m_events_mutex(l)>> : l \in Listeners})

(* BroadcasterWillDestruct for each listener.                               *)
BroadcasterClear(b) ==
  Program("BroadcasterClear", <<m_listeners_mutex(b)>>,
          {<<m_broadcasters_mutex(l)>> : l \in Listeners}
            \union {<<m_events_mutex(l)>> : l \in Listeners})

GetEventInternal(l) == Program("GetEventInternal", <<m_events_mutex(l)>>, {})

(* RemoveListener for each broadcaster, then, with the queue locked, the    *)
(* manager's RemoveListener.                                                *)
ListenerClear(l) ==
  Program("ListenerClear", <<m_broadcasters_mutex(l)>>,
          {<<m_listeners_mutex(b)>> : b \in Broadcasters}
            \union {<<m_events_mutex(l), m_manager_mutex>>})

(* Operations of one mutex that calls nothing (HijackBroadcaster, Clear of  *)
(* the manager, HandleBroadcastEvent) are prefixes of these.                *)
Programs ==
  {StartListeningForEvents(l, b) : l \in Listeners, b \in Broadcasters}
    \union {StartListeningForEventSpec(l) : l \in Listeners}
    \union {StopListeningForEventSpec(l) : l \in Listeners}
    \union {SignUpListenersForBroadcaster(b) : b \in Broadcasters}
    \union {PrivateBroadcastEvent(b) : b \in Broadcasters}
    \union {BroadcasterClear(b) : b \in Broadcasters}
    \union {GetEventInternal(l) : l \in Listeners}
    \union {ListenerClear(l) : l \in Listeners}

---------------------------------------------------------------------------
Init ==
  /\ operation = [t \in Threads |-> "none"]
  /\ held = [t \in Threads |-> {}]
  /\ outer = [t \in Threads |-> {}]
  /\ want = [t \in Threads |-> <<>>]
  /\ todo = [t \in Threads |-> {}]

Call(t, p) ==
  /\ operation[t] = "none"
  /\ operation' = [operation EXCEPT ![t] = p.op]
  /\ outer' = [outer EXCEPT ![t] = Range(p.first)]
  /\ want' = [want EXCEPT ![t] = p.first]
  /\ todo' = [todo EXCEPT ![t] = p.chains]
  /\ UNCHANGED held

Acquire(t) ==
  /\ want[t] # <<>>
  /\ \A u \in Threads : Head(want[t]) \notin held[u]
  /\ held' = [held EXCEPT ![t] = @ \union {Head(want[t])}]
  /\ want' = [want EXCEPT ![t] = Tail(@)]
  /\ UNCHANGED <<operation, outer, todo>>

(* Only the outer mutexes are held: go on to another chain...               *)
NextChain(t) ==
  /\ operation[t] # "none" /\ want[t] = <<>> /\ held[t] = outer[t]
  /\ \E c \in todo[t] : /\ want' = [want EXCEPT ![t] = c]
                        /\ todo' = [todo EXCEPT ![t] = @ \ {c}]
  /\ UNCHANGED <<operation, held, outer>>

(* ...let go of its mutexes...                                              *)
ReleaseChain(t) ==
  /\ want[t] = <<>> /\ held[t] # outer[t]
  /\ held' = [held EXCEPT ![t] = outer[t]]
  /\ UNCHANGED <<operation, outer, want, todo>>

(* ...and, after the last, of the outer ones.                               *)
Return(t) ==
  /\ operation[t] # "none" /\ want[t] = <<>> /\ held[t] = outer[t] /\ todo[t] = {}
  /\ operation' = [operation EXCEPT ![t] = "none"]
  /\ held' = [held EXCEPT ![t] = {}]
  /\ outer' = [outer EXCEPT ![t] = {}]
  /\ UNCHANGED <<want, todo>>

Next == \E t \in Threads : \/ \E p \in Programs : Call(t, p)
                           \/ Acquire(t) \/ NextChain(t) \/ ReleaseChain(t)
                           \/ Return(t)

Spec == Init /\ [][Next]_vars

---------------------------------------------------------------------------
(* Properties *)

(* The operations that take a listener's mutex and then, while they hold    *)
(* it, the manager's or a broadcaster's.  All others keep to one order:     *)
(* manager, broadcaster, listener.                                          *)
Reversing == {"StopListeningForEventSpec", "ListenerClear"}

(* t waits for a mutex that u holds.                                        *)
Waits(t, u) == want[t] # <<>> /\ Head(want[t]) \in held[u]

(* The threads wait for each other, around a cycle of any length.           *)
Deadlocked(S) == S # {} /\ \A t \in S : \E u \in S : Waits(t, u)

(* What the hierarchy of Listener.cpp:435-436 is for: no threads wait for   *)
(* each other, whichever operations of Broadcaster.cpp and Listener.cpp     *)
(* they are in.                                                             *)
NoDeadlock == \A S \in SUBSET Threads : ~Deadlocked(S)

(* Where threads wait for each other, one of them is in                     *)
(* StopListeningForEventSpec (Listener.cpp:462-465) or in Listener::Clear   *)
(* (lines 62-79): these two are all that is wrong with the order.           *)
DeadlocksReverse ==
  \A S \in SUBSET Threads : Deadlocked(S) => \E t \in S : operation[t] \in Reversing
=============================================================================
