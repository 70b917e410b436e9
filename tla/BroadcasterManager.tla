------------------------- MODULE BroadcasterManager -------------------------
(***************************************************************************)
(* Subscriptions by broadcaster class: BroadcasterManager in               *)
(* source/Core/Broadcaster.cpp and Start/StopListeningForEventSpec in      *)
(* Listener.cpp.                                                           *)
(*                                                                         *)
(* The debugger's one manager maps specs (a class and some of its bits) to *)
(* the listener that acquired them, and signs the listeners up with every  *)
(* broadcaster of the class that checks in.  m_manager_mutex is held       *)
(* during each operation, so each is one step (EventLocks looks at how the *)
(* mutex is acquired).                                                     *)
(***************************************************************************)
EXTENDS Integers, FiniteSets

CONSTANTS
  Classes, Bits, Listeners, Broadcasters,
  ClassOf,     \* the class of each broadcaster
  MaxOps       \* bound: operations

ASSUME ManagerAssumption ==
  ClassOf \in [Broadcasters -> Classes] /\ MaxOps \in Nat

VARIABLES
  m_event_map,            \* entries [cls, bits, listener]; (cls, bits) is the key
  m_listeners,            \* listeners the manager keeps alive and notifies
  m_broadcaster_managers, \* listeners that have this manager in their list
  signedUp,               \* bits each broadcaster was asked to send each listener
  checkedIn,              \* broadcasters that have checked in
  ops                     \* counter for the bound

vars == <<m_event_map, m_listeners, m_broadcaster_managers, signedUp, checkedIn,
          ops>>

Entry == [cls : Classes, bits : SUBSET Bits, listener : Listeners]

TypeOK ==
  /\ m_event_map \subseteq Entry
  /\ m_listeners \subseteq Listeners
  /\ m_broadcaster_managers \subseteq Listeners
  /\ signedUp \in [Broadcasters -> [Listeners -> SUBSET Bits]]
  /\ checkedIn \subseteq Broadcasters
  /\ ops \in Nat

Init ==
  /\ m_event_map = {}
  /\ m_listeners = {}
  /\ m_broadcaster_managers = {}
  /\ signedUp = [b \in Broadcasters |-> [l \in Listeners |-> {}]]
  /\ checkedIn = {}
  /\ ops = 0

Step == ops < MaxOps /\ ops' = ops + 1

OfClass(c) == {e \in m_event_map : e.cls = c}
OfListener(l) == {e \in m_event_map : e.listener = l}
Taken(c) == UNION {e.bits : e \in OfClass(c)}

(* Inserting into a std::map keeps an entry that has the same key.          *)
Insert(map, new) ==
  map \union {n \in new : ~\E e \in map : e.cls = n.cls /\ e.bits = n.bits}

---------------------------------------------------------------------------
(* Mutant: bits that another listener has acquired are granted again.       *)
StartListeningForEventSpec_Grab(l, c, bits) ==
  /\ Step
  /\ m_event_map' = Insert(m_event_map, {[cls |-> c, bits |-> bits, listener |-> l]})
  /\ m_listeners' = m_listeners \union {l}
  /\ m_broadcaster_managers' = m_broadcaster_managers \union {l}
  /\ UNCHANGED <<signedUp, checkedIn>>

(* RegisterListenerForEvents grants the bits nobody has; the listener       *)
(* remembers the manager if it was granted any.                             *)
StartListeningForEventSpec(l, c, bits) ==
  /\ Step
  /\ LET available == bits \ Taken(c)
     IN  IF available # {}
           THEN /\ m_event_map' = Insert(m_event_map,
                     {[cls |-> c, bits |-> available, listener |-> l]})
                /\ m_listeners' = m_listeners \union {l}
                /\ m_broadcaster_managers' = m_broadcaster_managers \union {l}
           ELSE UNCHANGED <<m_event_map, m_listeners, m_broadcaster_managers>>
  /\ UNCHANGED <<signedUp, checkedIn>>

(* UnregisterListenerForEvents forgets the listener, which must be known,   *)
(* erases the entries that share bits with the spec, and re-adds what is    *)
(* left of those that did not equal it.                                     *)
StopListeningForEventSpec(l, c, bits) ==
  /\ Step
  /\ IF l \in m_listeners
       THEN LET matches == {e \in OfClass(c) \cap OfListener(l) :
                              e.bits \cap bits # {}}
                readded == {[e EXCEPT !.bits = @ \ bits] :
                              e \in {m \in matches : m.bits # bits}}
            IN  /\ m_event_map' = Insert(m_event_map \ matches, readded)
                /\ m_listeners' = m_listeners \ {l}
       ELSE UNCHANGED <<m_event_map, m_listeners>>
  /\ UNCHANGED <<m_broadcaster_managers, signedUp, checkedIn>>

(* RemoveListener of a raw pointer, called by Listener::Clear for managers  *)
(* the listener remembers.  The result of the find_if is dropped, so the    *)
(* first element of m_listeners goes, whichever it is; the entries in the   *)
(* map are the right ones.                                                  *)
RemoveListenerPointer(l) ==
  /\ Step
  /\ l \in m_broadcaster_managers
  /\ IF m_listeners = {}
       THEN UNCHANGED m_listeners
       ELSE \E first \in m_listeners : m_listeners' = m_listeners \ {first}
  /\ m_event_map' = m_event_map \ OfListener(l)
  /\ UNCHANGED <<m_broadcaster_managers, signedUp, checkedIn>>

(* RemoveListener of a ListenerSP does nothing for an unknown listener.     *)
RemoveListener(l) ==
  /\ Step
  /\ l \in m_listeners
  /\ m_listeners' = m_listeners \ {l}
  /\ m_event_map' = m_event_map \ OfListener(l)
  /\ UNCHANGED <<m_broadcaster_managers, signedUp, checkedIn>>

(* Mutant: a broadcaster is signed up for the specs of every class.         *)
SignUpListenersForBroadcaster_AnyClass(b) ==
  /\ Step
  /\ b \notin checkedIn
  /\ checkedIn' = checkedIn \union {b}
  /\ signedUp' = [signedUp EXCEPT ![b] = [l \in Listeners |->
                    @[l] \union UNION {e.bits : e \in OfListener(l)}]]
  /\ UNCHANGED <<m_event_map, m_listeners, m_broadcaster_managers>>

(* A broadcaster checks in once, at the end of its construction.            *)
SignUpListenersForBroadcaster(b) ==
  /\ Step
  /\ b \notin checkedIn
  /\ checkedIn' = checkedIn \union {b}
  /\ signedUp' = [signedUp EXCEPT ![b] = [l \in Listeners |->
                    @[l] \union UNION {e.bits :
                      e \in OfClass(ClassOf[b]) \cap OfListener(l)}]]
  /\ UNCHANGED <<m_event_map, m_listeners, m_broadcaster_managers>>

(* The debugger is cleared: the known listeners forget the manager.         *)
Clear ==
  /\ Step
  /\ m_broadcaster_managers' = m_broadcaster_managers \ m_listeners
  /\ m_listeners' = {}
  /\ m_event_map' = {}
  /\ UNCHANGED <<signedUp, checkedIn>>

Next ==
  \/ \E l \in Listeners, c \in Classes, bits \in (SUBSET Bits) \ {{}} :
       \/ StartListeningForEventSpec(l, c, bits)
       \/ StopListeningForEventSpec(l, c, bits)
  \/ \E l \in Listeners : RemoveListenerPointer(l) \/ RemoveListener(l)
  \/ \E b \in Broadcasters : SignUpListenersForBroadcaster(b)
  \/ Clear

Spec == Init /\ [][Next]_vars

---------------------------------------------------------------------------
(* Properties *)

(* A bit of a class belongs to one entry of the map, whatever sequence of   *)
(* registrations, partial removals and re-additions built it.  (Which       *)
(* listener RemoveListener forgets makes no difference to it.)              *)
BitsExclusive ==
  \A d, e \in m_event_map : d.cls = e.cls /\ d # e => d.bits \cap e.bits = {}

(* A broadcaster that checks in sends each of its bits to one listener      *)
(* (SignUpListenersForBroadcaster, lines 454-468).                          *)
SignedUpOnce ==
  \A b \in Broadcasters : \A k, l \in Listeners :
    k # l => signedUp[b][k] \cap signedUp[b][l] = {}

(* Stopping to listen to an event class takes effect (lines 364-402): every *)
(* listener the map still has down for some events is one that              *)
(* UnregisterListenerForEvents will act for.                                *)
StillStoppable == \A e \in m_event_map : e.listener \in m_listeners
============================================================================
