---------------------- MODULE BroadcasterManagerProofs ----------------------
(***************************************************************************)
(* The bits of a broadcaster class are granted to one entry each, and so   *)
(* every broadcaster sends each of its bits to one of the listeners that   *)
(* were signed up for it, for any classes, bits, listeners, broadcasters   *)
(* and number of operations.                                               *)
(*                                                                         *)
(* BitsExclusive is inductive with the types.  SignedUpOnce needs, beside  *)
(* it, that a broadcaster sends nothing before it checks in.               *)
(***************************************************************************)
EXTENDS BroadcasterManager, TLAPS

(* A broadcaster that has not checked in sends nobody anything.             *)
SilentBefore ==
  \A b \in Broadcasters \ checkedIn : \A l \in Listeners : signedUp[b][l] = {}

IInv == TypeOK /\ BitsExclusive /\ SilentBefore /\ SignedUpOnce

(* The same of any set of entries.                                          *)
Exclusive(map) ==
  \A d, e \in map : d.cls = e.cls /\ d # e => d.bits \cap e.bits = {}

---------------------------------------------------------------------------
(* Granting bits nobody has keeps the entries exclusive.                    *)
LEMMA StartExclusive ==
  ASSUME TypeOK, BitsExclusive, NEW l \in Listeners, NEW c \in Classes,
         NEW bits \in SUBSET Bits
  PROVE  LET new == [cls |-> c, bits |-> bits \ Taken(c), listener |-> l]
         IN  /\ Insert(m_event_map, {new}) \subseteq Entry
             /\ Exclusive(Insert(m_event_map, {new}))
<1> DEFINE new == [cls |-> c, bits |-> bits \ Taken(c), listener |-> l]
<1>1. new \in Entry
  BY DEF Entry
<1>2. Insert(m_event_map, {new}) \subseteq m_event_map \union {new}
  BY DEF Insert
<1>3. \A e \in m_event_map : e.cls = c => e.bits \cap new.bits = {}
  BY DEF Taken, OfClass
<1>4. new.cls = c
  OBVIOUS
<1> HIDE DEF new
<1>5. Exclusive(m_event_map \union {new})
  BY <1>3, <1>4 DEF Exclusive, BitsExclusive
<1>6. Exclusive(Insert(m_event_map, {new}))
  BY <1>2, <1>5 DEF Exclusive
<1>7. Insert(m_event_map, {new}) \subseteq Entry
  BY <1>1, <1>2 DEF TypeOK
<1> QED BY <1>6, <1>7 DEF new

(* Taking bits away from some of a listener's entries, and adding the rest  *)
(* back, keeps them exclusive.                                              *)
LEMMA StopExclusive ==
  ASSUME TypeOK, BitsExclusive, NEW l \in Listeners, NEW c \in Classes,
         NEW bits \in SUBSET Bits, StopListeningForEventSpec(l, c, bits),
         l \in m_listeners
  PROVE  m_event_map' \subseteq Entry /\ Exclusive(m_event_map')
<1> DEFINE matches == {e \in OfClass(c) \cap OfListener(l) : e.bits \cap bits # {}}
           readded == {[e EXCEPT !.bits = @ \ bits] :
                         e \in {m \in matches : m.bits # bits}}
<1>1. m_event_map' = Insert(m_event_map \ matches, readded)
  BY DEF StopListeningForEventSpec
<1>2. \A n \in readded : \E e \in matches : /\ n \in Entry /\ n.cls = e.cls
                                            /\ n.listener = e.listener
                                            /\ n.bits = e.bits \ bits
  BY DEF OfClass, OfListener, TypeOK, Entry
<1>3. \A e \in matches : e \in m_event_map /\ e.cls = c /\ e.listener = l
  BY DEF OfClass, OfListener
<1> HIDE DEF matches, readded
<1>4. m_event_map' \subseteq (m_event_map \ matches) \union readded
  BY <1>1 DEF Insert
<1>5. m_event_map' \subseteq Entry
  BY <1>2, <1>4 DEF TypeOK
<1>6. ASSUME NEW d \in m_event_map', NEW e \in m_event_map', d.cls = e.cls, d # e
      PROVE  d.bits \cap e.bits = {}
  <2>1. CASE d \in m_event_map \ matches /\ e \in m_event_map \ matches
    BY <1>6, <2>1 DEF BitsExclusive
  <2>2. CASE d \in m_event_map \ matches /\ e \in readded
    BY <1>2, <1>3, <1>6, <2>2 DEF BitsExclusive
  <2>3. CASE d \in readded /\ e \in m_event_map \ matches
    BY <1>2, <1>3, <1>6, <2>3 DEF BitsExclusive
  <2>4. CASE d \in readded /\ e \in readded
    <3>1. PICK d0 \in matches : /\ d \in Entry /\ d.cls = d0.cls
                                /\ d.listener = d0.listener
                                /\ d.bits = d0.bits \ bits
      BY <1>2, <2>4
    <3>2. PICK e0 \in matches : /\ e \in Entry /\ e.cls = e0.cls
                                /\ e.listener = e0.listener
                                /\ e.bits = e0.bits \ bits
      BY <1>2, <2>4
    <3>3. d0 # e0
      <4>1. d = [cls |-> d.cls, bits |-> d.bits, listener |-> d.listener]
            /\ e = [cls |-> e.cls, bits |-> e.bits, listener |-> e.listener]
        BY <3>1, <3>2 DEF Entry
      <4> QED BY <1>6, <3>1, <3>2, <4>1
    <3> QED BY <1>3, <3>1, <3>2, <3>3 DEF BitsExclusive
  <2> QED BY <1>4, <2>1, <2>2, <2>3, <2>4
<1> QED BY <1>5, <1>6 DEF Exclusive

(* A broadcaster that checks in sends different bits to different           *)
(* listeners.                                                               *)
LEMMA SignUpOnce ==
  ASSUME IInv, NEW b \in Broadcasters, SignUpListenersForBroadcaster(b)
  PROVE  IInv'
<1> DEFINE granted(l) == UNION {e.bits :
                                  e \in OfClass(ClassOf[b]) \cap OfListener(l)}
<1>1. b \notin checkedIn /\ checkedIn' = checkedIn \union {b}
      /\ UNCHANGED <<m_event_map, m_listeners, m_broadcaster_managers>>
      /\ ops' \in Nat
  BY DEF SignUpListenersForBroadcaster, Step, IInv, TypeOK
<1>2. \A l \in Listeners : granted(l) \subseteq Bits
  BY DEF OfClass, OfListener, IInv, TypeOK, Entry
<1>3. \A k, l \in Listeners : k # l => granted(k) \cap granted(l) = {}
  BY DEF OfClass, OfListener, IInv, BitsExclusive
<1>4. \A l \in Listeners : signedUp[b][l] = {}
  BY <1>1 DEF IInv, SilentBefore
<1>5. signedUp' = [signedUp EXCEPT ![b] =
                     [l \in Listeners |-> signedUp[b][l] \union granted(l)]]
  BY DEF SignUpListenersForBroadcaster
<1> HIDE DEF granted
<1>6. signedUp' = [signedUp EXCEPT ![b] = [l \in Listeners |-> granted(l)]]
  BY <1>4, <1>5
<1>7. signedUp' \in [Broadcasters -> [Listeners -> SUBSET Bits]]
  BY <1>2, <1>6 DEF IInv, TypeOK
<1>8. TypeOK' /\ BitsExclusive'
  BY <1>1, <1>7 DEF IInv, TypeOK, BitsExclusive
<1>9. SilentBefore'
  BY <1>1, <1>6 DEF IInv, TypeOK, SilentBefore
<1>10. SignedUpOnce'
  <2> SUFFICES ASSUME NEW d \in Broadcasters, NEW k \in Listeners,
                      NEW l \in Listeners, k # l
               PROVE  signedUp'[d][k] \cap signedUp'[d][l] = {}
    BY DEF SignedUpOnce
  <2>1. CASE d = b
    BY <1>3, <1>6, <2>1 DEF IInv, TypeOK
  <2>2. CASE d # b
    BY <1>6, <2>2 DEF IInv, TypeOK, SignedUpOnce
  <2> QED BY <2>1, <2>2
<1> QED BY <1>8, <1>9, <1>10 DEF IInv

(* Steps that sign nobody up need only keep the types and the map.          *)
LEMMA MapOnly ==
  ASSUME IInv, UNCHANGED <<signedUp, checkedIn>>, ops' \in Nat,
         m_event_map' \subseteq Entry, Exclusive(m_event_map'),
         m_listeners' \subseteq Listeners, m_broadcaster_managers' \subseteq Listeners
  PROVE  IInv'
BY DEF IInv, TypeOK, BitsExclusive, Exclusive, SilentBefore, SignedUpOnce

(* Removing entries keeps the rest exclusive.                               *)
LEMMA SubMap ==
  ASSUME IInv, NEW M \in SUBSET m_event_map
  PROVE  M \subseteq Entry /\ Exclusive(M)
BY DEF IInv, TypeOK, BitsExclusive, Exclusive

(* Every step keeps the invariant.                                          *)
LEMMA StepPreserves ==
  ASSUME IInv, [Next]_vars
  PROVE  IInv'
<1> USE DEF Step
<1>1. ASSUME NEW l \in Listeners, NEW c \in Classes, NEW bits \in SUBSET Bits,
             StartListeningForEventSpec(l, c, bits)
      PROVE  IInv'
  <2>1. CASE bits \ Taken(c) # {}
    <3>1. m_event_map' \subseteq Entry /\ Exclusive(m_event_map')
      BY <1>1, <2>1, StartExclusive DEF StartListeningForEventSpec, IInv
    <3>2. /\ m_listeners' \subseteq Listeners
          /\ m_broadcaster_managers' \subseteq Listeners
      BY <1>1, <2>1 DEF StartListeningForEventSpec, IInv, TypeOK
    <3>3. UNCHANGED <<signedUp, checkedIn>> /\ ops' \in Nat
      BY <1>1 DEF StartListeningForEventSpec, IInv, TypeOK
    <3> QED BY <3>1, <3>2, <3>3, MapOnly
  <2>2. CASE bits \ Taken(c) = {}
    BY <1>1, <2>2, MapOnly, SubMap DEF StartListeningForEventSpec, IInv, TypeOK
  <2> QED BY <2>1, <2>2
<1>2. ASSUME NEW l \in Listeners, NEW c \in Classes, NEW bits \in SUBSET Bits,
             StopListeningForEventSpec(l, c, bits)
      PROVE  IInv'
  <2>1. CASE l \in m_listeners
    <3>1. m_event_map' \subseteq Entry /\ Exclusive(m_event_map')
      BY <1>2, <2>1, StopExclusive DEF IInv
    <3>2. m_listeners' \subseteq Listeners
      BY <1>2, <2>1 DEF StopListeningForEventSpec, IInv, TypeOK
    <3> QED BY <1>2, <3>1, <3>2, MapOnly
            DEF StopListeningForEventSpec, IInv, TypeOK
  <2>2. CASE l \notin m_listeners
    BY <1>2, <2>2, MapOnly, SubMap DEF StopListeningForEventSpec, IInv, TypeOK
  <2> QED BY <2>1, <2>2
<1>3. ASSUME NEW l \in Listeners, RemoveListenerPointer(l) PROVE IInv'
  BY <1>3, MapOnly, SubMap DEF RemoveListenerPointer, IInv, TypeOK
<1>4. ASSUME NEW l \in Listeners, RemoveListener(l) PROVE IInv'
  BY <1>4, MapOnly, SubMap DEF RemoveListener, IInv, TypeOK
<1>5. ASSUME NEW b \in Broadcasters, SignUpListenersForBroadcaster(b) PROVE IInv'
  BY <1>5, SignUpOnce
<1>6. CASE Clear
  BY <1>6, MapOnly, SubMap DEF Clear, IInv, TypeOK
<1>7. CASE UNCHANGED vars
  BY <1>7, MapOnly, SubMap DEF vars, IInv, TypeOK
<1> QED BY <1>1, <1>2, <1>3, <1>4, <1>5, <1>6, <1>7 DEF Next

(* The map is empty at first.                                               *)
LEMMA InitPreserved == Init => IInv
BY DEF Init, IInv, TypeOK, BitsExclusive, SilentBefore, SignedUpOnce

---------------------------------------------------------------------------
(* Whatever is registered, partly unregistered and removed, no bit of a     *)
(* class is granted twice (RegisterListenerForEvents and                    *)
(* UnregisterListenerForEvents, lines 339-402).                             *)
THEOREM BitsGrantedOnce == Spec => []BitsExclusive
<1>1. IInv /\ [Next]_vars => IInv'
  BY StepPreserves
<1>2. IInv => BitsExclusive
  BY DEF IInv
<1> QED BY InitPreserved, <1>1, <1>2, PTL DEF Spec

(* A broadcaster sends each bit to at most one listener of its class        *)
(* (SignUpListenersForBroadcaster, lines 454-468).                          *)
THEOREM BitsSentOnce == Spec => []SignedUpOnce
<1>1. IInv /\ [Next]_vars => IInv'
  BY StepPreserves
<1>2. IInv => SignedUpOnce
  BY DEF IInv
<1> QED BY InitPreserved, <1>1, <1>2, PTL DEF Spec
=============================================================================
