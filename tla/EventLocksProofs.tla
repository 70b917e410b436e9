-------------------------- MODULE EventLocksProofs --------------------------
(***************************************************************************)
(* Every deadlock of the event system has a thread in one of the two       *)
(* operations that reverse the order of the mutexes, whatever the number   *)
(* of threads, listeners and broadcasters.                                 *)
(*                                                                         *)
(* Mutexes have ranks.  The inductive invariant LockOrder says that a      *)
(* thread in any other operation holds only mutexes of lower rank than     *)
(* those it still has to take, now or in a later chain.  When it waits for *)
(* a mutex, it waits for a thread that, if it is of this kind and waits    *)
(* too, waits for one of a higher rank; as there are four ranks, no set of *)
(* such threads waits for itself.                                          *)
(***************************************************************************)
EXTENDS EventLocks, TLAPS

Rank(m) == IF m[1] = "manager" THEN 1
           ELSE IF m[1] = "listeners" THEN 2
           ELSE IF m[1] = "broadcasters" THEN 3
           ELSE 4

(* The ranks of a sequence of mutexes increase.                             *)
Ascending(s) == \A i, j \in 1..Len(s) : i < j => Rank(s[i]) < Rank(s[j])

(* Every mutex of the set ranks below every one of the sequence.            *)
Below(M, s) == \A m \in M : \A i \in 1..Len(s) : Rank(m) < Rank(s[i])

Mutexes == {"manager", "listeners", "broadcasters", "events"}
             \X ({"the"} \union Listeners \union Broadcasters)

Operations == {p.op : p \in Programs}

LockTypes ==
  /\ operation \in [Threads -> Operations \union {"none"}]
  /\ held \in [Threads -> SUBSET Mutexes]
  /\ outer \in [Threads -> SUBSET Mutexes]
  /\ want \in [Threads -> Seq(Mutexes)]
  /\ todo \in [Threads -> SUBSET Seq(Mutexes)]

LockOrder ==
  \A t \in Threads :
    /\ operation[t] \notin Reversing => /\ Ascending(want[t])
                                        /\ Below(held[t], want[t])
                                        /\ \A c \in todo[t] : Ascending(c) /\ Below(outer[t], c)
    /\ operation[t] = "none" => held[t] = {} /\ outer[t] = {} /\ want[t] = <<>>

IInv == LockTypes /\ LockOrder

(* What the invariant needs of an operation.                                *)
Ordered(p) ==
  /\ p.first \in Seq(Mutexes) /\ p.chains \in SUBSET Seq(Mutexes)
  /\ Ascending(p.first)
  /\ \A c \in p.chains : Ascending(c) /\ Below(Range(p.first), c)

---------------------------------------------------------------------------
(* The mutexes of the event system and their ranks.                         *)
LEMMA Ranks ==
  /\ m_manager_mutex \in Mutexes /\ Rank(m_manager_mutex) = 1
  /\ \A b \in Broadcasters : /\ m_listeners_mutex(b) \in Mutexes
                             /\ Rank(m_listeners_mutex(b)) = 2
  /\ \A l \in Listeners : /\ m_broadcasters_mutex(l) \in Mutexes
                          /\ Rank(m_broadcasters_mutex(l)) = 3
                          /\ m_events_mutex(l) \in Mutexes
                          /\ Rank(m_events_mutex(l)) = 4
BY DEF Rank, Mutexes, m_manager_mutex, m_listeners_mutex, m_broadcasters_mutex,
       m_events_mutex

(* There are four ranks.                                                    *)
LEMMA RankType == \A m \in Mutexes : Rank(m) \in 1..4
BY DEF Rank

(* Sequences of no mutex, of one and of two.                                *)
LEMMA Empty ==
  <<>> \in Seq(Mutexes) /\ Ascending(<<>>) /\ Range(<<>>) = {}
BY DEF Ascending, Range

(* A chain of one mutex is in order.                                        *)
LEMMA Single ==
  ASSUME NEW m \in Mutexes
  PROVE  <<m>> \in Seq(Mutexes) /\ Ascending(<<m>>) /\ Range(<<m>>) = {m}
<1>1. Len(<<m>>) = 1 /\ <<m>>[1] = m /\ DOMAIN <<m>> = 1..1
  OBVIOUS
<1> QED BY <1>1 DEF Ascending, Range

(* So is one of two mutexes of rising rank.                                 *)
LEMMA Pair ==
  ASSUME NEW m \in Mutexes, NEW n \in Mutexes, Rank(m) < Rank(n)
  PROVE  <<m, n>> \in Seq(Mutexes) /\ Ascending(<<m, n>>) /\ Below({m}, <<n>>)
<1>1. /\ Len(<<m, n>>) = 2 /\ <<m, n>>[1] = m /\ <<m, n>>[2] = n
      /\ Len(<<n>>) = 1 /\ <<n>>[1] = n
  OBVIOUS
<1>2. Rank(m) \in 1..4 /\ Rank(n) \in 1..4
  BY RankType
<1>3. Ascending(<<m, n>>)
  BY <1>1, <1>2 DEF Ascending
<1>4. Below({m}, <<n>>)
  BY <1>1 DEF Below
<1> QED BY <1>3, <1>4

(* A thread that holds nothing may take any chain.                          *)
LEMMA BelowNone == \A s : Below({}, s)
BY DEF Below

(* Chains of one mutex each, taken while a mutex of lower rank is held.     *)
LEMMA OuterAndChains ==
  ASSUME NEW p, NEW m \in Mutexes, p.first = <<m>>,
         \A c \in p.chains : \E n \in Mutexes : c = <<n>> /\ Rank(m) < Rank(n)
  PROVE  Ordered(p)
<1>1. p.first \in Seq(Mutexes) /\ Ascending(p.first) /\ Range(p.first) = {m}
  BY Single
<1>2. ASSUME NEW c \in p.chains
      PROVE  c \in Seq(Mutexes) /\ Ascending(c) /\ Below(Range(p.first), c)
  <2>1. PICK n \in Mutexes : c = <<n>> /\ Rank(m) < Rank(n)
    OBVIOUS
  <2> QED BY <1>1, <2>1, Single, Pair
<1> QED BY <1>1, <1>2 DEF Ordered

(* Every other operation takes its mutexes in the order of ranks.           *)
LEMMA ProgramsOrdered ==
  ASSUME NEW p \in Programs, p.op \notin Reversing
  PROVE  Ordered(p)
<1>1. ASSUME NEW l \in Listeners, NEW b \in Broadcasters,
             p = StartListeningForEvents(l, b)
      PROVE  Ordered(p)
  BY <1>1, Ranks, Empty, Single, BelowNone DEF StartListeningForEvents, Program, Ordered
<1>2. ASSUME NEW l \in Listeners, p = StartListeningForEventSpec(l)
      PROVE  Ordered(p)
  <2>1. p.first = <<m_manager_mutex, m_broadcasters_mutex(l)>> /\ p.chains = {}
    BY <1>2 DEF StartListeningForEventSpec, Program
  <2>2. p.first \in Seq(Mutexes) /\ Ascending(p.first)
    <3>1. /\ m_manager_mutex \in Mutexes /\ m_broadcasters_mutex(l) \in Mutexes
          /\ Rank(m_manager_mutex) < Rank(m_broadcasters_mutex(l))
      BY Ranks
    <3> QED BY <2>1, <3>1, Pair
  <2> QED BY <2>1, <2>2 DEF Ordered
<1>3. ASSUME NEW b \in Broadcasters, p = SignUpListenersForBroadcaster(b)
      PROVE  Ordered(p)
  <2>1. /\ p.first = <<m_manager_mutex>>
        /\ p.chains = {<<m_broadcasters_mutex(l)>> : l \in Listeners}
                        \union {<<m_listeners_mutex(b)>>}
    BY <1>3 DEF SignUpListenersForBroadcaster, Program
  <2> QED BY <2>1, Ranks, OuterAndChains
<1>4. ASSUME NEW b \in Broadcasters, p = PrivateBroadcastEvent(b)
      PROVE  Ordered(p)
  <2>1. /\ p.first = <<m_listeners_mutex(b)>>
        /\ p.chains = {<<m_events_mutex(l)>> : l \in Listeners}
    BY <1>4 DEF PrivateBroadcastEvent, Program
  <2> QED BY <2>1, Ranks, OuterAndChains
<1>5. ASSUME NEW b \in Broadcasters, p = BroadcasterClear(b)
      PROVE  Ordered(p)
  <2>1. /\ p.first = <<m_listeners_mutex(b)>>
        /\ p.chains = {<<m_broadcasters_mutex(l)>> : l \in Listeners}
                        \union {<<m_events_mutex(l)>> : l \in Listeners}
    BY <1>5 DEF BroadcasterClear, Program
  <2> QED BY <2>1, Ranks, OuterAndChains
<1>6. ASSUME NEW l \in Listeners, p = GetEventInternal(l)
      PROVE  Ordered(p)
  <2>1. p.first = <<m_events_mutex(l)>> /\ p.chains = {}
    BY <1>6 DEF GetEventInternal, Program
  <2> QED BY <2>1, Ranks, OuterAndChains
<1>7. \A l \in Listeners : p # StopListeningForEventSpec(l) /\ p # ListenerClear(l)
  BY DEF StopListeningForEventSpec, ListenerClear, Program, Reversing
<1> QED BY <1>1, <1>2, <1>3, <1>4, <1>5, <1>6, <1>7 DEF Programs

---------------------------------------------------------------------------
(* All operations have sequences of mutexes and names.                      *)
LEMMA ProgramTypes ==
  ASSUME NEW p \in Programs
  PROVE  /\ p.op # "none"
         /\ p.first \in Seq(Mutexes) /\ p.chains \in SUBSET Seq(Mutexes)
<1>1. p.op # "none"
  BY DEF Programs, Program, StartListeningForEvents, StartListeningForEventSpec,
     StopListeningForEventSpec, SignUpListenersForBroadcaster, PrivateBroadcastEvent,
     BroadcasterClear, GetEventInternal, ListenerClear
<1>2. ASSUME NEW l \in Listeners, p = StopListeningForEventSpec(l)
      PROVE  p.first \in Seq(Mutexes) /\ p.chains \in SUBSET Seq(Mutexes)
  <2>1. p.first = <<m_broadcasters_mutex(l), m_manager_mutex>> /\ p.chains = {}
    BY <1>2 DEF StopListeningForEventSpec, Program
  <2> QED BY <2>1, Ranks
<1>3. ASSUME NEW l \in Listeners, p = ListenerClear(l)
      PROVE  p.first \in Seq(Mutexes) /\ p.chains \in SUBSET Seq(Mutexes)
  <2>1. /\ p.first = <<m_broadcasters_mutex(l)>>
        /\ p.chains = {<<m_listeners_mutex(b)>> : b \in Broadcasters}
                        \union {<<m_events_mutex(l), m_manager_mutex>>}
    BY <1>3 DEF ListenerClear, Program
  <2>2. \A b \in Broadcasters : <<m_listeners_mutex(b)>> \in Seq(Mutexes)
    BY Ranks, Single
  <2>3. <<m_events_mutex(l), m_manager_mutex>> \in Seq(Mutexes)
    BY Ranks
  <2>4. p.first \in Seq(Mutexes)
    BY <2>1, Ranks, Single
  <2> QED BY <2>1, <2>2, <2>3, <2>4
<1>4. CASE p.op \notin Reversing
  BY <1>1, <1>4, ProgramsOrdered DEF Ordered
<1>5. CASE p.op \in Reversing
  <2>1. \/ \E l \in Listeners : p = StopListeningForEventSpec(l)
        \/ \E l \in Listeners : p = ListenerClear(l)
    BY <1>5 DEF Programs, Program, Reversing, StartListeningForEvents,
       StartListeningForEventSpec, SignUpListenersForBroadcaster, PrivateBroadcastEvent,
       BroadcasterClear, GetEventInternal
  <2> QED BY <1>1, <1>2, <1>3, <2>1
<1> QED BY <1>4, <1>5

---------------------------------------------------------------------------
(* A thread that holds nothing and wants nothing is in order.               *)
LEMMA InitOrdered == Init => IInv
BY Empty, BelowNone DEF Init, IInv, LockTypes, LockOrder

(* A thread that enters an operation in order is in order.                  *)
LEMMA CallOrdered ==
  ASSUME IInv, NEW t \in Threads, NEW p \in Programs, Call(t, p)
  PROVE  IInv'
<1>1. /\ p.op # "none"
      /\ p.first \in Seq(Mutexes) /\ p.chains \in SUBSET Seq(Mutexes)
  BY ProgramTypes
<1>2. Range(p.first) \subseteq Mutexes
  BY <1>1 DEF Range
<1>3. LockTypes'
  BY <1>1, <1>2 DEF IInv, LockTypes, Operations, Call
<1>4. held[t] = {}
  BY DEF IInv, LockOrder, Call
<1>5. /\ want'[t] = p.first /\ held'[t] = {} /\ operation'[t] = p.op
      /\ outer'[t] = Range(p.first) /\ todo'[t] = p.chains
  BY <1>4 DEF IInv, LockTypes, LockOrder, Call
<1>6. \A u \in Threads \ {t} :
        /\ want'[u] = want[u] /\ held'[u] = held[u] /\ operation'[u] = operation[u]
        /\ outer'[u] = outer[u] /\ todo'[u] = todo[u]
  BY DEF IInv, LockTypes, Call
<1>7. LockOrder'
  <2> SUFFICES ASSUME NEW u \in Threads
               PROVE  /\ operation'[u] \notin Reversing =>
                           /\ Ascending(want'[u]) /\ Below(held'[u], want'[u])
                           /\ \A c \in todo'[u] : Ascending(c) /\ Below(outer'[u], c)
                      /\ operation'[u] = "none" =>
                           held'[u] = {} /\ outer'[u] = {} /\ want'[u] = <<>>
    BY DEF LockOrder
  <2>1. CASE u = t
    BY <1>1, <1>5, <2>1, BelowNone, ProgramsOrdered DEF Ordered
  <2>2. CASE u # t
    BY <1>6, <2>2 DEF IInv, LockOrder
  <2> QED BY <2>1, <2>2
<1> QED BY <1>3, <1>7 DEF IInv

(* Taking the next mutex keeps the order: those behind it rank higher.      *)
LEMMA AcquireOrdered ==
  ASSUME IInv, NEW t \in Threads, Acquire(t)
  PROVE  IInv'
<1>1. want[t] \in Seq(Mutexes) /\ want[t] # <<>> /\ held[t] \subseteq Mutexes
  BY DEF IInv, LockTypes, Acquire
<1>2. Head(want[t]) \in Mutexes /\ Tail(want[t]) \in Seq(Mutexes)
  BY <1>1
<1>3. ASSUME operation[t] \notin Reversing
      PROVE  /\ Ascending(Tail(want[t]))
             /\ Below(held[t] \union {Head(want[t])}, Tail(want[t]))
  <2>1. Ascending(want[t]) /\ Below(held[t], want[t])
    BY <1>3 DEF IInv, LockOrder
  <2>2. Ascending(Tail(want[t]))
    BY <1>1, <2>1 DEF Ascending
  <2>3. Below(held[t] \union {Head(want[t])}, Tail(want[t]))
    BY <1>1, <2>1 DEF Ascending, Below
  <2> QED BY <2>2, <2>3
<1>4. LockTypes'
  BY <1>2 DEF IInv, LockTypes, Acquire
<1>5. operation[t] # "none"
  BY <1>1 DEF IInv, LockOrder
<1>6. LockOrder'
  BY <1>3, <1>5 DEF IInv, LockTypes, LockOrder, Acquire
<1> QED BY <1>4, <1>6 DEF IInv

(* Every step keeps the order.                                              *)
LEMMA NextOrdered ==
  ASSUME IInv, [Next]_vars
  PROVE  IInv'
<1>1. ASSUME NEW t \in Threads, NEW p \in Programs, Call(t, p) PROVE IInv'
  BY <1>1, CallOrdered
<1>2. ASSUME NEW t \in Threads, Acquire(t) PROVE IInv'
  BY <1>2, AcquireOrdered
<1>3. ASSUME NEW t \in Threads, NextChain(t) PROVE IInv'
  BY <1>3 DEF IInv, LockTypes, LockOrder, NextChain
<1>4. ASSUME NEW t \in Threads, ReleaseChain(t) PROVE IInv'
  BY <1>4, Empty DEF IInv, LockTypes, LockOrder, ReleaseChain, Below
<1>5. ASSUME NEW t \in Threads, Return(t) PROVE IInv'
  <2>1. /\ want[t] = <<>> /\ operation'[t] = "none" /\ held'[t] = {} /\ outer'[t] = {}
        /\ want' = want /\ todo' = todo /\ todo[t] = {}
        /\ \A u \in Threads \ {t} :
             operation'[u] = operation[u] /\ held'[u] = held[u] /\ outer'[u] = outer[u]
    BY <1>5 DEF IInv, LockTypes, Return
  <2>2. LockTypes'
    BY <1>5 DEF IInv, LockTypes, Return
  <2>3. LockOrder'
    BY <2>1, BelowNone, Empty DEF IInv, LockOrder
  <2> QED BY <2>2, <2>3 DEF IInv
<1>6. CASE UNCHANGED vars
  BY <1>6 DEF IInv, LockTypes, LockOrder, vars
<1> QED BY <1>1, <1>2, <1>3, <1>4, <1>5, <1>6 DEF Next

(* A thread that waits, waits for one that holds a mutex of the rank it     *)
(* wants: if that one is in order and waits too, it is for a higher rank.   *)
LEMMA WaitClimbs ==
  ASSUME IInv, NEW t \in Threads, NEW u \in Threads, Waits(t, u),
         want[u] # <<>>, operation[u] \notin Reversing
  PROVE  /\ Rank(Head(want[t])) \in 1..4 /\ Rank(Head(want[u])) \in 1..4
         /\ Rank(Head(want[t])) < Rank(Head(want[u]))
<1>1. want[t] \in Seq(Mutexes) /\ want[u] \in Seq(Mutexes) /\ want[t] # <<>>
  BY DEF IInv, LockTypes, Waits
<1>2. Head(want[t]) \in Mutexes /\ Head(want[u]) \in Mutexes
  BY <1>1
<1>3. Head(want[u]) = want[u][1] /\ 1 \in 1..Len(want[u])
  BY <1>1
<1>4. Rank(Head(want[t])) < Rank(Head(want[u]))
  BY <1>3 DEF IInv, LockOrder, Below, Waits
<1> QED BY <1>2, <1>4, RankType

(* Threads that are all in LockOrder are not deadlocked: five waits in a    *)
(* row would need five ranks.                                               *)
LEMMA OrderBreaksCycles == IInv => DeadlocksReverse
<1> SUFFICES ASSUME IInv, NEW S \in SUBSET Threads, S # {},
                    \A t \in S : \E u \in S : Waits(t, u),
                    \A t \in S : operation[t] \notin Reversing
             PROVE  FALSE
  BY DEF DeadlocksReverse, Deadlocked
<1> DEFINE W(t) == Rank(Head(want[t]))
<1>1. \A t \in S : \E u \in S : W(t) \in 1..4 /\ W(u) \in 1..4 /\ W(t) < W(u)
  <2> SUFFICES ASSUME NEW t \in S
               PROVE  \E u \in S : W(t) \in 1..4 /\ W(u) \in 1..4 /\ W(t) < W(u)
    OBVIOUS
  <2>1. PICK u \in S : Waits(t, u)
    OBVIOUS
  <2>2. want[u] # <<>>
    BY DEF Waits
  <2> QED BY <2>1, <2>2, WaitClimbs
<1> HIDE DEF W
<1>2. PICK t1 \in S : S # {}
  OBVIOUS
<1>3. PICK t2 \in S : W(t1) \in 1..4 /\ W(t2) \in 1..4 /\ W(t1) < W(t2)
  BY <1>1
<1>4. PICK t3 \in S : W(t3) \in 1..4 /\ W(t2) < W(t3)
  BY <1>1
<1>5. PICK t4 \in S : W(t4) \in 1..4 /\ W(t3) < W(t4)
  BY <1>1
<1>6. PICK t5 \in S : W(t5) \in 1..4 /\ W(t4) < W(t5)
  BY <1>1
<1> QED BY <1>3, <1>4, <1>5, <1>6

(* Of all the operations of Broadcaster.cpp and Listener.cpp, with any      *)
(* number of threads, only StopListeningForEventSpec (Listener.cpp:462-465) *)
(* and Listener::Clear (lines 62-79) can bring about a deadlock: whenever   *)
(* threads wait for each other, one of them is in one of these two.         *)
THEOREM DeadlocksAreReversals == Spec => []DeadlocksReverse
<1>1. Init => IInv
  BY InitOrdered
<1>2. IInv /\ [Next]_vars => IInv'
  BY NextOrdered
<1>3. IInv => DeadlocksReverse
  BY OrderBreaksCycles
<1> QED BY <1>1, <1>2, <1>3, PTL DEF Spec
=============================================================================
