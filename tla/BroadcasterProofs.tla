------------------------- MODULE BroadcasterProofs -------------------------
(* Proofs about Broadcaster: its types, the order of events, unique events, *)
(* wakeups and deliveries, for any broadcasters, listeners and threads.     *)
EXTENDS Broadcaster, SequenceTheorems, WellFoundedInduction, TLAPS

(* A nonempty set of naturals has a least member.                           *)
LEMMA NatMin ==
  ASSUME NEW T, T \subseteq Nat, T # {} PROVE \E x \in T : \A y \in T : x <= y
<1>1. PICK x \in T : \A y \in T : <<y, x>> \notin OpToRel(<, Nat)
  BY NatLessThanWellFounded, WFMin
<1>2. \A y \in T : x <= y
  <2> SUFFICES ASSUME NEW y \in T, y < x PROVE FALSE
    OBVIOUS
  <2>1. <<y, x>> \in OpToRel(<, Nat)
    BY DEF OpToRel
  <2> QED BY <1>1, <2>1
<1> QED BY <1>2

---------------------------------------------------------------------------
(* What Keep keeps *)

(* Subseq(r, q, I): r has members of q at positions in I, in their order.   *)
Subseq(r, q, I) ==
  \E h \in [1 .. Len(r) -> I \intersect (1 .. Len(q))] :
    /\ \A m, n \in 1 .. Len(r) : m < n => h[m] < h[n]
    /\ \A n \in 1 .. Len(r) : r[n] = q[h[n]]

(* What kept computes up to position n.                                     *)
KeptUpTo(f, q, I, n) ==
  f = [i \in 0 .. n |-> IF i = 0 THEN <<>>
                        ELSE IF i \in I THEN Append(f[i - 1], q[i]) ELSE f[i - 1]]

(* The recursion of Keep has a solution: the least position up to which it  *)
(* had none would be the successor of one up to which it has.               *)
LEMMA KeptExists ==
  ASSUME NEW N \in Nat, NEW q, NEW I
  PROVE  \E f : KeptUpTo(f, q, I, N)
<1> DEFINE Bad == {n \in Nat : ~\E f : KeptUpTo(f, q, I, n)}
<1>1. 0 \notin Bad
  <2> DEFINE g == [i \in 0 .. 0 |-> <<>>]
  <2>1. KeptUpTo(g, q, I, 0)
    BY DEF KeptUpTo
  <2> QED BY <2>1
<1>2. ASSUME NEW n \in Nat, n \notin Bad PROVE n + 1 \notin Bad
  <2>1. PICK f : KeptUpTo(f, q, I, n)
    BY <1>2
  <2> DEFINE g == [i \in 0 .. n + 1 |->
                     IF i <= n THEN f[i]
                     ELSE IF n + 1 \in I THEN Append(f[n], q[n + 1]) ELSE f[n]]
  <2>2. \A i \in 0 .. n : f[i] = IF i = 0 THEN <<>>
                                 ELSE IF i \in I THEN Append(f[i - 1], q[i]) ELSE f[i - 1]
    BY <2>1 DEF KeptUpTo
  <2>3. \A i \in 0 .. n : g[i] = f[i]
    OBVIOUS
  <2>4. g[n + 1] = IF n + 1 \in I THEN Append(g[n], q[n + 1]) ELSE g[n]
    BY <2>3
  <2>5. \A i \in 0 .. n + 1 : g[i] = IF i = 0 THEN <<>>
                                     ELSE IF i \in I THEN Append(g[i - 1], q[i]) ELSE g[i - 1]
    <3> SUFFICES ASSUME NEW i \in 0 .. n + 1
                 PROVE  g[i] = IF i = 0 THEN <<>>
                               ELSE IF i \in I THEN Append(g[i - 1], q[i]) ELSE g[i - 1]
      OBVIOUS
    <3> HIDE DEF g
    <3>1. CASE i = n + 1
      BY <2>4, <3>1
    <3>2. CASE i \in 0 .. n
      <4>1. i # 0 => i - 1 \in 0 .. n
        BY <3>2
      <4> QED BY <2>2, <2>3, <3>2, <4>1
    <3> QED BY <3>1, <3>2
  <2>6. g = [i \in 0 .. n + 1 |-> g[i]]
    OBVIOUS
  <2>7. KeptUpTo(g, q, I, n + 1)
    <3> HIDE DEF g
    <3> QED BY <2>5, <2>6 DEF KeptUpTo
  <2> QED BY <2>7
<1>3. Bad = {}
  <2> SUFFICES ASSUME Bad # {} PROVE FALSE
    OBVIOUS
  <2>1. Bad \subseteq Nat
    OBVIOUS
  <2> HIDE DEF Bad
  <2>2. PICK n \in Bad : \A m \in Bad : n <= m
    BY <2>1, NatMin
  <2>3. n \in Nat /\ n # 0
    BY <1>1, <2>1, <2>2
  <2>4. n - 1 \in Nat /\ (n - 1) + 1 = n /\ n - 1 \notin Bad
    BY <2>2, <2>3
  <2> QED BY <1>2, <2>2, <2>4
<1> QED BY <1>3

(* Keep satisfies its recursion.                                            *)
LEMMA KeepRecursion ==
  ASSUME NEW S, NEW q \in Seq(S), NEW I
  PROVE  \E f : KeptUpTo(f, q, I, Len(q)) /\ Keep(q, I) = f[Len(q)]
<1> DEFINE k == CHOOSE f : f = [i \in 0 .. Len(q) |->
                  IF i = 0 THEN <<>> ELSE IF i \in I THEN Append(f[i - 1], q[i]) ELSE f[i - 1]]
<1>1. Keep(q, I) = k[Len(q)]
  BY DEF Keep
<1>2. \E f : f = [i \in 0 .. Len(q) |->
                  IF i = 0 THEN <<>> ELSE IF i \in I THEN Append(f[i - 1], q[i]) ELSE f[i - 1]]
  <2>1. Len(q) \in Nat
    OBVIOUS
  <2>2. PICK f : KeptUpTo(f, q, I, Len(q))
    BY <2>1, KeptExists
  <2> QED BY <2>2 DEF KeptUpTo
<1>3. KeptUpTo(k, q, I, Len(q))
  BY <1>2 DEF KeptUpTo
<1> QED BY <1>1, <1>3

(* A subsequence may be extended by the next member.                        *)
LEMMA SubseqAppend ==
  ASSUME NEW S, NEW q \in Seq(S), NEW I, NEW n \in 1 .. Len(q), n \in I, NEW r \in Seq(S),
         Subseq(r, q, I \intersect (1 .. n - 1))
  PROVE  Append(r, q[n]) \in Seq(S) /\ Subseq(Append(r, q[n]), q, I \intersect (1 .. n))
<1> DEFINE a == Append(r, q[n])
           m == Len(r)
<1>1. PICK h \in [1 .. m -> (I \intersect (1 .. n - 1)) \intersect (1 .. Len(q))] :
        /\ \A i, j \in 1 .. m : i < j => h[i] < h[j]
        /\ \A i \in 1 .. m : r[i] = q[h[i]]
  BY DEF Subseq
<1>2. /\ a \in Seq(S) /\ m \in Nat /\ Len(a) = m + 1 /\ a[m + 1] = q[n]
      /\ \A i \in 1 .. m : a[i] = r[i]
  BY AppendProperties
<1> HIDE DEF a, m
<1> DEFINE g == [i \in 1 .. m + 1 |-> IF i = m + 1 THEN n ELSE h[i]]
<1>3. /\ g \in [1 .. m + 1 -> (I \intersect (1 .. n)) \intersect (1 .. Len(q))]
      /\ g[m + 1] = n /\ \A i \in 1 .. m : g[i] = h[i] /\ h[i] \in Nat /\ h[i] < n
  BY <1>1, <1>2
<1> HIDE DEF g
<1>4. ASSUME NEW i \in 1 .. m + 1, NEW j \in 1 .. m + 1, i < j PROVE g[i] < g[j]
  <2>1. i \in 1 .. m
    BY <1>2, <1>4
  <2>2. CASE j = m + 1
    BY <1>3, <2>1, <2>2
  <2>3. CASE j \in 1 .. m
    BY <1>1, <1>3, <1>4, <2>1, <2>3
  <2> QED BY <1>2, <2>2, <2>3
<1>5. \A i \in 1 .. m + 1 : a[i] = q[g[i]]
  <2> SUFFICES ASSUME NEW i \in 1 .. m + 1 PROVE a[i] = q[g[i]]
    OBVIOUS
  <2>1. CASE i = m + 1
    BY <1>2, <1>3, <2>1
  <2>2. CASE i \in 1 .. m
    BY <1>1, <1>2, <1>3, <2>2
  <2> QED BY <1>2, <2>1, <2>2
<1>6. Subseq(a, q, I \intersect (1 .. n))
  <2>1. 1 .. Len(a) = 1 .. m + 1
    BY <1>2
  <2>2. /\ g \in [1 .. Len(a) -> (I \intersect (1 .. n)) \intersect (1 .. Len(q))]
        /\ \A i, j \in 1 .. Len(a) : i < j => g[i] < g[j]
        /\ \A i \in 1 .. Len(a) : a[i] = q[g[i]]
    BY <1>3, <1>4, <1>5, <2>1
  <2> QED BY <2>2, Zenon DEF Subseq
<1> QED BY <1>2, <1>6 DEF a

(* ...or left as it is.                                                     *)
LEMMA SubseqWiden ==
  ASSUME NEW S, NEW q \in Seq(S), NEW r, NEW I, NEW J, I \subseteq J, Subseq(r, q, I)
  PROVE  Subseq(r, q, J)
<1>1. PICK h \in [1 .. Len(r) -> I \intersect (1 .. Len(q))] :
        /\ \A i, j \in 1 .. Len(r) : i < j => h[i] < h[j]
        /\ \A i \in 1 .. Len(r) : r[i] = q[h[i]]
  BY DEF Subseq
<1>2. h \in [1 .. Len(r) -> J \intersect (1 .. Len(q))]
  BY <1>1
<1> QED BY <1>1, <1>2 DEF Subseq

(* Keep returns a subsequence of what it is given, of the positions it is   *)
(* told to keep.                                                            *)
LEMMA KeepMeans ==
  ASSUME NEW S, NEW q \in Seq(S), NEW I
  PROVE  Keep(q, I) \in Seq(S) /\ Subseq(Keep(q, I), q, I)
<1>1. PICK f : KeptUpTo(f, q, I, Len(q)) /\ Keep(q, I) = f[Len(q)]
  BY KeepRecursion
<1> DEFINE Good(n) == f[n] \in Seq(S) /\ Subseq(f[n], q, I \intersect (1 .. n))
           Bad == {n \in 0 .. Len(q) : ~Good(n)}
<1>2. f[0] = <<>> /\ \A n \in 1 .. Len(q) : f[n] = IF n \in I THEN Append(f[n - 1], q[n]) ELSE f[n - 1]
  <2>1. \A i \in 0 .. Len(q) : f[i] = IF i = 0 THEN <<>>
                                      ELSE IF i \in I THEN Append(f[i - 1], q[i]) ELSE f[i - 1]
    BY <1>1 DEF KeptUpTo
  <2>2. 0 \in 0 .. Len(q) /\ \A n \in 1 .. Len(q) : n \in 0 .. Len(q) /\ n # 0
    OBVIOUS
  <2> QED BY <2>1, <2>2
<1>3. Good(0)
  <2>1. <<>> \in Seq(S) /\ Len(<<>>) = 0 /\ 1 .. 0 = {}
    OBVIOUS
  <2>2. \A T : [x \in {} |-> 0] \in [{} -> T]
    OBVIOUS
  <2>3. Subseq(<<>>, q, I \intersect (1 .. 0))
    BY <2>1, <2>2 DEF Subseq
  <2> QED BY <1>2, <2>1, <2>3
<1>4. ASSUME NEW n \in 1 .. Len(q), Good(n - 1) PROVE Good(n)
  <2>1. CASE n \in I
    <3>1. f[n] = Append(f[n - 1], q[n])
      BY <1>2, <2>1
    <3>2. f[n - 1] \in Seq(S) /\ Subseq(f[n - 1], q, I \intersect (1 .. n - 1))
      BY <1>4
    <3>3. Append(f[n - 1], q[n]) \in Seq(S) /\ Subseq(Append(f[n - 1], q[n]), q, I \intersect (1 .. n))
      BY <2>1, <3>2, SubseqAppend
    <3> QED BY <3>1, <3>3
  <2>2. CASE n \notin I
    <3>1. f[n] = f[n - 1] /\ I \intersect (1 .. n - 1) \subseteq I \intersect (1 .. n)
      BY <1>2, <2>2
    <3> QED BY <1>4, <3>1, SubseqWiden
  <2> QED BY <2>1, <2>2
<1>5. Bad = {}
  <2> SUFFICES ASSUME Bad # {} PROVE FALSE
    OBVIOUS
  <2>1. Bad \subseteq Nat /\ Bad \subseteq 0 .. Len(q)
    OBVIOUS
  <2>2. PICK n \in Bad : \A i \in Bad : n <= i
    BY <2>1, NatMin
  <2>3. n \in 0 .. Len(q) /\ n # 0
    BY <1>3, <2>1, <2>2
  <2>4. n \in 1 .. Len(q) /\ n - 1 \in 0 .. Len(q) /\ ~(n <= n - 1)
    BY <2>3
  <2>5. n - 1 \notin Bad
    BY <2>2, <2>4
  <2>6. Good(n - 1) /\ ~Good(n)
    BY <2>2, <2>4, <2>5
  <2> HIDE DEF Good
  <2> QED BY <1>4, <2>4, <2>6
<1>6. Good(Len(q))
  <2>1. Len(q) \in 0 .. Len(q)
    OBVIOUS
  <2> HIDE DEF Good
  <2> QED BY <1>5, <2>1
<1>7. I \intersect (1 .. Len(q)) \subseteq I
  OBVIOUS
<1> QED BY <1>1, <1>6, <1>7, SubseqWiden

---------------------------------------------------------------------------
(* The inductive invariant *)

(* The events of a broadcaster are in the order of their broadcasts.        *)
Ordered(q) ==
  \A i, j \in 1 .. Len(q) : i < j /\ q[i].broadcaster = q[j].broadcaster => q[i].id < q[j].id

(* No unique event is behind one like it.                                   *)
Once(q) ==
  \A i, j \in 1 .. Len(q) :
    i < j /\ q[i].broadcaster = q[j].broadcaster /\ q[i].type = q[j].type => ~q[j].unique

Below(q, n) == \A i \in 1 .. Len(q) : q[i].id < n

(* What the queue has of e's broadcaster was broadcast before e.            *)
Older(q, e) == \A i \in 1 .. Len(q) : q[i].broadcaster = e.broadcaster => q[i].id < e.id

(* The queue has nothing like e.                                            *)
Lacks(q, e) == \A i \in 1 .. Len(q) : ~(q[i].broadcaster = e.broadcaster /\ q[i].type = e.type)

QueueOK(q) == Ordered(q) /\ Once(q) /\ Below(q, sent)

(* A broadcast serves each listener once, under the subscriptions that it   *)
(* found, and nobody overtakes it; what it has seen at a listener stays so  *)
(* until it inserts its event.                                              *)
SendOK(r) ==
  /\ r.event.id < sent
  /\ \A i, j \in 1 .. Len(r.todo) : r.todo[i] = r.todo[j] => i = j
  /\ \A i \in 1 .. Len(r.todo) : /\ Subscribes(r.event.broadcaster, r.todo[i], r.event.type)
                                 /\ Older(m_events[r.todo[i]], r.event)
  /\ r.peeked => r.todo # <<>> /\ Lacks(m_events[Head(r.todo)], r.event)

(* A broadcaster has one entry for each listener.                           *)
EntriesOnce(s) == \A i, j \in 1 .. Len(s) : s[i].listener = s[j].listener => i = j

IInv ==
  /\ TypeOK
  /\ \A b \in Broadcasters : EntriesOnce(m_listeners[b])
  /\ \A l \in Listeners : QueueOK(m_events[l])
  /\ \A r, s \in sending : r.event.broadcaster = s.event.broadcaster => r = s
  /\ \A r \in sending : SendOK(r)
  /\ NoLostWakeup

---------------------------------------------------------------------------
(* Queues *)

(* A queue that only loses events keeps what the invariant says of it.      *)
LEMMA QueueShrinks ==
  ASSUME NEW q \in Seq(Event), NEW r \in Seq(Event), NEW I, Subseq(r, q, I)
  PROVE  /\ Ordered(q) => Ordered(r)
         /\ Once(q) => Once(r)
         /\ \A n : Below(q, n) => Below(r, n)
         /\ \A e : Older(q, e) => Older(r, e)
         /\ \A e : Lacks(q, e) => Lacks(r, e)
         /\ \A i \in 1 .. Len(r) : \E j \in 1 .. Len(q) : r[i] = q[j]
<1>1. PICK h \in [1 .. Len(r) -> I \intersect (1 .. Len(q))] :
        /\ \A m, n \in 1 .. Len(r) : m < n => h[m] < h[n]
        /\ \A n \in 1 .. Len(r) : r[n] = q[h[n]]
  BY DEF Subseq
<1>2. \A n \in 1 .. Len(r) : h[n] \in 1 .. Len(q) /\ r[n] = q[h[n]]
  BY <1>1
<1>3. Ordered(q) => Ordered(r)
  BY <1>1, <1>2 DEF Ordered
<1>4. Once(q) => Once(r)
  <2> SUFFICES ASSUME Once(q), NEW i \in 1 .. Len(r), NEW j \in 1 .. Len(r), i < j,
                      r[i].broadcaster = r[j].broadcaster, r[i].type = r[j].type
               PROVE  ~r[j].unique
    BY DEF Once
  <2>1. /\ h[i] \in 1 .. Len(q) /\ h[j] \in 1 .. Len(q) /\ h[i] < h[j]
        /\ r[i] = q[h[i]] /\ r[j] = q[h[j]]
    BY <1>1, <1>2
  <2>2. ~q[h[j]].unique
    BY <2>1 DEF Once
  <2> QED BY <2>1, <2>2
<1>5. \A n : Below(q, n) => Below(r, n)
  BY <1>2 DEF Below
<1>6. \A e : Older(q, e) => Older(r, e)
  BY <1>2 DEF Older
<1>7. \A e : Lacks(q, e) => Lacks(r, e)
  BY <1>2 DEF Lacks
<1> QED BY <1>2, <1>3, <1>4, <1>5, <1>6, <1>7

(* A queue is a subsequence of itself.                                      *)
LEMMA SubseqRefl == ASSUME NEW S, NEW q \in Seq(S) PROVE Subseq(q, q, 1 .. Len(q))
<1> DEFINE h == [i \in 1 .. Len(q) |-> i]
<1>1. /\ h \in [1 .. Len(q) -> (1 .. Len(q)) \intersect (1 .. Len(q))]
      /\ \A m, n \in 1 .. Len(q) : m < n => h[m] < h[n]
      /\ \A n \in 1 .. Len(q) : q[n] = q[h[n]]
  OBVIOUS
<1> HIDE DEF h
<1> QED BY <1>1, Zenon DEF Subseq

(* FindNextEvent takes one event out.                                       *)
LEMMA RemoveAtMeans ==
  ASSUME NEW q \in Seq(Event), NEW i \in 1 .. Len(q)
  PROVE  RemoveAt(q, i) \in Seq(Event) /\ Subseq(RemoveAt(q, i), q, 1 .. Len(q))
<1> DEFINE r == RemoveAt(q, i)
           n == Len(q) - 1
           h == [j \in 1 .. n |-> IF j < i THEN j ELSE j + 1]
<1>1. n \in Nat /\ \A j \in 1 .. n : j \in 1 .. Len(q) /\ j + 1 \in 1 .. Len(q)
  OBVIOUS
<1>2. r = [j \in 1 .. n |-> IF j < i THEN q[j] ELSE q[j + 1]]
  BY DEF RemoveAt
<1>3. \A j \in 1 .. Len(q) : q[j] \in Event
  OBVIOUS
<1> HIDE DEF n, r
<1>4. r \in Seq(Event) /\ Len(r) = n
  BY <1>1, <1>2, <1>3
<1>5. /\ h \in [1 .. n -> (1 .. Len(q)) \intersect (1 .. Len(q))]
      /\ \A j, k \in 1 .. n : j < k => h[j] < h[k]
      /\ \A j \in 1 .. n : r[j] = q[h[j]]
  BY <1>1, <1>2
<1> HIDE DEF h
<1>6. Subseq(r, q, 1 .. Len(q))
  BY <1>4, <1>5, Zenon DEF Subseq
<1> QED BY <1>4, <1>6 DEF r

(* AddEvent: the newest event of its broadcaster, and the only one of its   *)
(* kind if it is unique.                                                    *)
LEMMA QueueGrows ==
  ASSUME NEW q \in Seq(Event), NEW e \in Event, NEW a, a = Append(q, e)
  PROVE  /\ a \in Seq(Event)
         /\ Ordered(q) /\ Older(q, e) => Ordered(a)
         /\ Once(q) /\ (e.unique => Lacks(q, e)) => Once(a)
         /\ \A n \in Nat : Below(q, n) /\ e.id < n => Below(a, n)
         /\ \A f \in Event : f.broadcaster # e.broadcaster =>
              (Older(q, f) => Older(a, f)) /\ (Lacks(q, f) => Lacks(a, f))
<1> DEFINE n == Len(q)
<1>1. /\ a \in Seq(Event) /\ n \in Nat /\ Len(a) = n + 1 /\ a[n + 1] = e
      /\ \A i \in 1 .. n : a[i] = q[i]
  BY AppendProperties
<1> HIDE DEF n
<1>2. \A i \in 1 .. n + 1 : i = n + 1 \/ i \in 1 .. n
  BY <1>1
<1>3. \A i \in 1 .. n + 1, j \in 1 .. n + 1 : i < j => i \in 1 .. n
  BY <1>1
<1>4. Ordered(q) /\ Older(q, e) => Ordered(a)
  BY <1>1, <1>2, <1>3 DEF Ordered, Older, n
<1>5. Once(q) /\ (e.unique => Lacks(q, e)) => Once(a)
  BY <1>1, <1>2, <1>3 DEF Once, Lacks, n
<1>6. \A k \in Nat : Below(q, k) /\ e.id < k => Below(a, k)
  BY <1>1, <1>2 DEF Below, n
<1>7. \A f \in Event : f.broadcaster # e.broadcaster =>
        (Older(q, f) => Older(a, f)) /\ (Lacks(q, f) => Lacks(a, f))
  BY <1>1, <1>2 DEF Older, Lacks, n
<1> QED BY <1>1, <1>4, <1>5, <1>6, <1>7

---------------------------------------------------------------------------
(* Subscriptions *)

(* A list that only loses entries has none twice.                           *)
LEMMA EntriesShrink ==
  ASSUME NEW s \in Seq(Subscription), NEW r \in Seq(Subscription), NEW I, Subseq(r, s, I)
  PROVE  /\ EntriesOnce(s) => EntriesOnce(r)
         /\ \A i \in 1 .. Len(r) : \E j \in I \intersect (1 .. Len(s)) : r[i] = s[j]
<1>1. PICK h \in [1 .. Len(r) -> I \intersect (1 .. Len(s))] :
        /\ \A m, n \in 1 .. Len(r) : m < n => h[m] < h[n]
        /\ \A n \in 1 .. Len(r) : r[n] = s[h[n]]
  BY DEF Subseq
<1>2. \A n \in 1 .. Len(r) : h[n] \in I \intersect (1 .. Len(s)) /\ r[n] = s[h[n]]
  BY <1>1
<1>3. ASSUME EntriesOnce(s), NEW i \in 1 .. Len(r), NEW j \in 1 .. Len(r), r[i].listener = r[j].listener
      PROVE  i = j
  <2>1. h[i] = h[j]
    BY <1>2, <1>3 DEF EntriesOnce
  <2>2. ~(i < j) /\ ~(j < i)
    BY <1>1, <1>2, <2>1
  <2> QED BY <2>2
<1> QED BY <1>2, <1>3 DEF EntriesOnce

(* What GetListeners and a broadcast see of the subscriptions.              *)
LEMMA ListenersMeans ==
  ASSUME TypeOK, NEW b \in Broadcasters, EntriesOnce(m_listeners[b])
  PROVE  /\ GetListeners(b) \in Seq(Subscription) /\ EntriesOnce(GetListeners(b))
         /\ \A bit : /\ Wants(b, bit) \in Seq(Subscription) /\ EntriesOnce(Wants(b, bit))
                     /\ \A i \in 1 .. Len(Wants(b, bit)) :
                          \E j \in 1 .. Len(GetListeners(b)) :
                            Wants(b, bit)[i] = GetListeners(b)[j] /\ bit \in GetListeners(b)[j].mask
<1> DEFINE s == m_listeners[b]
           I == {i \in 1 .. Len(s) : s[i].listener \in lAlive /\ s[i].mask # {}}
           g == GetListeners(b)
<1>1. s \in Seq(Subscription)
  BY DEF TypeOK
<1>2. g = Keep(s, I)
  BY DEF GetListeners
<1> HIDE DEF s, I, g
<1>3. g \in Seq(Subscription) /\ Subseq(g, s, I)
  BY <1>1, <1>2, KeepMeans
<1>4. EntriesOnce(g)
  BY <1>1, <1>3, EntriesShrink DEF s
<1>5. ASSUME NEW bit
      PROVE  /\ Wants(b, bit) \in Seq(Subscription) /\ EntriesOnce(Wants(b, bit))
             /\ \A i \in 1 .. Len(Wants(b, bit)) :
                  \E j \in 1 .. Len(g) : Wants(b, bit)[i] = g[j] /\ bit \in g[j].mask
  <2> DEFINE J == {i \in 1 .. Len(g) : bit \in g[i].mask}
             w == Wants(b, bit)
  <2>1. w = Keep(g, J)
    BY DEF Wants, g
  <2>2. \A j \in J \intersect (1 .. Len(g)) : j \in 1 .. Len(g) /\ bit \in g[j].mask
    OBVIOUS
  <2> HIDE DEF J, w
  <2>3. w \in Seq(Subscription) /\ Subseq(w, g, J)
    BY <1>3, <2>1, KeepMeans
  <2>4. EntriesOnce(w) /\ \A i \in 1 .. Len(w) : \E j \in J \intersect (1 .. Len(g)) : w[i] = g[j]
    BY <1>3, <1>4, <2>3, EntriesShrink
  <2> QED BY <2>2, <2>3, <2>4 DEF w
<1> QED BY <1>3, <1>4, <1>5 DEF g

(* AddListener has one entry per listener.                                  *)
LEMMA AddToMeans ==
  ASSUME NEW s \in Seq(Subscription), EntriesOnce(s), NEW l \in Listeners, NEW mask \in Masks
  PROVE  AddTo(s, l, mask) \in Seq(Subscription) /\ EntriesOnce(AddTo(s, l, mask))
<1> DEFINE n == Len(s)
           new == [listener |-> l, mask |-> mask]
<1>1. n \in Nat /\ new \in Subscription /\ \A i \in 1 .. n : s[i] \in Subscription
  <2>1. new \in Subscription
    BY DEF Subscription
  <2> QED BY <2>1
<1>2. CASE \E i \in 1 .. n : s[i].listener = l
  <2> DEFINE a == [i \in 1 .. n |-> IF s[i].listener = l THEN [s[i] EXCEPT !.mask = @ \union mask]
                                    ELSE s[i]]
  <2>1. AddTo(s, l, mask) = a
    BY <1>2 DEF AddTo
  <2>2. \A i \in 1 .. n : a[i] \in Subscription /\ a[i].listener = s[i].listener
    BY <1>1 DEF Subscription, Masks
  <2>3. a \in Seq(Subscription) /\ Len(a) = n
    BY <1>1, <2>2
  <2> HIDE DEF a
  <2>4. EntriesOnce(a)
    BY <1>1, <2>2, <2>3 DEF EntriesOnce
  <2> QED BY <2>1, <2>3, <2>4
<1>3. CASE ~\E i \in 1 .. n : s[i].listener = l
  <2> DEFINE a == Append(s, new)
  <2>1. AddTo(s, l, mask) = a
    BY <1>3 DEF AddTo
  <2>2. /\ a \in Seq(Subscription) /\ Len(a) = n + 1 /\ a[n + 1] = new
        /\ \A i \in 1 .. n : a[i] = s[i]
    BY <1>1, AppendProperties
  <2>3. new.listener = l
    OBVIOUS
  <2> HIDE DEF a, new, n
  <2>4. ASSUME NEW i \in 1 .. n + 1, NEW j \in 1 .. n + 1, a[i].listener = a[j].listener PROVE i = j
    <3>1. CASE i \in 1 .. n /\ j \in 1 .. n
      BY <2>2, <2>4, <3>1 DEF EntriesOnce, n
    <3>2. CASE i = n + 1 /\ j \in 1 .. n
      BY <1>3, <2>2, <2>3, <2>4, <3>2
    <3>3. CASE i \in 1 .. n /\ j = n + 1
      BY <1>3, <2>2, <2>3, <2>4, <3>3
    <3> QED BY <1>1, <3>1, <3>2, <3>3
  <2>5. EntriesOnce(a)
    BY <2>2, <2>4 DEF EntriesOnce
  <2> QED BY <2>1, <2>2, <2>5
<1> QED BY <1>2, <1>3

(* RemoveListener takes bits away and leaves the entry.                     *)
LEMMA RemoveFromMeans ==
  ASSUME NEW s \in Seq(Subscription), EntriesOnce(s), NEW l, NEW mask
  PROVE  RemoveFrom(s, l, mask) \in Seq(Subscription) /\ EntriesOnce(RemoveFrom(s, l, mask))
<1> DEFINE n == Len(s)
           a == RemoveFrom(s, l, mask)
<1>1. n \in Nat /\ \A i \in 1 .. n : s[i] \in Subscription
  OBVIOUS
<1>2. a = [i \in 1 .. n |-> IF s[i].listener = l THEN [s[i] EXCEPT !.mask = @ \ mask] ELSE s[i]]
  BY DEF RemoveFrom
<1> HIDE DEF a
<1>3. \A i \in 1 .. n : a[i] \in Subscription /\ a[i].listener = s[i].listener
  BY <1>1, <1>2 DEF Subscription, Masks
<1>4. a \in Seq(Subscription) /\ Len(a) = n
  BY <1>1, <1>2, <1>3
<1>5. EntriesOnce(a)
  BY <1>1, <1>3, <1>4 DEF EntriesOnce
<1> QED BY <1>4, <1>5 DEF a

---------------------------------------------------------------------------
(* Steps outside a broadcast *)

(* The queues lose events at most.                                          *)
Shrinks ==
  \A l \in Listeners : m_events'[l] \in Seq(Event) /\ \E I : Subseq(m_events'[l], m_events[l], I)

(* While a broadcast holds m_listeners_mutex nobody changes what it read.   *)
LockedStay ==
  \A b \in Broadcasters : ~MutexFree(b) =>
    /\ m_listeners'[b] = m_listeners[b]
    /\ m_hijacking_listeners'[b] = m_hijacking_listeners[b]
    /\ m_hijacking_masks'[b] = m_hijacking_masks[b]

(* A step that changes no queue.                                            *)
LEMMA QueuesStay == ASSUME TypeOK, m_events' = m_events PROVE Shrinks
<1>1. ASSUME NEW l \in Listeners
      PROVE  m_events'[l] \in Seq(Event) /\ \E I : Subseq(m_events'[l], m_events[l], I)
  <2>1. m_events[l] \in Seq(Event) /\ m_events'[l] = m_events[l]
    BY DEF TypeOK
  <2> QED BY <2>1, SubseqRefl
<1> QED BY <1>1 DEF Shrinks

(* The invariant of the queues survives the loss of events.                 *)
LEMMA QueuesShrink ==
  ASSUME IInv, Shrinks, sent' = sent
  PROVE  \A l \in Listeners : QueueOK(m_events[l])'
<1> SUFFICES ASSUME NEW l \in Listeners PROVE QueueOK(m_events[l])'
  OBVIOUS
<1>1. m_events[l] \in Seq(Event) /\ QueueOK(m_events[l])
  BY DEF IInv, TypeOK
<1>2. PICK I : m_events'[l] \in Seq(Event) /\ Subseq(m_events'[l], m_events[l], I)
  BY DEF Shrinks
<1>3. Ordered(m_events'[l]) /\ Once(m_events'[l]) /\ Below(m_events'[l], sent)
  BY <1>1, <1>2, QueueShrinks DEF QueueOK
<1> QED BY <1>3 DEF QueueOK

(* So does that of a broadcast in progress, whoever else takes a step.      *)
LEMMA SendOKStays ==
  ASSUME IInv, Shrinks, LockedStay, sent' \in Nat, sent' >= sent, NEW r \in sending
  PROVE  SendOK(r)'
<1>1. /\ SendOK(r) /\ r.event \in Event /\ r.todo \in Seq(Listeners) /\ sent \in Nat
      /\ r.event.broadcaster \in Broadcasters /\ r.event.id \in Nat
  BY DEF IInv, TypeOK, Sending, Event
<1>2. ~MutexFree(r.event.broadcaster)
  BY DEF MutexFree
<1>3. ASSUME NEW l \in Listeners
      PROVE  /\ Older(m_events[l], r.event) => Older(m_events'[l], r.event)
             /\ Lacks(m_events[l], r.event) => Lacks(m_events'[l], r.event)
  <2>1. m_events[l] \in Seq(Event)
    BY DEF IInv, TypeOK
  <2>2. PICK I : m_events'[l] \in Seq(Event) /\ Subseq(m_events'[l], m_events[l], I)
    BY DEF Shrinks
  <2> QED BY <2>1, <2>2, QueueShrinks
<1>4. ASSUME NEW l PROVE Subscribes(r.event.broadcaster, l, r.event.type)' <=>
                         Subscribes(r.event.broadcaster, l, r.event.type)
  BY <1>1, <1>2 DEF LockedStay, Subscribes, Hijacked, Top
<1>5. \A i \in 1 .. Len(r.todo) : r.todo[i] \in Listeners
  BY <1>1
<1>6. \A i \in 1 .. Len(r.todo) : /\ Subscribes(r.event.broadcaster, r.todo[i], r.event.type)'
                                  /\ Older(m_events'[r.todo[i]], r.event)
  BY <1>1, <1>3, <1>4, <1>5 DEF SendOK
<1>7. r.peeked => r.todo # <<>> /\ Lacks(m_events'[Head(r.todo)], r.event)
  <2>1. r.todo # <<>> => Head(r.todo) \in Listeners
    BY <1>1
  <2> QED BY <1>1, <1>3, <2>1 DEF SendOK
<1>8. r.event.id < sent' /\ \A i, j \in 1 .. Len(r.todo) : r.todo[i] = r.todo[j] => i = j
  BY <1>1 DEF SendOK
<1> QED BY <1>6, <1>7, <1>8 DEF SendOK

(* EventMatcher, with the broadcasters that are alive as a parameter.       *)
Matches(w, e, alive) ==
  /\ w.broadcaster # AnyBroadcaster => e.broadcaster = w.broadcaster /\ e.broadcaster \in alive
  /\ w.mask # {} => e.type \in w.mask

(* A thread that sleeps finds less and less.                                *)
LEMMA WakeupsStay ==
  ASSUME IInv, Shrinks, bAlive' \subseteq bAlive,
         \A w \in waiting' : w.at = "asleep" => w \in Wait /\ (w \in waiting \/ MatchesAt(w) = {})
  PROVE  NoLostWakeup'
<1> SUFFICES ASSUME NEW w \in waiting', w.at = "asleep" PROVE MatchesAt(w)' = {}
  BY DEF NoLostWakeup
<1>1. MatchesAt(w) = {} /\ w.listener \in Listeners
  BY DEF IInv, NoLostWakeup, Wait
<1> DEFINE q == m_events[w.listener]
           r == m_events'[w.listener]
<1>2. \A i \in 1 .. Len(q) : ~EventMatcher(w, q[i])
  BY <1>1 DEF MatchesAt
<1>3. q \in Seq(Event) /\ r \in Seq(Event) /\ \E I : Subseq(r, q, I)
  BY <1>1 DEF IInv, TypeOK, Shrinks
<1> HIDE DEF q, r
<1>4. \A i \in 1 .. Len(r) : \E j \in 1 .. Len(q) : r[i] = q[j]
  BY <1>3, QueueShrinks
<1>5. \A e : ~EventMatcher(w, e) => ~Matches(w, e, bAlive')
  BY DEF EventMatcher, Matches
<1>6. \A i \in 1 .. Len(r) : ~Matches(w, r[i], bAlive')
  BY <1>2, <1>4, <1>5
<1> QED BY <1>6 DEF MatchesAt, EventMatcher, Matches, r

(* The parts of the invariant, for a step outside a broadcast.              *)
LEMMA OutsideKeeps ==
  ASSUME IInv, TypeOK', sending' = sending, sent' = sent, Shrinks, LockedStay, bAlive' \subseteq bAlive,
         \A b \in Broadcasters : EntriesOnce(m_listeners'[b]),
         \A w \in waiting' : w.at = "asleep" => w \in Wait /\ (w \in waiting \/ MatchesAt(w) = {})
  PROVE  IInv'
<1>1. NoLostWakeup'
  BY WakeupsStay
<1>2. \A l \in Listeners : QueueOK(m_events[l])'
  BY QueuesShrink
<1>3. sent' \in Nat /\ sent' >= sent
  BY DEF IInv, TypeOK
<1>4. \A r \in sending : SendOK(r)'
  BY <1>3, SendOKStays
<1>5. (\A r, s \in sending : r.event.broadcaster = s.event.broadcaster => r = s)'
  BY DEF IInv
<1> QED BY <1>1, <1>2, <1>4, <1>5 DEF IInv

(* Threads that start to listen, stop to listen or wait change nothing that *)
(* broadcasts use.                                                          *)
LEMMA CallsKeep ==
  ASSUME IInv, UNCHANGED <<m_listeners, m_hijacking_listeners, m_hijacking_masks, bAlive, lAlive,
                           m_events, sending, sent>>,
         m_broadcasters' \in [Listeners -> SUBSET (Broadcasters \X Masks)],
         pending' \subseteq Change, waiting' \subseteq Wait,
         changes' \in Nat, waits' \in Nat,
         \A w \in waiting' : w.at = "asleep" => w \in waiting \/ MatchesAt(w) = {}
  PROVE  IInv'
<1>1. TypeOK'
  BY DEF IInv, TypeOK
<1>2. Shrinks
  BY QueuesStay DEF IInv
<1>3. LockedStay
  BY DEF LockedStay
<1>4. \A b \in Broadcasters : EntriesOnce(m_listeners'[b])
  BY DEF IInv
<1> QED BY <1>1, <1>2, <1>3, <1>4, OutsideKeeps

(* Start- and StopListeningForEvents, up to the broadcaster's mutex.        *)
LEMMA ListeningKeeps ==
  ASSUME IInv, NEW t \in Threads, NEW l \in Listeners, NEW b \in Broadcasters, NEW m \in Masks \ {{}},
         StartListeningForEvents(t, l, b, m) \/ StopListeningForEvents(t, l, b, m)
  PROVE  IInv'
<1>1. m_broadcasters \in [Listeners -> SUBSET (Broadcasters \X Masks)] /\ changes \in Nat /\ waits \in Nat
  BY DEF IInv, TypeOK
<1>2. /\ UNCHANGED <<m_listeners, m_hijacking_listeners, m_hijacking_masks, bAlive, lAlive, m_events,
                     sending, waiting, sent, waits>>
      /\ changes' = changes + 1
  BY DEF StartListeningForEvents, StopListeningForEvents, Changing
<1>3. m_broadcasters' \in [Listeners -> SUBSET (Broadcasters \X Masks)]
  <2>1. CASE StartListeningForEvents(t, l, b, m)
    BY <1>1, <2>1 DEF StartListeningForEvents
  <2>2. CASE StopListeningForEvents(t, l, b, m)
    BY <1>1, <2>2 DEF StopListeningForEvents
  <2> QED BY <2>1, <2>2
<1>4. \A o \in {"add", "remove"} :
        [thread |-> t, op |-> o, listener |-> l, broadcaster |-> b, mask |-> m] \in Change
  BY DEF Change
<1>5. pending' \subseteq Change
  BY <1>4 DEF StartListeningForEvents, StopListeningForEvents, IInv, TypeOK
<1>6. waiting' \subseteq Wait
  BY <1>2 DEF IInv, TypeOK
<1> QED BY <1>1, <1>2, <1>3, <1>5, <1>6, CallsKeep

(* GetEventInternal, but for the removal of the event.                      *)
LEMMA WaitingKeeps ==
  ASSUME IInv,
         \/ \E t \in Threads, l \in Listeners, b \in Broadcasters \union {AnyBroadcaster},
               m \in Masks, timed \in BOOLEAN : GetEvent(t, l, b, m, timed)
         \/ \E w \in waiting : WaitForEvent(w) \/ WaitTimedOut(w)
  PROVE  IInv'
<1>1. /\ UNCHANGED <<subscriptionVars, m_events, sending, pending, sent, changes>>
      /\ waits' \in {waits, waits + 1}
  BY DEF GetEvent, WaitForEvent, WaitTimedOut
<1>2. UNCHANGED <<m_listeners, m_hijacking_listeners, m_hijacking_masks, m_broadcasters, bAlive, lAlive>>
  BY <1>1 DEF subscriptionVars
<1>3. waiting' \subseteq Wait /\ \A w \in waiting' : w.at = "asleep" => w \in waiting \/ MatchesAt(w) = {}
  <2>1. waiting \subseteq Wait
    BY DEF IInv, TypeOK
  <2>2. ASSUME NEW t \in Threads, NEW l \in Listeners, NEW b \in Broadcasters \union {AnyBroadcaster},
               NEW m \in Masks, NEW timed \in BOOLEAN, GetEvent(t, l, b, m, timed)
        PROVE  waiting' \subseteq Wait /\ \A w \in waiting' : w.at = "asleep" => w \in waiting \/ MatchesAt(w) = {}
    <3> DEFINE v == [thread |-> t, listener |-> l, broadcaster |-> b, mask |-> m,
                     timed |-> timed, at |-> "look"]
    <3>1. v \in Wait /\ v.at = "look"
      BY DEF Wait
    <3>2. waiting' = waiting \union {v}
      BY <2>2 DEF GetEvent
    <3> HIDE DEF v
    <3> QED BY <2>1, <3>1, <3>2
  <2>3. ASSUME NEW v \in waiting, WaitForEvent(v)
        PROVE  waiting' \subseteq Wait /\ \A w \in waiting' : w.at = "asleep" => w \in waiting \/ MatchesAt(w) = {}
    <3> DEFINE u == [v EXCEPT !.at = "asleep"]
    <3>1. u \in Wait /\ u.listener = v.listener /\ u.broadcaster = v.broadcaster /\ u.mask = v.mask
      BY <2>1 DEF Wait
    <3>2. waiting' = (waiting \ {v}) \union {u} /\ MatchesAt(v) = {}
      BY <2>3 DEF WaitForEvent
    <3> HIDE DEF u
    <3>3. MatchesAt(u) = {}
      BY <3>1, <3>2 DEF MatchesAt, EventMatcher
    <3> QED BY <2>1, <3>1, <3>2, <3>3
  <2>4. ASSUME NEW v \in waiting, WaitTimedOut(v)
        PROVE  waiting' \subseteq Wait /\ \A w \in waiting' : w.at = "asleep" => w \in waiting \/ MatchesAt(w) = {}
    BY <2>1, <2>4 DEF WaitTimedOut
  <2> QED BY <2>2, <2>3, <2>4
<1>4. /\ m_broadcasters' \in [Listeners -> SUBSET (Broadcasters \X Masks)]
      /\ pending' \subseteq Change /\ changes' \in Nat /\ waits' \in Nat
  BY <1>1, <1>2 DEF IInv, TypeOK
<1> QED BY <1>1, <1>2, <1>3, <1>4, CallsKeep

(* Listener::FindNextEventInternal removes the event that it returns.       *)
LEMMA FindKeeps ==
  ASSUME IInv, NEW w \in waiting, FindNextEvent(w)
  PROVE  IInv' /\ Shrinks
<1>1. /\ UNCHANGED <<m_listeners, m_hijacking_listeners, m_hijacking_masks, m_broadcasters, bAlive,
                     lAlive, sending, pending, sent, changes, waits>>
      /\ waiting' = waiting \ {w}
  BY DEF FindNextEvent, subscriptionVars
<1>2. /\ w.listener \in Listeners /\ m_events \in [Listeners -> Seq(Event)] /\ waiting \subseteq Wait
  BY DEF IInv, TypeOK, Wait
<1>3. PICK i \in MatchesAt(w) : m_events' = [m_events EXCEPT ![w.listener] = RemoveAt(@, i)]
  BY DEF FindNextEvent
<1>4. i \in 1 .. Len(m_events[w.listener]) /\ m_events[w.listener] \in Seq(Event)
  BY <1>2, <1>3 DEF MatchesAt
<1>5. /\ RemoveAt(m_events[w.listener], i) \in Seq(Event)
      /\ \E I : Subseq(RemoveAt(m_events[w.listener], i), m_events[w.listener], I)
  BY <1>4, RemoveAtMeans
<1>6. m_events' \in [Listeners -> Seq(Event)]
  BY <1>2, <1>3, <1>5
<1>7. Shrinks
  <2> SUFFICES ASSUME NEW l \in Listeners PROVE \E I : Subseq(m_events'[l], m_events[l], I)
    BY <1>6 DEF Shrinks
  <2>1. CASE l = w.listener
    BY <1>2, <1>3, <1>5, <2>1
  <2>2. CASE l # w.listener
    <3>1. m_events'[l] = m_events[l] /\ m_events[l] \in Seq(Event)
      BY <1>2, <1>3, <2>2
    <3> QED BY <3>1, SubseqRefl
  <2> QED BY <2>1, <2>2
<1>8. TypeOK'
  BY <1>1, <1>2, <1>6 DEF IInv, TypeOK
<1>9. LockedStay
  BY <1>1 DEF LockedStay
<1>10. \A b \in Broadcasters : EntriesOnce(m_listeners'[b])
  BY <1>1 DEF IInv
<1> QED BY <1>1, <1>2, <1>7, <1>8, <1>9, <1>10, OutsideKeeps

(* The second half of a subscription change waits for m_listeners_mutex.    *)
LEMMA ChangesKeep ==
  ASSUME IInv, NEW c \in pending, AddListener(c) \/ RemoveListener(c)
  PROVE  IInv'
<1> DEFINE b == c.broadcaster
<1>1. /\ UNCHANGED <<m_hijacking_listeners, m_hijacking_masks, m_broadcasters, bAlive, lAlive, m_events,
                     sending, waiting, sent, changes, waits>>
      /\ pending' = pending \ {c} /\ MutexFree(b)
  BY DEF AddListener, RemoveListener
<1>2. /\ c \in Change /\ b \in Broadcasters /\ c.listener \in Listeners /\ c.mask \in Masks
      /\ m_listeners \in [Broadcasters -> Seq(Subscription)] /\ TypeOK
      /\ EntriesOnce(m_listeners[b]) /\ waiting \subseteq Wait
  BY DEF IInv, TypeOK, Change
<1>3. GetListeners(b) \in Seq(Subscription) /\ EntriesOnce(GetListeners(b))
  BY <1>2, ListenersMeans
<1>4. PICK s \in {AddTo(GetListeners(b), c.listener, c.mask), RemoveFrom(GetListeners(b), c.listener, c.mask)} :
        m_listeners' = [m_listeners EXCEPT ![b] = s]
  BY DEF AddListener, RemoveListener
<1> HIDE DEF b
<1>5. s \in Seq(Subscription) /\ EntriesOnce(s)
  BY <1>2, <1>3, <1>4, AddToMeans, RemoveFromMeans
<1>6. /\ m_listeners' \in [Broadcasters -> Seq(Subscription)] /\ m_listeners'[b] = s
      /\ \A a \in Broadcasters \ {b} : m_listeners'[a] = m_listeners[a]
  BY <1>2, <1>4, <1>5
<1>7. TypeOK'
  BY <1>1, <1>2, <1>6 DEF TypeOK
<1>8. LockedStay
  BY <1>1, <1>6 DEF LockedStay
<1>9. \A a \in Broadcasters : EntriesOnce(m_listeners'[a])
  BY <1>5, <1>6 DEF IInv
<1>10. Shrinks
  BY <1>1, <1>2, QueuesStay
<1> QED BY <1>1, <1>2, <1>7, <1>8, <1>9, <1>10, OutsideKeeps

(* Hijackers come and go under the mutex, each with its mask.               *)
LEMMA HijacksKeep ==
  ASSUME IInv, NEW b \in Broadcasters,
         \/ \E l \in Listeners, m \in Masks \ {{}} : HijackBroadcaster(b, l, m)
         \/ RestoreBroadcaster(b)
  PROVE  IInv'
<1>1. /\ UNCHANGED <<m_listeners, m_broadcasters, bAlive, lAlive, m_events, sending, pending, waiting,
                     sent, waits>>
      /\ MutexFree(b) /\ changes' = changes + 1
  BY DEF HijackBroadcaster, RestoreBroadcaster, Changing
<1>2. /\ m_hijacking_listeners[b] \in Seq(Listeners) /\ m_hijacking_masks[b] \in Seq(Masks)
      /\ Len(m_hijacking_masks[b]) = Len(m_hijacking_listeners[b])
      /\ TypeOK /\ waiting \subseteq Wait
  BY DEF IInv, TypeOK
<1> DEFINE Stacked(p, m) ==
             /\ p \in Seq(Listeners) /\ m \in Seq(Masks) /\ Len(m) = Len(p)
             /\ m_hijacking_listeners' = [m_hijacking_listeners EXCEPT ![b] = p]
             /\ m_hijacking_masks' = [m_hijacking_masks EXCEPT ![b] = m]
<1>3. \E p, m : Stacked(p, m)
  <2>1. ASSUME NEW l \in Listeners, NEW m \in Masks \ {{}}, HijackBroadcaster(b, l, m)
        PROVE  \E p, q : Stacked(p, q)
    <3>1. /\ Append(m_hijacking_listeners[b], l) \in Seq(Listeners)
          /\ Append(m_hijacking_masks[b], m) \in Seq(Masks)
          /\ Len(Append(m_hijacking_masks[b], m)) = Len(Append(m_hijacking_listeners[b], l))
      BY <1>2
    <3> QED BY <2>1, <3>1 DEF HijackBroadcaster
  <2>2. CASE RestoreBroadcaster(b)
    <3>1. /\ m_hijacking_listeners' = [m_hijacking_listeners EXCEPT ![b] = Front1(m_hijacking_listeners[b])]
          /\ m_hijacking_masks' = [m_hijacking_masks EXCEPT ![b] = Front1(m_hijacking_masks[b])]
          /\ m_hijacking_listeners[b] # <<>>
      BY <2>2 DEF RestoreBroadcaster
    <3>2. ASSUME NEW S, NEW q \in Seq(S), Len(q) > 0
          PROVE  Front1(q) \in Seq(S) /\ Len(Front1(q)) = Len(q) - 1
      <4> DEFINE n == Len(q) - 1
      <4>1. n \in Nat /\ n \in Int /\ 1 \in Int /\ \A i \in 1 .. n : q[i] \in S
        BY <3>2
      <4> HIDE DEF n
      <4>2. /\ SubSeq(q, 1, n) \in Seq(S)
            /\ Len(SubSeq(q, 1, n)) = IF 1 <= n THEN n - 1 + 1 ELSE 0
        BY <4>1, SubSeqProperties
      <4>3. Len(SubSeq(q, 1, n)) = n
        BY <4>1, <4>2
      <4> QED BY <4>2, <4>3 DEF Front1, n
    <3>3. Len(m_hijacking_listeners[b]) > 0
      BY <1>2, <3>1
    <3>4. /\ Front1(m_hijacking_listeners[b]) \in Seq(Listeners) /\ Front1(m_hijacking_masks[b]) \in Seq(Masks)
          /\ Len(Front1(m_hijacking_masks[b])) = Len(Front1(m_hijacking_listeners[b]))
      BY <1>2, <3>2, <3>3
    <3> QED BY <3>1, <3>4
  <2> QED BY <2>1, <2>2
<1>4. PICK p, m : Stacked(p, m)
  BY <1>3
<1>5. TypeOK'
  BY <1>1, <1>2, <1>4 DEF TypeOK
<1>6. LockedStay
  BY <1>1, <1>2, <1>4 DEF LockedStay, TypeOK
<1>7. \A a \in Broadcasters : EntriesOnce(m_listeners'[a])
  BY <1>1 DEF IInv
<1>8. Shrinks
  BY <1>1, <1>2, QueuesStay
<1> QED BY <1>1, <1>2, <1>5, <1>6, <1>7, <1>8, OutsideKeeps

(* Nothing is a subsequence of anything.                                    *)
LEMMA SubseqEmpty == ASSUME NEW q PROVE \E I : Subseq(<<>>, q, I)
<1>1. Len(<<>>) = 0 /\ 1 .. 0 = {} /\ \A T : [x \in {} |-> 0] \in [{} -> T]
  OBVIOUS
<1> QED BY <1>1 DEF Subseq

(* Listener::Clear waits for the broadcasts of every broadcaster that the   *)
(* listener knows.                                                          *)
LEMMA ClearKeeps ==
  ASSUME IInv, NEW l \in Listeners, Clear(l) \/ DestroyListener(l)
  PROVE  IInv' /\ Shrinks
<1> DEFINE known == {b \in bAlive : Entries(l, b) # {}}
           mask(b) == UNION {p[2] : p \in Entries(l, b)}
           kept(b) == RemoveFrom(GetListeners(b), l, mask(b))
<1>1. /\ UNCHANGED <<m_hijacking_listeners, m_hijacking_masks, bAlive, sending, pending, waiting, sent, waits>>
      /\ lAlive' \subseteq lAlive /\ changes' = changes + 1
      /\ \A b \in known : MutexFree(b)
      /\ m_listeners' = [b \in Broadcasters |-> IF b \in known THEN kept(b) ELSE m_listeners[b]]
      /\ m_broadcasters' = [m_broadcasters EXCEPT ![l] = {}]
      /\ m_events' = [m_events EXCEPT ![l] = <<>>]
  BY DEF Clear, DestroyListener, ClearListener, Changing
<1>2. /\ m_listeners \in [Broadcasters -> Seq(Subscription)] /\ TypeOK /\ waiting \subseteq Wait
      /\ m_events \in [Listeners -> Seq(Event)]
      /\ m_broadcasters \in [Listeners -> SUBSET (Broadcasters \X Masks)]
      /\ \A b \in Broadcasters : EntriesOnce(m_listeners[b])
  BY DEF IInv, TypeOK
<1>3. ASSUME NEW b \in Broadcasters
      PROVE  kept(b) \in Seq(Subscription) /\ EntriesOnce(kept(b))
  <2>1. GetListeners(b) \in Seq(Subscription) /\ EntriesOnce(GetListeners(b))
    BY <1>2, ListenersMeans
  <2> QED BY <2>1, RemoveFromMeans
<1> HIDE DEF known, mask, kept
<1>4. \A b \in Broadcasters : /\ m_listeners'[b] \in Seq(Subscription) /\ EntriesOnce(m_listeners'[b])
                              /\ b \notin known => m_listeners'[b] = m_listeners[b]
  BY <1>1, <1>2, <1>3
<1>5. m_listeners' \in [Broadcasters -> Seq(Subscription)]
  BY <1>1, <1>2, <1>3
<1>6. m_events' \in [Listeners -> Seq(Event)]
  BY <1>1, <1>2
<1>7. m_broadcasters' \in [Listeners -> SUBSET (Broadcasters \X Masks)]
  BY <1>1, <1>2
<1>8. TypeOK'
  BY <1>1, <1>2, <1>5, <1>6, <1>7 DEF TypeOK
<1>9. LockedStay
  BY <1>1, <1>4 DEF LockedStay
<1>10. Shrinks
  <2> SUFFICES ASSUME NEW k \in Listeners PROVE \E I : Subseq(m_events'[k], m_events[k], I)
    BY <1>6 DEF Shrinks
  <2>1. CASE k = l
    <3>1. m_events'[k] = <<>>
      BY <1>1, <1>2, <2>1
    <3> QED BY <3>1, SubseqEmpty
  <2>2. CASE k # l
    <3>1. m_events'[k] = m_events[k] /\ m_events[k] \in Seq(Event)
      BY <1>1, <1>2, <2>2
    <3> QED BY <3>1, SubseqRefl
  <2> QED BY <2>1, <2>2
<1> QED BY <1>1, <1>2, <1>4, <1>8, <1>9, <1>10, OutsideKeeps

(* ~Broadcaster, for every listener that is still subscribed.               *)
LEMMA DestroyKeeps ==
  ASSUME IInv, NEW b \in Broadcasters, DestroyBroadcaster(b)
  PROVE  IInv' /\ Shrinks
<1> DEFINE subscribers == {GetListeners(b)[i].listener : i \in 1 .. Len(GetListeners(b))}
           rest(l) == Keep(m_events[l], {i \in 1 .. Len(m_events[l]) : m_events[l][i].broadcaster # b})
<1>1. /\ UNCHANGED <<lAlive, sending, pending, waiting, sent, waits>>
      /\ bAlive' = bAlive \ {b} /\ changes' = changes + 1 /\ MutexFree(b)
      /\ m_broadcasters' = [l \in Listeners |-> IF l \in subscribers THEN m_broadcasters[l] \ Entries(l, b)
                                                ELSE m_broadcasters[l]]
      /\ m_events' = [l \in Listeners |-> IF l \in subscribers THEN rest(l) ELSE m_events[l]]
      /\ m_listeners' = [m_listeners EXCEPT ![b] = <<>>]
      /\ m_hijacking_listeners' = [m_hijacking_listeners EXCEPT ![b] = <<>>]
      /\ m_hijacking_masks' = [m_hijacking_masks EXCEPT ![b] = <<>>]
  BY DEF DestroyBroadcaster, Changing
<1> HIDE DEF subscribers
<1>2. /\ TypeOK /\ waiting \subseteq Wait /\ m_events \in [Listeners -> Seq(Event)]
      /\ m_broadcasters \in [Listeners -> SUBSET (Broadcasters \X Masks)]
      /\ m_listeners \in [Broadcasters -> Seq(Subscription)]
      /\ \A a \in Broadcasters : EntriesOnce(m_listeners[a])
  BY DEF IInv, TypeOK
<1>3. ASSUME NEW l \in Listeners
      PROVE  rest(l) \in Seq(Event) /\ \E I : Subseq(rest(l), m_events[l], I)
  <2>1. m_events[l] \in Seq(Event)
    BY <1>2
  <2> QED BY <2>1, KeepMeans
<1> HIDE DEF rest
<1>4. m_events' \in [Listeners -> Seq(Event)]
  BY <1>1, <1>2, <1>3
<1>5. Shrinks
  <2> SUFFICES ASSUME NEW l \in Listeners PROVE \E I : Subseq(m_events'[l], m_events[l], I)
    BY <1>4 DEF Shrinks
  <2>1. CASE l \in subscribers
    BY <1>1, <1>3, <2>1
  <2>2. CASE l \notin subscribers
    <3>1. m_events'[l] = m_events[l] /\ m_events[l] \in Seq(Event)
      BY <1>1, <1>2, <2>2
    <3> QED BY <3>1, SubseqRefl
  <2> QED BY <2>1, <2>2
<1>6. \A S : <<>> \in Seq(S)
  OBVIOUS
<1>7. /\ m_listeners' \in [Broadcasters -> Seq(Subscription)] /\ m_listeners'[b] = <<>>
      /\ \A a \in Broadcasters \ {b} : /\ m_listeners'[a] = m_listeners[a]
                                       /\ m_hijacking_listeners'[a] = m_hijacking_listeners[a]
                                       /\ m_hijacking_masks'[a] = m_hijacking_masks[a]
  BY <1>1, <1>2, <1>6 DEF TypeOK
<1>8. /\ m_hijacking_listeners' \in [Broadcasters -> Seq(Listeners)]
      /\ m_hijacking_masks' \in [Broadcasters -> Seq(Masks)]
      /\ \A a \in Broadcasters : Len(m_hijacking_masks'[a]) = Len(m_hijacking_listeners'[a])
  BY <1>1, <1>2, <1>6 DEF TypeOK
<1>9. m_broadcasters' \in [Listeners -> SUBSET (Broadcasters \X Masks)]
  BY <1>1, <1>2
<1>10. TypeOK'
  BY <1>1, <1>2, <1>4, <1>7, <1>8, <1>9 DEF TypeOK
<1>11. LockedStay
  BY <1>1, <1>7 DEF LockedStay
<1>12. \A a \in Broadcasters : EntriesOnce(m_listeners'[a])
  <2>1. EntriesOnce(<<>>)
    BY DEF EntriesOnce
  <2> QED BY <1>2, <1>7, <2>1
<1> QED BY <1>1, <1>2, <1>5, <1>10, <1>11, <1>12, OutsideKeeps

---------------------------------------------------------------------------
(* Broadcasts *)

(* The listeners that are left after the first, which is not among them.    *)
LEMMA TailMeans ==
  ASSUME NEW q \in Seq(Listeners), q # <<>>
  PROVE  /\ Head(q) \in Listeners /\ Tail(q) \in Seq(Listeners) /\ Head(q) = q[1] /\ 1 \in 1 .. Len(q)
         /\ \A i \in 1 .. Len(Tail(q)) : i + 1 \in 1 .. Len(q) /\ Tail(q)[i] = q[i + 1]
         /\ (\A i, j \in 1 .. Len(q) : q[i] = q[j] => i = j) =>
              /\ \A i, j \in 1 .. Len(Tail(q)) : Tail(q)[i] = Tail(q)[j] => i = j
              /\ \A i \in 1 .. Len(Tail(q)) : Tail(q)[i] # Head(q)
<1>1. /\ Head(q) \in Listeners /\ Tail(q) \in Seq(Listeners) /\ Head(q) = q[1] /\ Len(q) \in Nat
      /\ Len(Tail(q)) = Len(q) - 1 /\ Len(q) # 0
      /\ \A i \in 1 .. Len(Tail(q)) : Tail(q)[i] = q[i + 1]
  BY HeadTailProperties
<1>2. 1 \in 1 .. Len(q) /\ \A i \in 1 .. Len(Tail(q)) : i + 1 \in 1 .. Len(q) /\ i + 1 # 1 /\ i \in Nat
  BY <1>1
<1>3. ASSUME \A i, j \in 1 .. Len(q) : q[i] = q[j] => i = j,
             NEW i \in 1 .. Len(Tail(q)), NEW j \in 1 .. Len(Tail(q)), Tail(q)[i] = Tail(q)[j]
      PROVE  i = j
  <2>1. i + 1 = j + 1
    BY <1>1, <1>2, <1>3
  <2> QED BY <1>2, <2>1
<1>4. ASSUME \A i, j \in 1 .. Len(q) : q[i] = q[j] => i = j, NEW i \in 1 .. Len(Tail(q))
      PROVE  Tail(q)[i] # Head(q)
  BY <1>1, <1>2, <1>4
<1> QED BY <1>1, <1>2, <1>3, <1>4

(* Subscribes, with the broadcaster's lists as parameters.                  *)
SubscribedIn(list, stack, masks, l, bit) ==
  IF stack # <<>> /\ bit \in Top(masks)
    THEN l = Top(stack)
    ELSE \E i \in 1 .. Len(list) : list[i].listener = l /\ bit \in list[i].mask

(* PrivateBroadcastEvent picks the listeners: each once, and what they have *)
(* of the broadcaster is older.                                             *)
LEMMA BroadcastKeeps ==
  ASSUME IInv, NEW t \in Threads, NEW b \in Broadcasters, NEW bit \in Bits, NEW u \in BOOLEAN,
         Broadcast(t, b, bit, u)
  PROVE  IInv'
<1> DEFINE e == [id |-> sent, broadcaster |-> b, type |-> bit, unique |-> u]
           w == Wants(b, bit)
           todo == IF Hijacked(b, bit) THEN <<Top(m_hijacking_listeners[b])>>
                   ELSE [i \in 1 .. Len(w) |-> w[i].listener]
           r == [thread |-> t, event |-> e, todo |-> todo, peeked |-> FALSE]
<1>1. /\ UNCHANGED <<m_hijacking_listeners, m_hijacking_masks, m_broadcasters, bAlive, lAlive, m_events,
                     pending, waiting, changes, waits>>
      /\ MutexFree(b) /\ sent' = sent + 1 /\ sending' = sending \union {r}
      /\ m_listeners' = [m_listeners EXCEPT ![b] = IF Hijacked(b, bit) THEN m_listeners[b]
                                                   ELSE GetListeners(b)]
  BY DEF Broadcast
<1>2. /\ TypeOK /\ sent \in Nat /\ m_listeners \in [Broadcasters -> Seq(Subscription)]
      /\ EntriesOnce(m_listeners[b]) /\ m_hijacking_listeners[b] \in Seq(Listeners)
      /\ waiting \subseteq Wait
  BY DEF IInv, TypeOK
<1>3. /\ GetListeners(b) \in Seq(Subscription) /\ EntriesOnce(GetListeners(b))
      /\ w \in Seq(Subscription) /\ EntriesOnce(w)
      /\ \A i \in 1 .. Len(w) : \E j \in 1 .. Len(GetListeners(b)) :
           w[i] = GetListeners(b)[j] /\ bit \in GetListeners(b)[j].mask
  BY <1>2, ListenersMeans
<1>4. e \in Event /\ e.id = sent /\ e.broadcaster = b /\ e.type = bit
  BY <1>2 DEF Event
<1>5. /\ m_listeners' \in [Broadcasters -> Seq(Subscription)]
      /\ \A a \in Broadcasters : EntriesOnce(m_listeners'[a])
      /\ \A a \in Broadcasters \ {b} : m_listeners'[a] = m_listeners[a]
      /\ ~Hijacked(b, bit) => m_listeners'[b] = GetListeners(b)
  BY <1>1, <1>2, <1>3 DEF IInv
<1> DEFINE Subs(l) == SubscribedIn(m_listeners'[b], m_hijacking_listeners[b], m_hijacking_masks[b], l, bit)
<1>6. /\ todo \in Seq(Listeners) /\ \A i, j \in 1 .. Len(todo) : todo[i] = todo[j] => i = j
      /\ \A i \in 1 .. Len(todo) : Subs(todo[i])
  <2>1. CASE Hijacked(b, bit)
    <3>1. Top(m_hijacking_listeners[b]) \in Listeners
      BY <1>2, <2>1 DEF Hijacked, Top
    <3>2. \A i \in 1 .. Len(todo) : i = 1 /\ todo[i] = Top(m_hijacking_listeners[b])
      BY <2>1
    <3> QED BY <2>1, <3>1, <3>2 DEF SubscribedIn, Hijacked
  <2>2. CASE ~Hijacked(b, bit)
    <3>1. todo = [i \in 1 .. Len(w) |-> w[i].listener]
      BY <2>2
    <3>2. \A i \in 1 .. Len(w) : w[i].listener \in Listeners
      <4> SUFFICES ASSUME NEW i \in 1 .. Len(w) PROVE w[i].listener \in Listeners
        OBVIOUS
      <4>1. w[i] \in Subscription
        BY <1>3
      <4> QED BY <4>1 DEF Subscription
    <3> HIDE DEF w, todo
    <3>3. todo \in Seq(Listeners) /\ Len(todo) = Len(w)
      BY <1>3, <3>1, <3>2
    <3>4. \A i, j \in 1 .. Len(todo) : todo[i] = todo[j] => i = j
      BY <1>3, <3>1, <3>3 DEF EntriesOnce
    <3>5. ASSUME NEW i \in 1 .. Len(todo) PROVE Subs(todo[i])
      <4>1. PICK j \in 1 .. Len(GetListeners(b)) :
              w[i] = GetListeners(b)[j] /\ bit \in GetListeners(b)[j].mask
        BY <1>3, <3>3
      <4>2. todo[i] = w[i].listener
        BY <3>1, <3>3
      <4>3. m_listeners'[b] = GetListeners(b)
        BY <1>5, <2>2
      <4> QED BY <2>2, <4>1, <4>2, <4>3 DEF SubscribedIn, Hijacked
    <3> QED BY <3>3, <3>4, <3>5
  <2> QED BY <2>1, <2>2
<1> HIDE DEF e, w, todo
<1>7. r \in Sending /\ r.event = e /\ r.todo = todo /\ r.peeked = FALSE
  BY <1>4, <1>6 DEF Sending
<1> HIDE DEF r
<1>8. PICK s \in Sending : /\ sending' = sending \union {s} /\ s.event.id = sent
                            /\ s.event.broadcaster = b /\ s.event.type = bit /\ s.peeked = FALSE
                            /\ s.todo \in Seq(Listeners)
                            /\ \A i, j \in 1 .. Len(s.todo) : s.todo[i] = s.todo[j] => i = j
                            /\ \A k \in 1 .. Len(s.todo) : Subs(s.todo[k])
  BY <1>1, <1>4, <1>6, <1>7
<1>9. TypeOK'
  BY <1>1, <1>2, <1>5, <1>8 DEF TypeOK
<1>10. Shrinks /\ LockedStay
  BY <1>1, <1>2, <1>5, QueuesStay DEF LockedStay
<1>11. \A l \in Listeners : QueueOK(m_events[l])'
  <2> SUFFICES ASSUME NEW l \in Listeners PROVE QueueOK(m_events[l])'
    OBVIOUS
  <2>1. QueueOK(m_events[l]) /\ m_events[l] \in Seq(Event) /\ m_events'[l] = m_events[l]
    BY <1>1, <1>2 DEF IInv, TypeOK
  <2>2. ASSUME NEW i \in 1 .. Len(m_events[l]) PROVE m_events[l][i].id \in Nat
    <3>1. m_events[l][i] \in Event
      BY <2>1
    <3> QED BY <3>1 DEF Event
  <2>3. Below(m_events[l], sent + 1)
    BY <1>2, <2>1, <2>2 DEF QueueOK, Below
  <2> QED BY <1>1, <2>1, <2>3 DEF QueueOK
<1>12. \A x \in sending : SendOK(x)'
  <2>1. sent' \in Nat /\ sent' >= sent
    BY <1>1, <1>2
  <2> QED BY <1>10, <2>1, SendOKStays
<1>13. SendOK(s)'
  <2>1. \A i \in 1 .. Len(s.todo) : Older(m_events'[s.todo[i]], s.event)
    <3> SUFFICES ASSUME NEW i \in 1 .. Len(s.todo) PROVE Older(m_events'[s.todo[i]], s.event)
      OBVIOUS
    <3>1. s.todo[i] \in Listeners
      BY <1>8
    <3>2. Below(m_events[s.todo[i]], sent)
      BY <3>1 DEF IInv, QueueOK
    <3> QED BY <1>1, <1>8, <3>2 DEF Older, Below
  <2>2. s.event.id < sent'
    BY <1>1, <1>2, <1>8
  <2>3. \A i \in 1 .. Len(s.todo) : Subscribes(s.event.broadcaster, s.todo[i], s.event.type)'
    BY <1>1, <1>8 DEF Subscribes, SubscribedIn, Hijacked
  <2> HIDE DEF Subs
  <2> QED BY <1>8, <2>1, <2>2, <2>3 DEF SendOK
<1>14. \A x \in sending : x.event.broadcaster # b
  BY <1>1 DEF MutexFree
<1>15. (\A x, y \in sending : x.event.broadcaster = y.event.broadcaster => x = y)'
  BY <1>14, <1>8 DEF IInv
<1>16. NoLostWakeup'
  <2>1. bAlive' \subseteq bAlive
    BY <1>1
  <2>2. \A x \in waiting' : x.at = "asleep" => x \in Wait /\ (x \in waiting \/ MatchesAt(x) = {})
    BY <1>1, <1>2
  <2> QED BY <1>10, <2>1, <2>2, WakeupsStay
<1>17. \A x \in sending' : SendOK(x)'
  BY <1>12, <1>13, <1>8
<1> QED BY <1>5, <1>9, <1>11, <1>15, <1>16, <1>17 DEF IInv

(* The look of a unique event, and the end of a broadcast.                  *)
LEMMA PeekKeeps ==
  ASSUME IInv, NEW r \in sending, PeekUnique(r) \/ BroadcastDone(r)
  PROVE  IInv'
<1>1. UNCHANGED <<m_listeners, m_hijacking_listeners, m_hijacking_masks, m_broadcasters, bAlive, lAlive,
                  m_events, pending, waiting, sent, changes, waits>>
  BY DEF PeekUnique, BroadcastDone, subscriptionVars
<1>2. /\ r \in Sending /\ r.event \in Event /\ r.todo \in Seq(Listeners) /\ SendOK(r) /\ TypeOK
      /\ sending \subseteq Sending /\ r.peeked \in BOOLEAN /\ waiting \subseteq Wait
      /\ \A x \in sending : SendOK(x)
      /\ \A x \in sending : x.event.broadcaster = r.event.broadcaster => x = r
  BY DEF IInv, TypeOK, Sending
<1>3. \/ sending' = sending \ {r}
      \/ \E s \in Sending : /\ sending' = (sending \ {r}) \union {s}
                            /\ s.event = r.event /\ SendOK(s)
  <2>1. CASE BroadcastDone(r)
    BY <2>1 DEF BroadcastDone
  <2>2. CASE PeekUnique(r)
    <3> DEFINE l == Head(r.todo)
               s1 == [r EXCEPT !.todo = Tail(@)]
               s2 == [r EXCEPT !.peeked = TRUE]
    <3>1. /\ r.todo # <<>> /\ ~r.peeked
          /\ \/ sending' = (sending \ {r}) \union {s1}
             \/ /\ sending' = (sending \ {r}) \union {s2}
                /\ ~PeekAtNextEventForBroadcasterWithType(l, r.event.broadcaster, r.event.type)
      BY <2>2 DEF PeekUnique
    <3>2. /\ l \in Listeners /\ Tail(r.todo) \in Seq(Listeners)
          /\ \A i \in 1 .. Len(Tail(r.todo)) : i + 1 \in 1 .. Len(r.todo) /\ Tail(r.todo)[i] = r.todo[i + 1]
          /\ \A i, j \in 1 .. Len(Tail(r.todo)) : Tail(r.todo)[i] = Tail(r.todo)[j] => i = j
      BY <1>2, <3>1, TailMeans DEF SendOK
    <3>3. s1 \in Sending /\ s1.event = r.event /\ s1.todo = Tail(r.todo) /\ s1.peeked = r.peeked
      BY <1>2, <3>2 DEF Sending
    <3>4. s2 \in Sending /\ s2.event = r.event /\ s2.todo = r.todo
      BY <1>2 DEF Sending
    <3> HIDE DEF s1, s2
    <3>5. SendOK(s1)
      BY <1>2, <3>1, <3>2, <3>3 DEF SendOK
    <3>6. ~PeekAtNextEventForBroadcasterWithType(l, r.event.broadcaster, r.event.type)
            => Lacks(m_events[l], r.event)
      BY DEF PeekAtNextEventForBroadcasterWithType, Lacks
    <3>7. ~PeekAtNextEventForBroadcasterWithType(l, r.event.broadcaster, r.event.type) => SendOK(s2)
      BY <1>2, <3>1, <3>4, <3>6 DEF SendOK
    <3> QED BY <3>1, <3>3, <3>4, <3>5, <3>7
  <2> QED BY <2>1, <2>2
<1>4. sending' \subseteq Sending /\ \A x \in sending' : SendOK(x)
  BY <1>2, <1>3
<1>5. \A x, y \in sending' : x.event.broadcaster = y.event.broadcaster => x = y
  BY <1>2, <1>3 DEF IInv
<1>6. ASSUME NEW x \in sending' PROVE SendOK(x)'
  <2>1. SendOK(x)
    BY <1>4
  <2> QED BY <1>1, <2>1 DEF SendOK, Subscribes, Hijacked
<1>7. TypeOK'
  BY <1>1, <1>2, <1>4 DEF TypeOK
<1>8. \A b \in Broadcasters : EntriesOnce(m_listeners'[b])
  BY <1>1 DEF IInv
<1>9. (\A l \in Listeners : QueueOK(m_events[l]))'
  BY <1>1 DEF IInv, QueueOK
<1>10. NoLostWakeup'
  <2>1. \A x \in waiting' : x.at = "asleep" => x \in Wait /\ (x \in waiting \/ MatchesAt(x) = {})
    BY <1>1, <1>2
  <2> QED BY <1>1, <1>2, <2>1, QueuesStay, WakeupsStay
<1> QED BY <1>5, <1>6, <1>7, <1>8, <1>9, <1>10 DEF IInv

(* Listener::AddEvent: the event is behind what is older, nobody who waits  *)
(* sleeps on, and the other broadcasts are of other broadcasters.           *)
LEMMA AddEventKeeps ==
  ASSUME IInv, NEW r \in sending, AddEvent(r)
  PROVE  IInv'
<1>1. PICK l : l = Head(r.todo)
  OBVIOUS
<1> DEFINE e == r.event
           q == m_events[l]
           s == [r EXCEPT !.todo = Tail(@), !.peeked = FALSE]
<1>2. /\ UNCHANGED <<m_listeners, m_hijacking_listeners, m_hijacking_masks, m_broadcasters, bAlive, lAlive,
                     pending, sent, changes, waits>>
      /\ r.todo # <<>> /\ (e.unique => r.peeked)
      /\ m_events' = [m_events EXCEPT ![l] = Append(q, e)]
      /\ waiting' = {Woken(w, l) : w \in waiting}
      /\ sending' = (sending \ {r}) \union {s}
  BY <1>1 DEF AddEvent, subscriptionVars
<1>3. /\ r \in Sending /\ e \in Event /\ r.todo \in Seq(Listeners) /\ SendOK(r) /\ TypeOK
      /\ sending \subseteq Sending /\ waiting \subseteq Wait /\ sent \in Nat
      /\ m_events \in [Listeners -> Seq(Event)]
      /\ \A x \in sending : SendOK(x) /\ x.event \in Event /\ x.todo \in Seq(Listeners)
      /\ \A x \in sending : x.event.broadcaster = e.broadcaster => x = r
  BY DEF IInv, TypeOK, Sending
<1>4. /\ l \in Listeners /\ Tail(r.todo) \in Seq(Listeners) /\ l = r.todo[1] /\ 1 \in 1 .. Len(r.todo)
      /\ \A i \in 1 .. Len(Tail(r.todo)) : i + 1 \in 1 .. Len(r.todo) /\ Tail(r.todo)[i] = r.todo[i + 1]
      /\ \A i, j \in 1 .. Len(Tail(r.todo)) : Tail(r.todo)[i] = Tail(r.todo)[j] => i = j
      /\ \A i \in 1 .. Len(Tail(r.todo)) : Tail(r.todo)[i] # l
  BY <1>1, <1>2, <1>3, TailMeans DEF SendOK
<1>5. s \in Sending /\ s.event = e /\ s.todo = Tail(r.todo) /\ s.peeked = FALSE
  BY <1>3, <1>4 DEF Sending
<1> HIDE DEF s
<1>6. /\ q \in Seq(Event) /\ m_events'[l] = Append(q, e)
      /\ \A k \in Listeners \ {l} : m_events'[k] = m_events[k]
  BY <1>2, <1>3, <1>4
<1>7. /\ QueueOK(q) /\ Older(q, e) /\ e.id < sent
  BY <1>3, <1>4 DEF SendOK, IInv
<1>8. e.unique => Lacks(q, e)
  BY <1>1, <1>2, <1>3 DEF SendOK
<1> HIDE DEF q, e
<1>9. /\ m_events'[l] \in Seq(Event) /\ Ordered(m_events'[l]) /\ Once(m_events'[l]) /\ Below(m_events'[l], sent)
      /\ \A f \in Event : f.broadcaster # e.broadcaster =>
           (Older(q, f) => Older(m_events'[l], f)) /\ (Lacks(q, f) => Lacks(m_events'[l], f))
  BY <1>3, <1>6, <1>7, <1>8, QueueGrows DEF QueueOK
<1>10. (\A k \in Listeners : QueueOK(m_events[k]))'
  <2> SUFFICES ASSUME NEW k \in Listeners PROVE QueueOK(m_events[k])'
    OBVIOUS
  <2>1. CASE k = l
    BY <1>2, <1>9, <2>1 DEF QueueOK
  <2>2. CASE k # l
    <3>1. m_events'[k] = m_events[k] /\ QueueOK(m_events[k])
      BY <1>6, <2>2 DEF IInv
    <3> QED BY <1>2, <3>1 DEF QueueOK
  <2> QED BY <2>1, <2>2
<1>11. ASSUME NEW x \in sending \ {r} PROVE SendOK(x)'
  <2>1. SendOK(x) /\ x.event \in Event /\ x.todo \in Seq(Listeners) /\ x.event.broadcaster # e.broadcaster
    BY <1>3
  <2>2. \A k \in Listeners : /\ Older(m_events[k], x.event) => Older(m_events'[k], x.event)
                             /\ Lacks(m_events[k], x.event) => Lacks(m_events'[k], x.event)
    BY <1>6, <1>9, <2>1 DEF q
  <2>3. \A i \in 1 .. Len(x.todo) : x.todo[i] \in Listeners
    BY <2>1
  <2>4. x.todo # <<>> => Head(x.todo) \in Listeners
    BY <2>1
  <2>5. \A i \in 1 .. Len(x.todo) : Subscribes(x.event.broadcaster, x.todo[i], x.event.type)'
    BY <1>2, <2>1 DEF SendOK, Subscribes, Hijacked
  <2>6. \A i \in 1 .. Len(x.todo) : Older(m_events'[x.todo[i]], x.event)
    BY <2>1, <2>2, <2>3 DEF SendOK
  <2>7. x.peeked => x.todo # <<>> /\ Lacks(m_events'[Head(x.todo)], x.event)
    BY <2>1, <2>2, <2>4 DEF SendOK
  <2>8. x.event.id < sent' /\ \A i, j \in 1 .. Len(x.todo) : x.todo[i] = x.todo[j] => i = j
    BY <1>2, <2>1 DEF SendOK
  <2> QED BY <2>5, <2>6, <2>7, <2>8 DEF SendOK
<1>12. PICK v \in Sending : v = s
  BY <1>5
<1>13. SendOK(v)'
  <2>1. v.event = e /\ v.todo = Tail(r.todo) /\ v.peeked = FALSE
    BY <1>5, <1>12
  <2>2. \A i \in 1 .. Len(v.todo) : Subscribes(v.event.broadcaster, v.todo[i], v.event.type)
    BY <1>3, <1>4, <2>1 DEF SendOK, e
  <2>3. \A i \in 1 .. Len(v.todo) : Subscribes(v.event.broadcaster, v.todo[i], v.event.type)'
    BY <1>2, <2>2 DEF Subscribes, Hijacked
  <2>4. \A i \in 1 .. Len(v.todo) : Older(m_events'[v.todo[i]], v.event)
    <3> SUFFICES ASSUME NEW i \in 1 .. Len(v.todo) PROVE Older(m_events'[v.todo[i]], v.event)
      OBVIOUS
    <3>1. v.todo[i] = r.todo[i + 1] /\ i + 1 \in 1 .. Len(r.todo) /\ v.todo[i] # l
      BY <1>4, <2>1
    <3>2. Older(m_events[v.todo[i]], v.event)
      BY <1>3, <2>1, <3>1 DEF SendOK, e
    <3>3. v.todo[i] \in Listeners
      BY <1>3, <3>1
    <3> QED BY <1>6, <3>1, <3>2, <3>3
  <2>5. v.event.id < sent'
    BY <1>2, <1>7, <2>1
  <2>6. \A i, j \in 1 .. Len(v.todo) : v.todo[i] = v.todo[j] => i = j
    BY <1>4, <2>1
  <2> QED BY <2>1, <2>3, <2>4, <2>5, <2>6 DEF SendOK
<1>14. sending' = (sending \ {r}) \union {v} /\ v.event = e
  BY <1>2, <1>5, <1>12
<1>15. (\A x \in sending : SendOK(x))'
  BY <1>11, <1>13, <1>14
<1>16. (\A x, y \in sending : x.event.broadcaster = y.event.broadcaster => x = y)'
  BY <1>3, <1>14 DEF IInv, e
<1>17. \A w \in waiting : Woken(w, l) \in Wait
  BY <1>3 DEF Woken, Wait
<1>18. NoLostWakeup'
  <2> SUFFICES ASSUME NEW x \in waiting', x.at = "asleep" PROVE MatchesAt(x)' = {}
    BY DEF NoLostWakeup
  <2>1. PICK w \in waiting : x = Woken(w, l)
    BY <1>2
  <2>2. x = w /\ ~Asleep(w, l)
    <3>1. w \in Wait
      BY <1>3
    <3> QED BY <2>1, <3>1 DEF Woken, Wait
  <2>3. x.listener # l /\ x.listener \in Listeners /\ MatchesAt(x) = {}
    BY <1>3, <2>2 DEF Asleep, IInv, NoLostWakeup, Wait
  <2>4. m_events'[x.listener] = m_events[x.listener]
    BY <1>6, <2>3
  <2> QED BY <1>2, <2>3, <2>4 DEF MatchesAt, EventMatcher
<1>19. m_events' \in [Listeners -> Seq(Event)]
  BY <1>2, <1>3, <1>4, <1>6, <1>9
<1>20. TypeOK'
  BY <1>2, <1>3, <1>14, <1>17, <1>19 DEF TypeOK
<1>21. \A b \in Broadcasters : EntriesOnce(m_listeners'[b])
  BY <1>2 DEF IInv
<1> QED BY <1>10, <1>15, <1>16, <1>18, <1>20, <1>21 DEF IInv

---------------------------------------------------------------------------
(* The theorems *)

(* Nobody has subscribed yet.                                               *)
LEMMA InitOK == Init => IInv
<1> SUFFICES ASSUME Init PROVE IInv
  OBVIOUS
<1>1. \A S : <<>> \in Seq(S)
  OBVIOUS
<1>2. TypeOK
  BY <1>1 DEF Init, TypeOK
<1>3. \A b \in Broadcasters : EntriesOnce(m_listeners[b])
  BY DEF Init, EntriesOnce
<1>4. \A l \in Listeners : QueueOK(m_events[l])
  BY DEF Init, QueueOK, Ordered, Once, Below
<1>5. sending = {} /\ waiting = {}
  BY DEF Init
<1> QED BY <1>2, <1>3, <1>4, <1>5 DEF IInv, NoLostWakeup

(* Every step keeps the invariant.                                          *)
LEMMA NextOK == ASSUME IInv, [Next]_vars PROVE IInv'
<1>1. CASE UNCHANGED vars
  <2>1. UNCHANGED <<m_listeners, m_hijacking_listeners, m_hijacking_masks, m_broadcasters, bAlive, lAlive,
                    m_events, sending, pending, waiting, sent, changes, waits>>
    BY <1>1 DEF vars, subscriptionVars
  <2>2. /\ m_broadcasters' \in [Listeners -> SUBSET (Broadcasters \X Masks)]
        /\ pending' \subseteq Change /\ waiting' \subseteq Wait /\ changes' \in Nat /\ waits' \in Nat
    BY <2>1 DEF IInv, TypeOK
  <2> QED BY <2>1, <2>2, CallsKeep
<1>2. CASE Send
  BY <1>2, BroadcastKeeps, PeekKeeps, AddEventKeeps DEF Send
<1>3. CASE Subscribe
  BY <1>3, ListeningKeeps, ChangesKeep, HijacksKeep, ClearKeeps, DestroyKeeps DEF Subscribe
<1>4. CASE Receive
  BY <1>4, WaitingKeeps, FindKeeps DEF Receive
<1> QED BY <1>1, <1>2, <1>3, <1>4 DEF Next

(* The types of the event system; the stack of hijackers and that of their  *)
(* masks stay equally long (HijackBroadcaster, RestoreBroadcaster).         *)
THEOREM TypesCorrect == Spec => []TypeOK
<1>1. IInv => TypeOK
  BY DEF IInv
<1> QED BY <1>1, InitOK, NextOK, PTL DEF Spec

(* Whatever two listeners both have of a broadcaster they have in the same  *)
(* order, for any number of threads that broadcast, listeners that come and *)
(* go, and hijackers: the order of the broadcasts (PrivateBroadcastEvent).  *)
THEOREM EventsInOrder == Spec => []SameOrder
<1>1. IInv => SameOrder
  <2> SUFFICES ASSUME IInv, NEW l \in Listeners, NEW k \in Listeners,
                      NEW i \in 1 .. Len(m_events[l]), NEW j \in 1 .. Len(m_events[l]),
                      NEW p \in 1 .. Len(m_events[k]), NEW q \in 1 .. Len(m_events[k]),
                      i < j, p < q, m_events[l][i].broadcaster = m_events[l][j].broadcaster,
                      m_events[l][i] = m_events[k][q], m_events[l][j] = m_events[k][p]
               PROVE  FALSE
    BY DEF SameOrder
  <2>1. Ordered(m_events[l]) /\ Ordered(m_events[k])
    BY DEF IInv, QueueOK
  <2>2. m_events[l][i] \in Event /\ m_events[l][j] \in Event
    BY DEF IInv, TypeOK
  <2>3. m_events[l][i].id \in Nat /\ m_events[l][j].id \in Nat
    BY <2>2 DEF Event
  <2>4. m_events[l][i].id < m_events[l][j].id
    BY <2>1 DEF Ordered
  <2>5. m_events[k][p].id < m_events[k][q].id
    BY <2>1 DEF Ordered
  <2> QED BY <2>3, <2>4, <2>5
<1> QED BY <1>1, InitOK, NextOK, PTL DEF Spec

(* BroadcastEventIfUnique never queues an event behind one of the same      *)
(* broadcaster and type, although the look and the insertion are two        *)
(* critical sections of the listener: m_listeners_mutex spans both.         *)
THEOREM UniqueEventsOnce == Spec => []UniqueOnce
<1>1. IInv => UniqueOnce
  BY DEF IInv, QueueOK, Once, UniqueOnce
<1> QED BY <1>1, InitOK, NextOK, PTL DEF Spec

(* Nobody sleeps in GetEventInternal on a queue that has what it waits for. *)
THEOREM WakeupsNotLost == Spec => []NoLostWakeup
<1>1. IInv => NoLostWakeup
  BY DEF IInv
<1> QED BY <1>1, InitOK, NextOK, PTL DEF Spec

(* A queue that only loses events is no longer than it was.                 *)
LEMMA ShrinksLen ==
  ASSUME NEW q \in Seq(Event), NEW r \in Seq(Event), NEW I, Subseq(r, q, I)
  PROVE  Len(r) <= Len(q)
<1>1. PICK h \in [1 .. Len(r) -> I \intersect (1 .. Len(q))] :
        \A m, n \in 1 .. Len(r) : m < n => h[m] < h[n]
  BY DEF Subseq
<1>2. \A n \in 1 .. Len(r) : h[n] \in 1 .. Len(q)
  BY <1>1
<1> DEFINE Bad == {n \in 1 .. Len(r) : h[n] < n}
<1>3. Bad = {}
  <2> SUFFICES ASSUME Bad # {} PROVE FALSE
    OBVIOUS
  <2>1. Bad \subseteq Nat
    OBVIOUS
  <2>2. PICK n \in Bad : \A m \in Bad : n <= m
    BY <2>1, NatMin
  <2>3. n \in 1 .. Len(r) /\ h[n] < n /\ h[n] \in 1 .. Len(q)
    BY <1>2, <2>2
  <2>4. n - 1 \in 1 .. Len(r) /\ n - 1 < n
    BY <2>3
  <2>5. n - 1 \notin Bad
    BY <2>2, <2>4
  <2>6. h[n - 1] >= n - 1 /\ h[n - 1] < h[n] /\ h[n - 1] \in 1 .. Len(q)
    BY <1>1, <1>2, <2>3, <2>4, <2>5
  <2> QED BY <2>3, <2>6
<1>4. CASE Len(r) = 0
  BY <1>4
<1>5. CASE Len(r) # 0
  <2>1. Len(r) \in 1 .. Len(r)
    BY <1>5
  <2> QED BY <1>2, <1>3, <2>1
<1> QED BY <1>4, <1>5

(* Only AddEvent makes a queue longer.                                      *)
LEMMA OnlyAddEventAdds ==
  ASSUME IInv, [Next]_vars, NEW l \in Listeners, Len(m_events'[l]) > Len(m_events[l])
  PROVE  \E r \in sending : AddEvent(r)
<1>1. ASSUME Shrinks PROVE FALSE
  <2>1. m_events[l] \in Seq(Event)
    BY DEF IInv, TypeOK
  <2>2. PICK I : m_events'[l] \in Seq(Event) /\ Subseq(m_events'[l], m_events[l], I)
    BY <1>1 DEF Shrinks
  <2>3. Len(m_events'[l]) <= Len(m_events[l])
    BY <2>1, <2>2, ShrinksLen
  <2> QED BY <2>1, <2>2, <2>3
<1>2. m_events' # m_events
  BY <1>1, QueuesStay DEF IInv
<1>3. CASE UNCHANGED vars
  BY <1>2, <1>3 DEF vars
<1>4. CASE Send
  BY <1>2, <1>4 DEF Send, Broadcast, PeekUnique, BroadcastDone
<1>5. CASE Subscribe
  <2>1. CASE \/ \E b \in Broadcasters : DestroyBroadcaster(b)
             \/ \E k \in Listeners : Clear(k) \/ DestroyListener(k)
    BY <1>1, <2>1, ClearKeeps, DestroyKeeps
  <2> QED BY <1>2, <1>5, <2>1 DEF Subscribe, StartListeningForEvents, StopListeningForEvents,
            AddListener, RemoveListener, HijackBroadcaster, RestoreBroadcaster
<1>6. CASE Receive
  <2>1. CASE \E w \in waiting : FindNextEvent(w)
    BY <1>1, <2>1, FindKeeps
  <2> QED BY <1>2, <1>6, <2>1 DEF Receive, GetEvent, WaitForEvent, WaitTimedOut
<1> QED BY <1>3, <1>4, <1>5, <1>6 DEF Next

(* Events reach only listeners that are subscribed when they are queued: a  *)
(* broadcast keeps m_listeners_mutex while it serves the listeners, so that *)
(* after StopListeningForEvents or HijackBroadcaster nothing comes late.    *)
THEOREM DeliveriesSubscribed == Spec => DeliverySubscribed
<1>1. ASSUME IInv, [Next]_vars
      PROVE  [\A l \in Listeners :
                Len(m_events'[l]) > Len(m_events[l])
                  => LET e == m_events'[l][Len(m_events'[l])]
                     IN  Subscribes(e.broadcaster, l, e.type)]_vars
  <2> SUFFICES ASSUME NEW l \in Listeners, Len(m_events'[l]) > Len(m_events[l])
               PROVE  LET e == m_events'[l][Len(m_events'[l])]
                      IN  Subscribes(e.broadcaster, l, e.type)
    OBVIOUS
  <2>1. PICK r \in sending : AddEvent(r)
    BY <1>1, OnlyAddEventAdds
  <2>2. /\ r.todo # <<>>
        /\ m_events' = [m_events EXCEPT ![Head(r.todo)] = Append(m_events[Head(r.todo)], r.event)]
    BY <2>1 DEF AddEvent
  <2>3. /\ SendOK(r) /\ r.todo \in Seq(Listeners) /\ r.event \in Event
        /\ m_events \in [Listeners -> Seq(Event)]
    BY <1>1 DEF IInv, TypeOK, Sending
  <2>4. Head(r.todo) = r.todo[1] /\ 1 \in 1 .. Len(r.todo) /\ Head(r.todo) \in Listeners
    BY <2>2, <2>3, TailMeans
  <2>5. m_events[l] \in Seq(Event)
    BY <2>3
  <2>6. l = Head(r.todo)
    <3> SUFFICES ASSUME l # Head(r.todo) PROVE FALSE
      OBVIOUS
    <3>1. m_events'[l] = m_events[l]
      BY <2>2, <2>3
    <3> QED BY <2>5, <3>1
  <2>7. m_events'[l] = Append(m_events[l], r.event)
    BY <2>2, <2>3, <2>6
  <2>8. m_events'[l][Len(m_events'[l])] = r.event
    BY <2>3, <2>5, <2>7
  <2>9. Subscribes(r.event.broadcaster, l, r.event.type)
    BY <2>3, <2>4, <2>6 DEF SendOK
  <2> QED BY <2>8, <2>9
<1> QED BY <1>1, InitOK, NextOK, PTL DEF Spec, DeliverySubscribed
============================================================================
