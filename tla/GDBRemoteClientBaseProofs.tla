--------------------- MODULE GDBRemoteClientBaseProofs ---------------------
(***************************************************************************)
(* Proofs about GDBRemoteClientBase for any number of async threads, any   *)
(* stub and any bounds.                                                    *)
(*                                                                         *)
(* The inductive invariant ties the three pieces of state that together    *)
(* hand out the connection: m_is_running follows the continue thread's     *)
(* phase, m_async_count counts the threads that want the connection, and   *)
(* m_async_mutex has one owner among the threads that got it.  A second    *)
(* one, WInv, says what may be on the wire meanwhile.                      *)
(***************************************************************************)
EXTENDS GDBRemoteClientBase, FiniteSetTheorems, SequenceTheorems, TLAPS

CountedThreads == {t \in AsyncThreads : Counted(t)}

(* m_is_running is true exactly while the continue thread is between        *)
(* ContinueLock::lock and ContinueLock::unlock.                             *)
RunningPhase == m_is_running <=> cpc \in {"read", "drain", "decided"}

(* A Lock and the continue thread's ownership exclude each other.           *)
LockExcludesRun == \A t \in AsyncThreads : HoldsLock(t) => ~m_is_running

(* From LockAsyncMutex to UnlockAsyncMutex a thread owns m_async_mutex.     *)
MutexOwned ==
  \A t \in AsyncThreads :
    pc[t] \in {"locked", "reply", "release", "notify", "unlockAsync"}
      => asyncOwner = t

IInv == TypeOK /\ AsyncCountAccurate /\ RunningPhase /\ LockExcludesRun
               /\ MutexOwned

---------------------------------------------------------------------------
(* The counted set, one thread more, one less, or unchanged.                *)

(* Adding a thread that was not counted raises the count by one.            *)
LEMMA CountUp ==
  ASSUME NEW S \in SUBSET AsyncThreads, NEW t \in AsyncThreads, t \notin S
  PROVE  Cardinality(S \union {t}) = Cardinality(S) + 1
BY FS_Subset, FS_AddElement, ThreadsAssumption

(* Removing a counted thread lowers the count by one.                       *)
LEMMA CountDown ==
  ASSUME NEW S \in SUBSET AsyncThreads, NEW t \in S
  PROVE  /\ Cardinality(S \ {t}) = Cardinality(S) - 1
         /\ Cardinality(S) \in Nat \ {0}
<1>1. IsFiniteSet(S)
  BY FS_Subset, ThreadsAssumption
<1>2. Cardinality(S \ {t}) = Cardinality(S) - 1
  BY <1>1, FS_RemoveElement
<1>3. Cardinality(S) \in Nat /\ Cardinality(S \ {t}) \in Nat
  BY <1>1, FS_CardinalityType, FS_Subset, S \ {t} \subseteq S
<1> QED BY <1>2, <1>3

(* A count of zero means that no thread is counted.                         *)
LEMMA CountZero ==
  ASSUME AsyncCountAccurate, m_async_count = 0
  PROVE  \A t \in AsyncThreads : ~Counted(t)
<1>1. IsFiniteSet(CountedThreads)
  BY FS_Subset, ThreadsAssumption DEF CountedThreads
<1>2. Cardinality(CountedThreads) = 0
  BY DEF AsyncCountAccurate, CountedThreads
<1>3. CountedThreads = {}
  BY <1>1, <1>2, FS_EmptySet
<1> QED BY <1>3 DEF CountedThreads

---------------------------------------------------------------------------
(* Type correctness.                                                        *)

(* The packets the client resumes with.                                     *)
LEMMA RunPacketType == "payload" \in RunPackets /\ "c" \in RunPackets
                         /\ "C" \in RunPackets
BY DEF RunPackets

(* The initial state is well typed.                                         *)
LEMMA TypeInit == Init => TypeOK
<1> SUFFICES ASSUME Init PROVE TypeOK
  OBVIOUS
<1>1. toStub \in Seq(Packet) /\ toClient \in Seq(Packet)
  BY DEF Init
<1>2. /\ pc \in [AsyncThreads -> AsyncPhases]
      /\ op \in [AsyncThreads -> AllOps]
      /\ retries \in [AsyncThreads -> Nat]
      /\ resp \in [AsyncThreads -> {"none", "own", "other", "fail"}]
  BY DEF Init, AsyncPhases, AllOps
<1>3. didInterrupt \in [AsyncThreads -> BOOLEAN]
  BY DEF Init
<1>4. m_continue_packet \in RunPackets /\ cpc \in ContPhases /\ cret \in Results
  BY RunPacketType DEF Init, ContPhases, Results
<1> QED BY <1>1, <1>2, <1>3, <1>4 DEF Init, TypeOK

(* What the connection does to a queue of packets keeps it one.             *)
LEMMA QueueType ==
  ASSUME NEW s \in Seq(Packet)
  PROVE  /\ \A p \in Packet : Append(s, p) \in Seq(Packet)
         /\ \A p \in Packet : s \o <<p>> \in Seq(Packet)
         /\ \A p, q \in Packet : s \o <<p, q>> \in Seq(Packet)
         /\ s # <<>> => Tail(s) \in Seq(Packet) /\ Head(s) \in Packet
<1>1. \A p \in Packet : <<p>> \in Seq(Packet)
  OBVIOUS
<1>2. \A p, q \in Packet : <<p, q>> \in Seq(Packet)
  OBVIOUS
<1>3. \A u \in Seq(Packet) : s \o u \in Seq(Packet)
  OBVIOUS
<1>4. s # <<>> => Tail(s) \in Seq(Packet) /\ Head(s) \in Packet
  OBVIOUS
<1>5. \A p \in Packet : Append(s, p) \in Seq(Packet)
  OBVIOUS
<1> QED BY <1>1, <1>2, <1>3, <1>4, <1>5

(* Packets built by the client and the stub are packets.                    *)
LEMMA PktType ==
  /\ \A r \in RunPackets : Pkt("run", r) \in Packet
  /\ Pkt("intr", "-") \in Packet
  /\ \A t \in AsyncThreads : Pkt("req", t) \in Packet /\ Pkt("rcmd", t) \in Packet
  /\ \A p \in Packet : Pkt("R", p.arg) \in Packet
  /\ Pkt("E", "-") \in Packet /\ Pkt("O", "-") \in Packet
  /\ Pkt("W", "-") \in Packet
  /\ \A w \in {"int", "other"} : Pkt("T", w) \in Packet
BY DEF Packet, Pkt, RunPackets

(* Every step of the continue thread preserves the types.                   *)
LEMMA TypeContinue == ASSUME TypeOK, Continue PROVE TypeOK'
<1> USE DEF TypeOK, clientVars, asyncVars, contVars, wireVars, ContPhases,
            Results
<1>1. CASE SendContinuePacket
  <2>1. calls' \in Nat /\ m_continue_packet' \in RunPackets
    BY <1>1, RunPacketType DEF SendContinuePacket
  <2>2. m_should_stop' \in BOOLEAN /\ cpc' \in ContPhases /\ first' \in BOOLEAN
        /\ cret' \in Results
    BY <1>1 DEF SendContinuePacket
  <2> QED BY <1>1, <2>1, <2>2 DEF SendContinuePacket
<1>2. CASE ContinueLockWait
  BY <1>2 DEF ContinueLockWait
<1>3. CASE ContinueLockCancelled
  BY <1>3 DEF ContinueLockCancelled
<1>4. CASE ContinueLockSuccess
  BY <1>4, PktType, QueueType DEF ContinueLockSuccess
<1>5. CASE ContinueLockFailed
  BY <1>5 DEF ContinueLockFailed
<1>6. CASE ReadAsyncData
  BY <1>6, QueueType DEF ReadAsyncData
<1>7. CASE ReadStopReply
  BY <1>7, QueueType, RunPacketType DEF ReadStopReply
<1>8. CASE ReadTerminal
  BY <1>8, QueueType DEF ReadTerminal
<1>9. CASE ReadTimeout
  BY <1>9 DEF ReadTimeout
<1>10. CASE ReadDisconnected
  BY <1>10 DEF ReadDisconnected
<1>11. CASE DrainExtraStopReply
  BY <1>11, QueueType, RunPacketType DEF DrainExtraStopReply
<1>12. CASE ContinueUnlock
  BY <1>12 DEF ContinueUnlock
<1>13. CASE ContinueNotify
  BY <1>13 DEF ContinueNotify
<1>14. CASE DidExit
  BY <1>14 DEF DidExit
<1> QED BY <1>1, <1>2, <1>3, <1>4, <1>5, <1>6, <1>7, <1>8, <1>9, <1>10,
           <1>11, <1>12, <1>13, <1>14 DEF Continue

(* Every step of the stub and the connection preserves the types.           *)
LEMMA TypeStub == ASSUME TypeOK, Stub PROVE TypeOK'
<1> USE DEF TypeOK, clientVars, asyncVars, contVars, wireUnchanged, StubSends
<1>1. CASE StubRun
  BY <1>1, PktType, QueueType DEF StubRun
<1>2. CASE StubInterrupt
  BY <1>2, PktType, QueueType DEF StubInterrupt
<1>3. CASE StubAnswer
  <2>1. Head(toStub) \in Packet
    BY <1>3, QueueType DEF StubAnswer
  <2> DEFINE r == Pkt("R", Head(toStub).arg)
  <2>2. r \in Packet
    BY <2>1, PktType
  <2>3. toClient' \in Seq(Packet)
    BY <1>3, <2>2, PktType, QueueType DEF StubAnswer
  <2>4. toStub' \in Seq(Packet)
    BY <1>3, QueueType DEF StubAnswer
  <2> QED BY <1>3, <2>3, <2>4 DEF StubAnswer
<1>4. CASE StubStops
  BY <1>4, PktType, QueueType DEF StubStops
<1>5. CASE StubExits
  BY <1>5, PktType, QueueType DEF StubExits
<1>6. CASE StubOutput
  BY <1>6, PktType, QueueType DEF StubOutput
<1>7. CASE ConnectionLost
  BY <1>7 DEF ConnectionLost
<1> QED BY <1>1, <1>2, <1>3, <1>4, <1>5, <1>6, <1>7 DEF Stub

(* Every step of an async thread preserves the types.  The decrement in     *)
(* ~Lock needs the count to be that of a set the thread belongs to.         *)
LEMMA TypeAsync ==
  ASSUME TypeOK, AsyncCountAccurate, NEW t \in AsyncThreads,
         AsyncStart(t) \/ AsyncStep(t)
  PROVE  TypeOK'
<1> USE DEF TypeOK, clientVars, asyncVars, contVars, wireVars, Go, AsyncPhases
<1>1. ASSUME NEW o \in Ops, SyncRefused(t, o) PROVE TypeOK'
  BY <1>1, OpsAssumption DEF SyncRefused, Enter
<1>2. ASSUME NEW o \in Ops, SyncImmediate(t, o) PROVE TypeOK'
  BY <1>2, OpsAssumption DEF SyncImmediate, Enter
<1>3. ASSUME NEW o \in Ops, SyncInterrupt(t, o) PROVE TypeOK'
  <2>1. toStub' \in Seq(Packet)
    BY <1>3, PktType, QueueType DEF SyncInterrupt, Enter
  <2>2. /\ pc' \in [AsyncThreads -> AsyncPhases]
        /\ op' \in [AsyncThreads -> AllOps]
        /\ didInterrupt' \in [AsyncThreads -> BOOLEAN]
        /\ retries' \in [AsyncThreads -> Nat]
        /\ resp' \in [AsyncThreads -> {"none", "own", "other", "fail"}]
    BY <1>3, OpsAssumption DEF SyncInterrupt, Enter
  <2>3. m_async_count' \in Nat /\ calls' \in Nat
        /\ asleep' \subseteq AsyncThreads \union {Cont}
    BY <1>3 DEF SyncInterrupt, Enter
  <2> QED BY <1>3, <2>1, <2>2, <2>3 DEF SyncInterrupt, Enter
<1>4. ASSUME NEW o \in Ops, SyncWriteFailed(t, o) PROVE TypeOK'
  BY <1>4, OpsAssumption DEF SyncWriteFailed, Enter
<1>5. CASE SyncWake(t)
  BY <1>5 DEF SyncWake
<1>6. CASE LockAsyncMutex(t)
  BY <1>6 DEF LockAsyncMutex
<1>7. CASE SendAsyncSignal(t)
  BY <1>7, RunPacketType DEF SendAsyncSignal
<1>8. CASE Interrupt(t)
  BY <1>8 DEF Interrupt
<1>9. CASE SendRequest(t)
  BY <1>9, PktType, QueueType DEF SendRequest
<1>10. CASE ReadReply(t)
  <2>1. toClient' \in Seq(Packet)
    BY <1>10, QueueType DEF ReadReply
  <2>2. retries' \in [AsyncThreads -> Nat]
    BY <1>10 DEF ReadReply
  <2>3. /\ pc' \in [AsyncThreads -> AsyncPhases]
        /\ resp' \in [AsyncThreads -> {"none", "own", "other", "fail"}]
    BY <1>10 DEF ReadReply
  <2> QED BY <1>10, <2>1, <2>2, <2>3 DEF ReadReply
<1>11. CASE ReplyFailed(t)
  BY <1>11 DEF ReplyFailed
<1>12. CASE ReleaseLock(t)
  <2>1. CountedThreads \in SUBSET AsyncThreads /\ t \in CountedThreads
    BY <1>12 DEF ReleaseLock, CountedThreads, Counted
  <2>2. m_async_count \in Nat \ {0}
    BY <2>1, CountDown DEF AsyncCountAccurate, CountedThreads
  <2> QED BY <1>12, <2>2 DEF ReleaseLock
<1>13. CASE ReleaseNotify(t)
  BY <1>13 DEF ReleaseNotify, NotifyOne
<1>14. CASE UnlockAsyncMutex(t)
  BY <1>14 DEF UnlockAsyncMutex
<1> QED BY <1>1, <1>2, <1>3, <1>4, <1>5, <1>6, <1>7, <1>8, <1>9, <1>10, <1>11,
           <1>12, <1>13, <1>14 DEF AsyncStart, AsyncStep

---------------------------------------------------------------------------
(* The inductive invariant.                                                 *)

(* It holds initially: no thread is counted.                                *)
LEMMA IInvInit == Init => IInv
<1> SUFFICES ASSUME Init PROVE IInv
  OBVIOUS
<1>1. {t \in AsyncThreads : Counted(t)} = {}
  BY DEF Init, Counted
<1>2. AsyncCountAccurate
  BY <1>1, FS_EmptySet DEF AsyncCountAccurate, Init
<1>3. RunningPhase /\ LockExcludesRun /\ MutexOwned
  BY DEF Init, RunningPhase, LockExcludesRun, MutexOwned, HoldsLock
<1> QED BY <1>2, <1>3, TypeInit DEF IInv

(* A step that leaves m_async_count and the async threads' phases alone     *)
(* leaves the count accurate.                                               *)
LEMMA CountUnchanged ==
  ASSUME AsyncCountAccurate, UNCHANGED <<m_async_count, pc>>
  PROVE  AsyncCountAccurate'
BY DEF AsyncCountAccurate, Counted

(* Continue-thread steps.  Only ContinueLockSuccess sets m_is_running, and  *)
(* it does so with m_async_count = 0, when no thread holds a Lock.          *)
LEMMA IInvContinue == ASSUME IInv, Continue PROVE IInv'
<1> USE DEF IInv
<1>1. TypeOK'
  BY TypeContinue
<1>2. UNCHANGED <<m_async_count, pc, asyncOwner>>
  BY DEF Continue, SendContinuePacket, ContinueLockWait, ContinueLockCancelled,
     ContinueLockSuccess, ContinueLockFailed, ReadAsyncData, ReadStopReply,
     ReadTerminal, ReadTimeout, ReadDisconnected,
     DrainExtraStopReply, ContinueUnlock, ContinueNotify, DidExit, clientVars,
     asyncVars
<1>3. AsyncCountAccurate'
  BY <1>2, CountUnchanged
<1>4. MutexOwned'
  BY <1>2 DEF MutexOwned
<1>5. RunningPhase'
  BY DEF TypeOK, RunningPhase, Continue, SendContinuePacket, ContinueLockWait,
     ContinueLockCancelled, ContinueLockSuccess, ContinueLockFailed,
     ReadAsyncData, ReadStopReply, ReadTerminal, ReadTimeout, ReadDisconnected, DrainExtraStopReply, ContinueUnlock, ContinueNotify,
     DidExit, clientVars, contVars
<1>6. LockExcludesRun'
  <2>1. CASE ContinueLockSuccess
    <3>1. \A t \in AsyncThreads : ~Counted(t)
      BY <2>1, CountZero DEF ContinueLockSuccess
    <3> QED BY <1>2, <3>1 DEF LockExcludesRun, HoldsLock, Counted
  <2>2. CASE ~ContinueLockSuccess
    <3>1. m_is_running' => m_is_running
      BY <2>2 DEF Continue, SendContinuePacket, ContinueLockWait,
         ContinueLockCancelled, ContinueLockFailed, ReadAsyncData,
         ReadStopReply, ReadTerminal, ReadTimeout, ReadDisconnected, DrainExtraStopReply, ContinueUnlock, ContinueNotify,
         DidExit, clientVars
    <3> QED BY <1>2, <3>1 DEF LockExcludesRun, HoldsLock
  <2> QED BY <2>1, <2>2
<1> QED BY <1>1, <1>3, <1>4, <1>5, <1>6

(* The phase of thread t changes from one of the phases From to one of To,  *)
(* and nobody else's does.                                                  *)
Moves(t, From, To) ==
  /\ pc[t] \in From
  /\ \E phase \in To : pc' = [pc EXCEPT ![t] = phase]

(* A thread that starts to count raises the set of counted threads by one,  *)
(* one that stops lowers it, any other step leaves it alone.                *)
CountedPhases == {"cvWait", "acquired", "locked", "reply", "release"}

(* How a move of one thread changes the count that the invariant asks for.  *)
LEMMA CountMoves ==
  ASSUME TypeOK, TypeOK', NEW t \in AsyncThreads, AsyncCountAccurate,
         NEW From \in SUBSET AsyncPhases, NEW To \in SUBSET AsyncPhases,
         Moves(t, From, To),
         \/ From \cap CountedPhases = {} /\ To \subseteq CountedPhases
              /\ m_async_count' = m_async_count + 1
         \/ From \subseteq CountedPhases /\ To \cap CountedPhases = {}
              /\ m_async_count' = m_async_count - 1
         \/ From \subseteq CountedPhases /\ To \subseteq CountedPhases
              /\ m_async_count' = m_async_count
         \/ From \cap CountedPhases = {} /\ To \cap CountedPhases = {}
              /\ m_async_count' = m_async_count
  PROVE  AsyncCountAccurate'
<1> DEFINE S == {u \in AsyncThreads : Counted(u)}
           T == {u \in AsyncThreads : Counted(u)'}
<1>1. \A u \in AsyncThreads : u # t => (Counted(u)' <=> Counted(u))
  BY DEF Moves, Counted, TypeOK
<1>2. Counted(t) <=> pc[t] \in CountedPhases
  BY DEF Counted, CountedPhases
<1>3. Counted(t)' <=> pc'[t] \in CountedPhases
  BY DEF Counted, CountedPhases
<1>4. pc[t] \in From /\ pc'[t] \in To
  BY DEF Moves, TypeOK
<1>5. S \in SUBSET AsyncThreads /\ m_async_count = Cardinality(S)
  BY DEF AsyncCountAccurate
<1>6. m_async_count' = Cardinality(T)
  <2>1. CASE ~Counted(t) /\ Counted(t)'
    <3>1. T = S \union {t} /\ t \notin S
      BY <1>1, <2>1
    <3>2. m_async_count' = m_async_count + 1
      BY <1>2, <1>3, <1>4, <2>1
    <3> QED BY <1>5, <3>1, <3>2, CountUp
  <2>2. CASE Counted(t) /\ ~Counted(t)'
    <3>1. T = S \ {t} /\ t \in S
      BY <1>1, <2>2
    <3>2. m_async_count' = m_async_count - 1
      BY <1>2, <1>3, <1>4, <2>2
    <3> QED BY <1>5, <3>1, <3>2, CountDown
  <2>3. CASE Counted(t) <=> Counted(t)'
    <3>1. T = S
      BY <1>1, <2>3
    <3>2. m_async_count' = m_async_count
      BY <1>2, <1>3, <1>4, <2>3
    <3> QED BY <1>5, <3>1, <3>2
  <2> QED BY <2>1, <2>2, <2>3
<1> QED BY <1>6 DEF AsyncCountAccurate

(* Steps of an async thread.                                                *)
LEMMA IInvAsync ==
  ASSUME IInv, NEW t \in AsyncThreads, AsyncStart(t) \/ AsyncStep(t)
  PROVE  IInv'
<1> USE DEF IInv
<1>1. TypeOK'
  BY TypeAsync
<1>2. UNCHANGED <<m_is_running, cpc>>
  BY DEF AsyncStart, AsyncStep, SyncRefused, SyncImmediate, SyncInterrupt,
     SyncWriteFailed, SyncWake, LockAsyncMutex, SendAsyncSignal, Interrupt,
     SendRequest, ReadReply, ReplyFailed, ReleaseLock, ReleaseNotify,
     UnlockAsyncMutex, clientVars, contVars
<1>3. RunningPhase'
  BY <1>2 DEF RunningPhase
<1> DEFINE Good == AsyncCountAccurate' /\ LockExcludesRun' /\ MutexOwned'
<1>4. ASSUME UNCHANGED <<m_async_count, pc, asyncOwner>> PROVE Good
  BY <1>2, <1>4, CountUnchanged DEF LockExcludesRun, MutexOwned, HoldsLock
<1>5. ASSUME NEW o \in Ops, SyncRefused(t, o) PROVE Good
  BY <1>4, <1>5 DEF SyncRefused, Enter, clientVars
<1>6. ASSUME NEW o \in Ops, SyncImmediate(t, o) PROVE Good
  <2>1. Moves(t, {"idle"}, {"acquired"}) /\ m_async_count' = m_async_count + 1
    BY <1>6 DEF SyncImmediate, Enter, Moves, Go, clientVars, TypeOK
  <2>2. AsyncCountAccurate'
    BY <1>1, <2>1, CountMoves DEF AsyncPhases, CountedPhases
  <2>3. asyncOwner' = asyncOwner
    BY <1>6 DEF SyncImmediate, Enter, clientVars
  <2>4. ~m_is_running
    BY <1>6 DEF SyncImmediate
  <2>5. LockExcludesRun'
    BY <1>2, <2>1, <2>4 DEF Moves, LockExcludesRun, HoldsLock, TypeOK
  <2>6. MutexOwned'
    BY <2>1, <2>3 DEF Moves, MutexOwned, TypeOK
  <2> QED BY <2>2, <2>5, <2>6
<1>7. ASSUME NEW o \in Ops, SyncInterrupt(t, o) PROVE Good
  <2>1. Moves(t, {"idle"}, {"cvWait"}) /\ m_async_count' = m_async_count + 1
    BY <1>7 DEF SyncInterrupt, Enter, Moves, Go, clientVars, TypeOK
  <2>2. AsyncCountAccurate'
    BY <1>1, <2>1, CountMoves DEF AsyncPhases, CountedPhases
  <2>3. asyncOwner' = asyncOwner
    BY <1>7 DEF SyncInterrupt, Enter, clientVars
  <2>5. LockExcludesRun'
    BY <1>2, <2>1 DEF Moves, LockExcludesRun, HoldsLock, TypeOK
  <2>6. MutexOwned'
    BY <2>1, <2>3 DEF Moves, MutexOwned, TypeOK
  <2> QED BY <2>2, <2>5, <2>6
<1>8. ASSUME NEW o \in Ops, SyncWriteFailed(t, o) PROVE Good
  BY <1>4, <1>8 DEF SyncWriteFailed, Enter, clientVars
<1>9. ASSUME SyncWake(t) PROVE Good
  <2>1. CASE m_is_running
    BY <1>4, <1>9, <2>1 DEF SyncWake
  <2>2. CASE ~m_is_running
    <3>1. Moves(t, {"cvWait"}, {"acquired"}) /\ UNCHANGED <<m_async_count, asyncOwner>>
      BY <1>9, <2>2 DEF SyncWake, Moves, Go
    <3>2. AsyncCountAccurate'
      BY <1>1, <3>1, CountMoves DEF AsyncPhases, CountedPhases
    <3>3. LockExcludesRun' /\ MutexOwned'
      BY <1>2, <2>2, <3>1 DEF Moves, LockExcludesRun, MutexOwned, HoldsLock, TypeOK
    <3> QED BY <3>2, <3>3
  <2> QED BY <2>1, <2>2
<1>10. ASSUME LockAsyncMutex(t) PROVE Good
  <2>1. Moves(t, {"acquired"}, {"locked"}) /\ m_async_count' = m_async_count
    BY <1>10 DEF LockAsyncMutex, Moves, Go, clientVars, TypeOK
  <2>2. AsyncCountAccurate'
    BY <1>1, <2>1, CountMoves DEF AsyncPhases, CountedPhases
  <2>3. asyncOwner = Cont /\ asyncOwner' = t
    BY <1>10 DEF LockAsyncMutex, clientVars
  <2>5. LockExcludesRun'
    BY <1>2, <2>1 DEF Moves, LockExcludesRun, HoldsLock, TypeOK
  <2>6. MutexOwned'
    BY <2>1, <2>3, ThreadsAssumption DEF Moves, MutexOwned, TypeOK
  <2> QED BY <2>2, <2>5, <2>6
<1>11. ASSUME SendAsyncSignal(t) PROVE Good
  <2>1. Moves(t, {"locked"}, {"release"}) /\ m_async_count' = m_async_count
    BY <1>11 DEF SendAsyncSignal, Moves, Go, clientVars, TypeOK
  <2>2. AsyncCountAccurate'
    BY <1>1, <2>1, CountMoves DEF AsyncPhases, CountedPhases
  <2>3. asyncOwner' = asyncOwner
    BY <1>11 DEF SendAsyncSignal, clientVars
  <2>5. LockExcludesRun'
    BY <1>2, <2>1 DEF Moves, LockExcludesRun, HoldsLock, TypeOK
  <2>6. MutexOwned'
    BY <2>1, <2>3 DEF Moves, MutexOwned, TypeOK
  <2> QED BY <2>2, <2>5, <2>6
<1>12. ASSUME Interrupt(t) PROVE Good
  <2>1. Moves(t, {"locked"}, {"release"}) /\ m_async_count' = m_async_count
    BY <1>12 DEF Interrupt, Moves, Go, clientVars, TypeOK
  <2>2. AsyncCountAccurate'
    BY <1>1, <2>1, CountMoves DEF AsyncPhases, CountedPhases
  <2>3. asyncOwner' = asyncOwner
    BY <1>12 DEF Interrupt, clientVars
  <2>5. LockExcludesRun'
    BY <1>2, <2>1 DEF Moves, LockExcludesRun, HoldsLock, TypeOK
  <2>6. MutexOwned'
    BY <2>1, <2>3 DEF Moves, MutexOwned, TypeOK
  <2> QED BY <2>2, <2>5, <2>6
<1>13. ASSUME SendRequest(t) PROVE Good
  <2>1. Moves(t, {"locked"}, {"reply", "release"}) /\ m_async_count' = m_async_count
    BY <1>13 DEF SendRequest, Moves, Go, clientVars, TypeOK
  <2>2. AsyncCountAccurate'
    BY <1>1, <2>1, CountMoves DEF AsyncPhases, CountedPhases
  <2>3. asyncOwner' = asyncOwner
    BY <1>13 DEF SendRequest, clientVars
  <2>5. LockExcludesRun'
    BY <1>2, <2>1 DEF Moves, LockExcludesRun, HoldsLock, TypeOK
  <2>6. MutexOwned'
    BY <2>1, <2>3 DEF Moves, MutexOwned, TypeOK
  <2> QED BY <2>2, <2>5, <2>6
<1>14. ASSUME ReadReply(t) PROVE Good
  <2>1. Moves(t, {"reply"}, {"reply", "release"}) /\ m_async_count' = m_async_count
    BY <1>14 DEF ReadReply, Moves, Go, clientVars, TypeOK
  <2>2. AsyncCountAccurate'
    BY <1>1, <2>1, CountMoves DEF AsyncPhases, CountedPhases
  <2>3. asyncOwner' = asyncOwner
    BY <1>14 DEF ReadReply, clientVars
  <2>5. LockExcludesRun'
    BY <1>2, <2>1 DEF Moves, LockExcludesRun, HoldsLock, TypeOK
  <2>6. MutexOwned'
    BY <2>1, <2>3 DEF Moves, MutexOwned, TypeOK
  <2> QED BY <2>2, <2>5, <2>6
<1>15. ASSUME ReplyFailed(t) PROVE Good
  <2>1. Moves(t, {"reply"}, {"release"}) /\ m_async_count' = m_async_count
    BY <1>15 DEF ReplyFailed, Moves, Go, clientVars, TypeOK
  <2>2. AsyncCountAccurate'
    BY <1>1, <2>1, CountMoves DEF AsyncPhases, CountedPhases
  <2>3. asyncOwner' = asyncOwner
    BY <1>15 DEF ReplyFailed, clientVars
  <2>5. LockExcludesRun'
    BY <1>2, <2>1 DEF Moves, LockExcludesRun, HoldsLock, TypeOK
  <2>6. MutexOwned'
    BY <2>1, <2>3 DEF Moves, MutexOwned, TypeOK
  <2> QED BY <2>2, <2>5, <2>6
<1>16. ASSUME ReleaseLock(t) PROVE Good
  <2>1. Moves(t, {"release"}, {"notify"}) /\ m_async_count' = m_async_count - 1
    BY <1>16 DEF ReleaseLock, Moves, Go, clientVars, TypeOK
  <2>2. AsyncCountAccurate'
    BY <1>1, <2>1, CountMoves DEF AsyncPhases, CountedPhases
  <2>3. asyncOwner' = asyncOwner
    BY <1>16 DEF ReleaseLock, clientVars
  <2>5. LockExcludesRun'
    BY <1>2, <2>1 DEF Moves, LockExcludesRun, HoldsLock, TypeOK
  <2>6. MutexOwned'
    BY <2>1, <2>3 DEF Moves, MutexOwned, TypeOK
  <2> QED BY <2>2, <2>5, <2>6
<1>17. ASSUME ReleaseNotify(t) PROVE Good
  <2>1. Moves(t, {"notify"}, {"unlockAsync"}) /\ m_async_count' = m_async_count
    BY <1>17 DEF ReleaseNotify, Moves, Go, clientVars, TypeOK
  <2>2. AsyncCountAccurate'
    BY <1>1, <2>1, CountMoves DEF AsyncPhases, CountedPhases
  <2>3. asyncOwner' = asyncOwner
    BY <1>17 DEF ReleaseNotify, clientVars
  <2>5. LockExcludesRun'
    BY <1>2, <2>1 DEF Moves, LockExcludesRun, HoldsLock, TypeOK
  <2>6. MutexOwned'
    BY <2>1, <2>3 DEF Moves, MutexOwned, TypeOK
  <2> QED BY <2>2, <2>5, <2>6
<1>18. ASSUME UnlockAsyncMutex(t) PROVE Good
  <2>1. Moves(t, {"unlockAsync"}, {"idle"}) /\ m_async_count' = m_async_count
    BY <1>18 DEF UnlockAsyncMutex, Moves, Go, clientVars, TypeOK
  <2>2. AsyncCountAccurate'
    BY <1>1, <2>1, CountMoves DEF AsyncPhases, CountedPhases
  <2>3. asyncOwner' = Cont
    BY <1>18 DEF UnlockAsyncMutex, clientVars
  <2>5. LockExcludesRun'
    BY <1>2, <2>1 DEF Moves, LockExcludesRun, HoldsLock, TypeOK
  <2>6. MutexOwned'
    BY <2>1, <2>3, ThreadsAssumption DEF Moves, MutexOwned, TypeOK
  <2> QED BY <2>2, <2>5, <2>6
<1>19. Good
  BY <1>5, <1>6, <1>7, <1>8, <1>9, <1>10, <1>11, <1>12, <1>13, <1>14, <1>15,
     <1>16, <1>17, <1>18
     DEF AsyncStart, AsyncStep
<1> QED BY <1>1, <1>3, <1>19

(* The stub and the connection touch none of the client's state.            *)
LEMMA IInvStub == ASSUME IInv, Stub PROVE IInv'
<1> USE DEF IInv
<1>1. TypeOK'
  BY TypeStub
<1>2. UNCHANGED <<m_async_count, pc, asyncOwner, m_is_running, cpc>>
  BY DEF Stub, StubRun, StubInterrupt, StubAnswer, StubStops, StubExits,
     StubOutput, ConnectionLost, wireUnchanged, clientVars, asyncVars, contVars
<1>3. AsyncCountAccurate'
  BY <1>2, CountUnchanged
<1>4. RunningPhase' /\ LockExcludesRun' /\ MutexOwned'
  BY <1>2 DEF RunningPhase, LockExcludesRun, MutexOwned, HoldsLock
<1> QED BY <1>1, <1>3, <1>4

(* IInv is inductive.                                                       *)
LEMMA IInvNext == IInv /\ [Next]_vars => IInv'
<1> SUFFICES ASSUME IInv, [Next]_vars PROVE IInv'
  OBVIOUS
<1>1. CASE UNCHANGED vars
  <2>1. TypeOK'
    BY <1>1 DEF IInv, TypeOK, vars, clientVars, asyncVars, contVars, wireVars
  <2>2. UNCHANGED <<m_async_count, pc, asyncOwner, m_is_running, cpc>>
    BY <1>1 DEF vars, clientVars, asyncVars, contVars
  <2>3. AsyncCountAccurate'
    BY <2>2, CountUnchanged DEF IInv
  <2>4. RunningPhase' /\ LockExcludesRun' /\ MutexOwned'
    BY <2>2 DEF IInv, RunningPhase, LockExcludesRun, MutexOwned, HoldsLock
  <2> QED BY <2>1, <2>3, <2>4 DEF IInv
<1> QED BY <1>1, IInvContinue, IInvAsync, IInvStub DEF Next

(* The inductive invariant holds in every reachable state.                  *)
LEMMA IInvAlways == Spec => []IInv
BY IInvInit, IInvNext, PTL DEF Spec

---------------------------------------------------------------------------
(* What it implies.                                                         *)

(* The client's state stays well typed; m_async_count, an unsigned counter  *)
(* in the code, never wraps below zero.                                     *)
THEOREM TypeCorrect == Spec => []TypeOK
<1>1. IInv => TypeOK
  BY DEF IInv
<1> QED BY <1>1, IInvAlways, PTL

(* m_async_count is exact for any number of threads (lines 356-396).        *)
THEOREM CountCorrect == Spec => []AsyncCountAccurate
<1>1. IInv => AsyncCountAccurate
  BY DEF IInv
<1> QED BY <1>1, IInvAlways, PTL

(* No two threads read the connection at once (lines 348-386).              *)
THEOREM ExclusionCorrect == Spec => []ConnectionExclusive
<1>1. ASSUME IInv PROVE ConnectionExclusive
  <2>1. \A t \in AsyncThreads : pc[t] = "reply" => HoldsLock(t)
    BY DEF HoldsLock
  <2>2. \A t \in AsyncThreads : pc[t] = "reply" => cpc \notin {"read", "drain"}
    BY <1>1, <2>1 DEF IInv, LockExcludesRun, RunningPhase
  <2>3. \A t, u \in AsyncThreads : pc[t] = "reply" /\ pc[u] = "reply" => t = u
    BY <1>1 DEF IInv, MutexOwned
  <2> QED BY <1>1, <2>2, <2>3 DEF ConnectionExclusive, IInv, LockExcludesRun
<1> QED BY <1>1, IInvAlways, PTL

(* Taking a packet from a queue, or nothing, does not make it longer, and a *)
(* packet appended to it is its last.                                       *)
LEMMA QueueLength ==
  ASSUME NEW s \in Seq(Packet)
  PROVE  /\ s # <<>> => ~(Len(Tail(s)) > Len(s))
         /\ ~(Len(s) > Len(s))
         /\ \A p \in Packet : Append(s, p)[Len(Append(s, p))] = p
OBVIOUS

(* The inferior is resumed only when no async thread waits for the          *)
(* connection or uses it (lines 325-341), however many threads there are.   *)
THEOREM ResumeCorrect == Spec => ResumeWaitsForAsync
<1>1. ASSUME IInv, [Next]_vars PROVE [QuietResume]_vars
  <2> SUFFICES ASSUME SendsRun
               PROVE  \A t \in AsyncThreads : ~Counted(t) /\ ~Counted(t)'
    BY DEF QuietResume
  <2> USE DEF SendsRun
  <2>0. toStub \in Seq(Packet)
    BY <1>1 DEF IInv, TypeOK
  <2>1. ASSUME UNCHANGED toStub PROVE FALSE
    BY <2>0, <2>1, QueueLength
  <2>2. ASSUME toStub # <<>>, toStub' = Tail(toStub) PROVE FALSE
    BY <2>0, <2>2, QueueLength
  <2>3. ASSUME NEW p \in Packet, toStub' = Append(toStub, p) PROVE p.type = "run"
    BY <2>0, <2>3, QueueLength
  <2>4. CASE Continue
    <3>1. CASE ContinueLockSuccess
      <4>1. \A t \in AsyncThreads : ~Counted(t)
        BY <1>1, <3>1, CountZero DEF IInv, ContinueLockSuccess
      <4> QED BY <3>1, <4>1 DEF ContinueLockSuccess, asyncVars, Counted
    <3>2. CASE ~ContinueLockSuccess
      BY <2>1, <2>4, <3>2 DEF Continue, SendContinuePacket, ContinueLockWait,
         ContinueLockCancelled, ContinueLockFailed, ReadAsyncData,
         ReadStopReply, ReadTerminal, ReadTimeout, ReadDisconnected, DrainExtraStopReply, ContinueUnlock, ContinueNotify,
         DidExit, wireVars
    <3> QED BY <3>1, <3>2
  <2>5. ASSUME NEW t \in AsyncThreads, AsyncStart(t) PROVE FALSE
    <3>1. PICK o \in Ops : \/ SyncRefused(t, o) \/ SyncImmediate(t, o)
                           \/ SyncInterrupt(t, o) \/ SyncWriteFailed(t, o)
      BY <2>5 DEF AsyncStart
    <3>2. Pkt("intr", "-").type # "run"
      BY DEF Pkt
    <3> QED BY <2>1, <2>3, <3>1, <3>2, PktType DEF SyncRefused, SyncImmediate,
               SyncInterrupt, SyncWriteFailed, wireVars
  <2>6. ASSUME NEW t \in AsyncThreads, AsyncStep(t) PROVE FALSE
    <3>1. CASE SendRequest(t)
      <4>1. Pkt("req", t).type # "run" /\ Pkt("rcmd", t).type # "run"
        BY DEF Pkt
      <4> QED BY <2>1, <2>3, <3>1, <4>1, PktType DEF SendRequest
    <3>2. CASE ~SendRequest(t)
      BY <2>1, <2>6, <3>2 DEF AsyncStep, SyncWake, LockAsyncMutex,
         SendAsyncSignal, Interrupt, ReadReply, ReplyFailed, ReleaseLock,
         ReleaseNotify, UnlockAsyncMutex, wireVars
    <3> QED BY <3>1, <3>2
  <2>7. ASSUME Stub PROVE FALSE
    BY <2>1, <2>2, <2>7 DEF Stub, StubRun, StubInterrupt, StubAnswer, StubStops,
       StubExits, StubOutput, ConnectionLost
  <2>8. ASSUME UNCHANGED vars PROVE FALSE
    BY <2>1, <2>8 DEF vars, wireVars
  <2> QED BY <1>1, <2>4, <2>5, <2>6, <2>7, <2>8 DEF Next
<1> QED BY <1>1, IInvAlways, PTL DEF Spec, ResumeWaitsForAsync

---------------------------------------------------------------------------
(* What is on the wire *)

(* The continue thread has given the connection up, for the exit that       *)
(* follows closes it.                                                       *)
Lost == cret = "invalid" \/ ~connected

LostForGood ==
  cret = "invalid" => cpc \in {"decided", "notifyAll", "exit"} \/ ~connected

Only(q, T) == \A i \in 1 .. Len(q) : q[i].type \in T
OneRun(q) ==
  \A i, j \in 1 .. Len(q) : q[i].type = "run" /\ q[j].type = "run" => i = j
(* Nothing follows a packet that ends the continue call.                    *)
Ended(q) == \A i \in 1 .. Len(q) : q[i].type # "O" => i = Len(q)
(* p waits behind interrupts that came too late.                            *)
AskedLast(q, p) ==
  q # <<>> /\ q[Len(q)] = p /\ \A i \in 1 .. Len(q) : i < Len(q) => q[i].type = "intr"

(* While the continue thread reads the wire carries one run: its packet, or *)
(* output, or the one reply that ends it.                                   *)
Resuming ==
  /\ Only(toStub, {"intr", "run"}) /\ Only(toClient, {"O", "T", "W", "E"})
  /\ OneRun(toStub) /\ Ended(toClient)
  /\ ~Only(toStub, {"intr"}) => toClient = <<>> /\ stub # "running"
  /\ ~Only(toClient, {"O"}) => stub # "running"

(* Otherwise it carries the request of the one thread that waits for its    *)
(* answer, or what is left of the answer, or nothing.                       *)
Asking == {t \in AsyncThreads : pc[t] = "reply"}
Ask(t) == Pkt(IF op[t] = "rcmd" THEN "rcmd" ELSE "req", t)

Conversation(t) ==
  \/ toClient = <<>> /\ AskedLast(toStub, Ask(t))
  \/ /\ toStub = <<>>
     /\ \/ toClient \in {<<>>, <<Pkt("R", t)>>}
        \/ op[t] = "rcmd" /\ toClient = <<Pkt("O", "-"), Pkt("R", t)>>

Quiet ==
  /\ stub # "running"
  /\ Asking = {} => toClient = <<>> /\ Only(toStub, {"intr"})
  /\ \A t \in Asking : Conversation(t)

WireOK == ~Lost => /\ cpc = "read" => Resuming
                   /\ cpc # "read" => Quiet

(* What is inductive together with IInv.                                    *)
WInv == LostForGood /\ WireOK /\ ResponseMatchesRequest

(* A packet that is added to a queue.                                       *)
LEMMA QueueGrows ==
  ASSUME NEW q \in Seq(Packet), NEW p \in Packet
  PROVE  /\ q \o <<p>> = Append(q, p)
         /\ \A T : Only(Append(q, p), T) <=> Only(q, T) /\ p.type \in T
         /\ OneRun(q) /\ (p.type # "run" \/ Only(q, {"intr"})) => OneRun(Append(q, p))
         /\ Only(q, {"O"}) => Ended(Append(q, p))
         /\ Only(q, {"intr"}) => AskedLast(Append(q, p), p)
<1> DEFINE a == Append(q, p)
<1>1. /\ q \o <<p>> = a /\ Len(a) = Len(q) + 1 /\ Len(q) \in Nat /\ a # <<>>
      /\ \A i \in 1 .. Len(q) : a[i] = q[i]
      /\ a[Len(q) + 1] = p
  OBVIOUS
<1> HIDE DEF a
<1>2. \A i \in 1 .. Len(a) : (i \in 1 .. Len(q) /\ a[i] = q[i]) \/ (i = Len(a) /\ a[i] = p)
  BY <1>1
<1>3. /\ \A i \in 1 .. Len(q) : i \in 1 .. Len(a) /\ i # Len(a) /\ i < Len(a)
      /\ Len(a) \in 1 .. Len(a) /\ a[Len(a)] = p
  BY <1>1
<1>4. \A T : Only(a, T) <=> Only(q, T) /\ p.type \in T
  BY <1>1, <1>2, <1>3 DEF Only
<1>5. OneRun(q) /\ (p.type # "run" \/ Only(q, {"intr"})) => OneRun(a)
  BY <1>2 DEF OneRun, Only
<1>6. Only(q, {"O"}) => Ended(a)
  BY <1>2 DEF Ended, Only
<1>7. Only(q, {"intr"}) => AskedLast(a, p)
  BY <1>1, <1>2, <1>3 DEF AskedLast, Only
<1> QED BY <1>1, <1>4, <1>5, <1>6, <1>7 DEF a

(* A packet that is taken from a queue.                                     *)
LEMMA QueueShrinks ==
  ASSUME NEW q \in Seq(Packet), q # <<>>
  PROVE  /\ \A T : Only(q, T) => Head(q).type \in T /\ Only(Tail(q), T)
         /\ OneRun(q) => OneRun(Tail(q))
         /\ OneRun(q) /\ Only(q, {"intr", "run"}) /\ Head(q).type = "run" => Only(Tail(q), {"intr"})
         /\ Ended(q) => Ended(Tail(q))
         /\ Ended(q) /\ Head(q).type # "O" => Tail(q) = <<>>
         /\ \A p : AskedLast(q, p) =>
              \/ Head(q).type = "intr" /\ (p.type # "intr" => AskedLast(Tail(q), p))
              \/ Head(q) = p /\ Tail(q) = <<>>
<1> DEFINE u == Tail(q)
<1>1. /\ u \in Seq(Packet) /\ Len(q) \in Nat /\ Len(u) = Len(q) - 1 /\ Head(q) = q[1]
      /\ \A i \in 1 .. Len(u) : u[i] = q[i + 1]
      /\ Len(q) >= 1 /\ (Len(u) = 0 <=> u = <<>>)
  <2>1. u \in Seq(Packet) /\ Len(u) = Len(q) - 1 /\ \A i \in 1 .. Len(u) : u[i] = q[i + 1]
    BY HeadTailProperties
  <2>2. Len(q) \in Nat /\ Len(q) >= 1 /\ Head(q) = q[1]
    OBVIOUS
  <2>3. Len(u) = 0 <=> u = <<>>
    BY <2>1, EmptySeq
  <2> QED BY <2>1, <2>2, <2>3
<1> HIDE DEF u
<1>2. /\ \A i \in 1 .. Len(u) : i + 1 \in 1 .. Len(q) /\ i + 1 # 1 /\ u[i] = q[i + 1]
      /\ 1 \in 1 .. Len(q)
      /\ \A i, j \in 1 .. Len(u) : i + 1 = j + 1 => i = j
      /\ \A i \in 1 .. Len(u) : i + 1 = Len(q) <=> i = Len(u)
      /\ \A i \in 1 .. Len(u) : i < Len(u) => i + 1 < Len(q)
  BY <1>1
<1>3. \A T : Only(q, T) => Head(q).type \in T /\ Only(u, T)
  BY <1>1, <1>2 DEF Only
<1>4. OneRun(q) => OneRun(u)
  BY <1>2 DEF OneRun
<1>5. OneRun(q) /\ Only(q, {"intr", "run"}) /\ Head(q).type = "run" => Only(u, {"intr"})
  <2> SUFFICES ASSUME OneRun(q), Only(q, {"intr", "run"}), Head(q).type = "run",
                      NEW i \in 1 .. Len(u)
               PROVE  u[i].type = "intr"
    BY DEF Only
  <2>1. i + 1 \in 1 .. Len(q) /\ i + 1 # 1 /\ u[i] = q[i + 1] /\ q[1].type = "run"
    BY <1>1, <1>2
  <2>2. q[i + 1].type # "run"
    BY <1>2, <2>1 DEF OneRun
  <2>3. q[i + 1].type \in {"intr", "run"}
    BY <2>1 DEF Only
  <2> QED BY <2>1, <2>2, <2>3
<1>6. Ended(q) => Ended(u)
  BY <1>2 DEF Ended
<1>7. Ended(q) /\ Head(q).type # "O" => u = <<>>
  BY <1>1, <1>2 DEF Ended
<1>8. ASSUME NEW p, AskedLast(q, p)
      PROVE  \/ Head(q).type = "intr" /\ (p.type # "intr" => AskedLast(u, p))
             \/ Head(q) = p /\ u = <<>>
  <2>1. CASE Len(q) = 1
    BY <1>1, <1>8, <2>1 DEF AskedLast
  <2>2. CASE Len(q) > 1
    <3>1. Head(q).type = "intr" /\ u # <<>> /\ Len(u) \in 1 .. Len(u)
      BY <1>1, <1>2, <1>8, <2>2 DEF AskedLast
    <3>2. u[Len(u)] = q[Len(q)]
      BY <1>1, <3>1
    <3>3. \A i \in 1 .. Len(u) : i < Len(u) => u[i].type = "intr"
      BY <1>2, <1>8 DEF AskedLast
    <3> QED BY <1>8, <3>1, <3>2, <3>3 DEF AskedLast
  <2> QED BY <1>1, <2>1, <2>2
<1> QED BY <1>3, <1>4, <1>5, <1>6, <1>7, <1>8 DEF u

(* An empty queue has nothing in it.                                        *)
LEMMA QueueEmpty == (\A T : Only(<<>>, T)) /\ OneRun(<<>>) /\ Ended(<<>>)
BY DEF Only, OneRun, Ended

(* A wire that nothing happens to stays as it was.                          *)
LEMMA WireFrame ==
  ASSUME UNCHANGED <<toStub, toClient, stub>>, Asking' = Asking,
         \A t \in Asking : op'[t] = op[t]
  PROVE  (Quiet => Quiet') /\ (Resuming => Resuming')
<1>1. \A t \in Asking : Conversation(t) => Conversation(t)'
  BY DEF Conversation, Ask
<1> QED BY <1>1 DEF Quiet, Resuming

(* At most one thread waits for an answer, and only when nothing runs.      *)
LEMMA AskingOne ==
  ASSUME IInv
  PROVE  /\ \A t, u \in Asking : t = u
         /\ m_is_running => Asking = {}
         /\ m_async_count = 0 => Asking = {}
         /\ \A t \in AsyncThreads : pc[t] = "locked" => Asking = {} /\ cpc # "read"
<1>1. \A t \in AsyncThreads : pc[t] \in {"locked", "reply"} => asyncOwner = t
  BY DEF IInv, MutexOwned
<1>2. m_async_count = 0 => Asking = {}
  BY CountZero DEF Asking, Counted, IInv
<1> QED BY <1>1, <1>2 DEF Asking, IInv, LockExcludesRun, HoldsLock, RunningPhase

(* A given-up connection stays so.                                          *)
LEMMA LostStays ==
  ASSUME LostForGood, [Next]_vars
  PROVE  LostForGood' /\ (Lost => Lost')
<1> USE DEF LostForGood, Lost
<1>1. CASE UNCHANGED vars
  BY <1>1 DEF vars, contVars, wireVars
<1>2. CASE Continue
  BY <1>2 DEF Continue, SendContinuePacket, ContinueLockWait, ContinueLockCancelled,
     ContinueLockSuccess, ContinueLockFailed, ReadAsyncData, ReadStopReply,
     ReadTerminal, ReadTimeout, ReadDisconnected, DrainExtraStopReply, ContinueUnlock,
     ContinueNotify, DidExit, wireVars, contVars
<1>3. CASE Stub
  BY <1>3 DEF Stub, StubRun, StubInterrupt, StubAnswer, StubStops, StubExits,
     StubOutput, ConnectionLost, wireUnchanged, contVars
<1>4. ASSUME NEW t \in AsyncThreads, AsyncStart(t) \/ AsyncStep(t)
      PROVE  LostForGood' /\ (Lost => Lost')
  <2>1. PICK o : \/ SyncRefused(t, o) \/ SyncImmediate(t, o) \/ SyncInterrupt(t, o)
                 \/ SyncWriteFailed(t, o) \/ AsyncStep(t)
    BY <1>4 DEF AsyncStart
  <2>2. UNCHANGED <<cpc, cret>>
    BY <2>1 DEF AsyncStep, SyncRefused, SyncImmediate, SyncInterrupt,
       SyncWriteFailed, SyncWake, LockAsyncMutex, SendAsyncSignal, Interrupt, SendRequest,
       ReadReply, ReplyFailed, ReleaseLock, ReleaseNotify, UnlockAsyncMutex, contVars
  <2>3. ~connected => ~connected'
    <3>1. CASE ReplyFailed(t)
      BY <3>1 DEF ReplyFailed
    <3>2. CASE ~ReplyFailed(t)
      BY <2>1, <3>2 DEF AsyncStep, SyncRefused, SyncImmediate, SyncInterrupt,
         SyncWriteFailed, SyncWake, LockAsyncMutex, SendAsyncSignal, Interrupt, SendRequest,
         ReadReply, ReleaseLock, ReleaseNotify, UnlockAsyncMutex, wireVars
    <3> QED BY <3>1, <3>2
  <2> QED BY <2>2, <2>3
<1> QED BY <1>1, <1>2, <1>3, <1>4 DEF Next

(* The continue thread sends a run only on a quiet wire, and leaves it      *)
(* quiet when it has read the reply that ends the run.                      *)
LEMMA WireContinue ==
  ASSUME IInv, LostForGood, WireOK, Continue
  PROVE  WireOK'
<1> SUFFICES ASSUME ~Lost'
             PROVE  (cpc' = "read" => Resuming') /\ (cpc' # "read" => Quiet')
  BY DEF WireOK
<1>1. ~Lost
  BY LostStays DEF Next
<1>2. UNCHANGED <<pc, op>> /\ Asking' = Asking
  BY DEF Asking, Continue, SendContinuePacket, ContinueLockWait, ContinueLockCancelled,
     ContinueLockSuccess, ContinueLockFailed, ReadAsyncData, ReadStopReply,
     ReadTerminal, ReadTimeout, ReadDisconnected, DrainExtraStopReply, ContinueUnlock,
     ContinueNotify, DidExit, asyncVars
<1>3. toStub \in Seq(Packet) /\ toClient \in Seq(Packet)
  BY DEF IInv, TypeOK
<1>4. (cpc = "read" => Resuming) /\ (cpc # "read" => Quiet)
  BY <1>1 DEF WireOK
<1>5. cpc \in {"read", "drain", "decided"} => Asking = {}
  BY AskingOne DEF IInv, RunningPhase
<1>6. CASE SendContinuePacket \/ ContinueLockWait \/ ContinueLockCancelled
           \/ ContinueLockFailed \/ ContinueUnlock \/ ContinueNotify \/ DidExit
  <2>1. UNCHANGED <<toStub, toClient, stub>> /\ cpc # "read" /\ cpc' # "read"
    BY <1>6 DEF SendContinuePacket, ContinueLockWait, ContinueLockCancelled,
       ContinueLockFailed, ContinueUnlock, ContinueNotify, DidExit, wireVars, contVars
  <2> QED BY <1>2, <1>4, <2>1, WireFrame
<1>7. CASE ContinueLockSuccess
  <2>1. Asking = {} /\ cpc # "read" /\ cpc' = "read"
    BY <1>7, AskingOne DEF ContinueLockSuccess
  <2>2. stub # "running" /\ toClient = <<>> /\ Only(toStub, {"intr"})
    BY <1>4, <2>1 DEF Quiet
  <2>3. PICK p \in Packet : p.type = "run" /\ toStub' = Append(toStub, p)
    <3>1. Pkt("run", m_continue_packet).type = "run"
      BY DEF Pkt
    <3> QED BY <1>7, <3>1, PktType DEF ContinueLockSuccess, IInv, TypeOK
  <2>4. toClient' = <<>> /\ stub' # "running"
    BY <1>7, <2>2 DEF ContinueLockSuccess
  <2>5. Only(toStub, {"intr", "run"})
    BY <2>2 DEF Only
  <2>6. Only(toStub', {"intr", "run"}) /\ OneRun(toStub')
    <3>1. p.type \in {"intr", "run"}
      BY <2>3
    <3>2. OneRun(toStub)
      BY <2>2 DEF Only, OneRun
    <3> QED BY <1>3, <2>2, <2>3, <2>5, <3>1, <3>2, QueueGrows
  <2> QED BY <2>1, <2>4, <2>6, QueueEmpty DEF Resuming
<1>8. CASE ReadAsyncData
  <2>1. /\ toClient # <<>> /\ toClient' = Tail(toClient) /\ UNCHANGED <<toStub, stub>>
        /\ cpc = "read" /\ cpc' = "read"
    BY <1>8 DEF ReadAsyncData
  <2>2. Resuming
    BY <1>4, <2>1
  <2> QED BY <1>3, <2>1, <2>2, QueueShrinks DEF Resuming
<1>9. CASE ReadStopReply \/ ReadTerminal
  <2>1. /\ toClient # <<>> /\ Head(toClient).type # "O" /\ toClient' = Tail(toClient)
        /\ UNCHANGED <<toStub, stub>> /\ cpc = "read" /\ cpc' # "read"
    BY <1>9 DEF ReadStopReply, ReadTerminal
  <2>2. Resuming
    BY <1>4, <2>1
  <2>3. toClient' = <<>>
    BY <1>3, <2>1, <2>2, QueueShrinks DEF Resuming
  <2>4. ~Only(toClient, {"O"})
    <3>1. Only(toClient, {"O"}) => Head(toClient).type \in {"O"}
      BY <1>3, <2>1, QueueShrinks
    <3> QED BY <2>1, <3>1
  <2>5. stub # "running" /\ Only(toStub, {"intr"})
    BY <2>1, <2>2, <2>4 DEF Resuming
  <2> QED BY <1>2, <1>5, <2>1, <2>3, <2>5 DEF Quiet
<1>10. CASE ReadTimeout \/ ReadDisconnected
  BY <1>10 DEF ReadTimeout, ReadDisconnected, Lost
<1>11. CASE DrainExtraStopReply
  <2>1. cpc = "drain" /\ Asking = {} /\ cpc' # "read" /\ UNCHANGED <<toStub, stub>>
    BY <1>5, <1>11 DEF DrainExtraStopReply
  <2>2. toClient = <<>>
    BY <1>4, <2>1 DEF Quiet
  <2>3. UNCHANGED toClient
    BY <1>11, <2>2 DEF DrainExtraStopReply
  <2> QED BY <1>2, <1>4, <2>1, <2>3, WireFrame
<1> QED BY <1>6, <1>7, <1>8, <1>9, <1>10, <1>11 DEF Continue

(* What the steps of an async thread do to the wire.                        *)
LEMMA WireAsync ==
  ASSUME IInv, LostForGood, WireOK, ResponseMatchesRequest,
         NEW t \in AsyncThreads, AsyncStart(t) \/ AsyncStep(t)
  PROVE  WireOK' /\ ResponseMatchesRequest'
<1> SUFFICES ASSUME ~Lost'
             PROVE  /\ (cpc = "read" => Resuming') /\ (cpc # "read" => Quiet')
                    /\ \A u \in AsyncThreads : resp'[u] # "other"
  <2>1. UNCHANGED cpc
    BY DEF AsyncStart, AsyncStep, SyncRefused, SyncImmediate, SyncInterrupt,
       SyncWriteFailed, SyncWake, LockAsyncMutex, SendAsyncSignal, Interrupt, SendRequest,
       ReadReply, ReplyFailed, ReleaseLock, ReleaseNotify, UnlockAsyncMutex, contVars
  <2> QED BY <2>1 DEF WireOK, ResponseMatchesRequest, Lost
<1>1. ~Lost
  BY LostStays DEF Next
<1>2. /\ toStub \in Seq(Packet) /\ toClient \in Seq(Packet)
      /\ pc \in [AsyncThreads -> AsyncPhases] /\ op \in [AsyncThreads -> AllOps]
      /\ resp \in [AsyncThreads -> {"none", "own", "other", "fail"}]
      /\ m_is_running \in BOOLEAN
  BY DEF IInv, TypeOK
<1>3. (cpc = "read" => Resuming) /\ (cpc # "read" => Quiet)
  BY <1>1 DEF WireOK
<1>4. \A u \in AsyncThreads : resp[u] # "other"
  BY <1>1 DEF ResponseMatchesRequest, Lost
<1>5. UNCHANGED stub
  BY DEF AsyncStart, AsyncStep, SyncRefused, SyncImmediate, SyncInterrupt,
     SyncWriteFailed, SyncWake, LockAsyncMutex, SendAsyncSignal, Interrupt, SendRequest,
     ReadReply, ReplyFailed, ReleaseLock, ReleaseNotify, UnlockAsyncMutex, wireVars
(* A thread that moves between two phases in which it does not ask.         *)
<1>6. ASSUME \A u \in AsyncThreads \ {t} : pc'[u] = pc[u] /\ op'[u] = op[u],
             pc[t] # "reply", pc'[t] # "reply"
      PROVE  Asking' = Asking /\ \A u \in Asking : op'[u] = op[u]
  BY <1>6 DEF Asking
<1>7. ASSUME NEW o \in Ops, SyncRefused(t, o) \/ SyncImmediate(t, o) \/ SyncWriteFailed(t, o)
      PROVE  /\ (cpc = "read" => Resuming') /\ (cpc # "read" => Quiet')
             /\ \A u \in AsyncThreads : resp'[u] # "other"
  <2>1. /\ UNCHANGED <<toStub, toClient, stub>>
        /\ \A u \in AsyncThreads \ {t} : pc'[u] = pc[u] /\ op'[u] = op[u]
        /\ pc[t] # "reply" /\ pc'[t] # "reply"
    BY <1>2, <1>7 DEF SyncRefused, SyncImmediate, SyncWriteFailed, Enter, Go, wireVars
  <2>2. \A u \in AsyncThreads : resp'[u] # "other"
    BY <1>2, <1>4, <1>7 DEF SyncRefused, SyncImmediate, SyncWriteFailed
  <2> QED BY <1>3, <1>6, <2>1, <2>2, WireFrame
<1>8. ASSUME NEW o \in Ops, SyncInterrupt(t, o)
      PROVE  /\ (cpc = "read" => Resuming') /\ (cpc # "read" => Quiet')
             /\ \A u \in AsyncThreads : resp'[u] # "other"
  <2>1. /\ UNCHANGED <<toClient, stub>> /\ m_is_running
        /\ \A u \in AsyncThreads \ {t} : pc'[u] = pc[u] /\ op'[u] = op[u]
        /\ pc[t] # "reply" /\ pc'[t] # "reply"
        /\ UNCHANGED toStub \/ toStub' = Append(toStub, Pkt("intr", "-"))
    BY <1>2, <1>8 DEF SyncInterrupt, Enter, Go
  <2>2. \A u \in AsyncThreads : resp'[u] # "other"
    BY <1>2, <1>4, <1>8 DEF SyncInterrupt
  <2>3. Asking' = Asking /\ (\A u \in Asking : op'[u] = op[u]) /\ Asking = {}
    BY <1>6, <2>1, AskingOne
  <2>4. CASE UNCHANGED toStub
    BY <1>3, <2>1, <2>2, <2>3, <2>4, WireFrame
  <2>5. CASE toStub' = Append(toStub, Pkt("intr", "-"))
    <3>1. PICK p \in Packet : p.type = "intr" /\ toStub' = Append(toStub, p)
      <4>1. Pkt("intr", "-").type = "intr" /\ Pkt("intr", "-") \in Packet
        BY PktType DEF Pkt
      <4> QED BY <2>5, <4>1
    <3>2. \A T : Only(toStub', T) <=> Only(toStub, T) /\ p.type \in T
      BY <1>2, <3>1, QueueGrows
    <3>3. OneRun(toStub) => OneRun(toStub')
      BY <1>2, <3>1, QueueGrows
    <3>4. p.type \in {"intr"} /\ p.type \in {"intr", "run"}
      BY <3>1
    <3>5. Resuming => Resuming'
      BY <2>1, <3>2, <3>3, <3>4 DEF Resuming
    <3>6. Quiet => Quiet'
      BY <2>1, <2>3, <3>2, <3>4 DEF Quiet
    <3> QED BY <1>3, <2>2, <3>5, <3>6
  <2> QED BY <2>1, <2>4, <2>5
<1>9. CASE SyncWake(t) \/ LockAsyncMutex(t) \/ SendAsyncSignal(t) \/ Interrupt(t)
           \/ ReleaseLock(t) \/ ReleaseNotify(t) \/ UnlockAsyncMutex(t)
  <2>1. /\ UNCHANGED <<toStub, toClient, stub>>
        /\ \A u \in AsyncThreads \ {t} : pc'[u] = pc[u] /\ op'[u] = op[u]
        /\ pc[t] # "reply" /\ pc'[t] # "reply"
    BY <1>2, <1>9 DEF SyncWake, LockAsyncMutex, SendAsyncSignal, Interrupt,
       ReleaseLock, ReleaseNotify, UnlockAsyncMutex, Go, wireVars
  <2>2. \A u \in AsyncThreads : resp'[u] # "other"
    BY <1>2, <1>4, <1>9 DEF SyncWake, LockAsyncMutex, SendAsyncSignal, Interrupt,
       ReleaseLock, ReleaseNotify, UnlockAsyncMutex
  <2> QED BY <1>3, <1>6, <2>1, <2>2, WireFrame
<1>10. CASE SendRequest(t)
  <2>1. connected /\ pc[t] = "locked"
    BY <1>1, <1>10 DEF SendRequest, Lost
  <2>2. Asking = {} /\ cpc # "read" /\ Quiet
    BY <1>3, <2>1, AskingOne
  <2>3. /\ toStub' = Append(toStub, Ask(t)) /\ UNCHANGED <<toClient, stub, op, resp>>
        /\ pc' = [pc EXCEPT ![t] = "reply"]
    BY <1>5, <1>10, <2>1 DEF SendRequest, Go, Ask
  <2>4. Ask(t) \in Packet
    BY PktType DEF Ask
  <2>5. AskedLast(toStub', Ask(t)) /\ toClient' = <<>>
    BY <1>2, <2>2, <2>3, <2>4, QueueGrows DEF Quiet
  <2>6. Asking' = {t}
    BY <1>2, <2>2, <2>3 DEF Asking
  <2>7. Conversation(t)'
    BY <2>3, <2>5 DEF Conversation, Ask
  <2> QED BY <1>4, <2>2, <2>3, <2>6, <2>7 DEF Quiet
<1>11. CASE ReadReply(t)
  <2>1. t \in Asking /\ toClient # <<>> /\ toClient' = Tail(toClient) /\ UNCHANGED <<toStub, op>>
    BY <1>11 DEF ReadReply, Asking
  <2>2. Asking = {t}
    BY <2>1, AskingOne
  <2>3. cpc # "read" /\ Quiet /\ Conversation(t)
    <3>1. ~m_is_running
      BY <2>1, AskingOne
    <3> QED BY <1>3, <2>1, <3>1 DEF Quiet, IInv, RunningPhase
  <2>4. toStub = <<>> /\ stub # "running"
    BY <2>1, <2>3 DEF Conversation, Quiet
  <2>5. CASE toClient = <<Pkt("R", t)>>
    <3>1. Head(toClient) = Pkt("R", t) /\ Tail(toClient) = <<>> /\ Pkt("R", t).type # "O"
      BY <2>5 DEF Pkt
    <3>2. /\ pc' = [pc EXCEPT ![t] = "release"] /\ resp' = [resp EXCEPT ![t] = "own"]
      BY <1>11, <3>1 DEF ReadReply, Go
    <3>3. Asking' = {}
      BY <1>2, <2>2, <3>2 DEF Asking
    <3>4. Quiet'
      BY <1>5, <2>1, <2>4, <3>1, <3>3, QueueEmpty DEF Quiet
    <3> QED BY <1>2, <1>4, <2>3, <3>2, <3>4
  <2>6. CASE op[t] = "rcmd" /\ toClient = <<Pkt("O", "-"), Pkt("R", t)>>
    <3>1. Head(toClient).type = "O" /\ Tail(toClient) = <<Pkt("R", t)>>
      BY <2>6 DEF Pkt
    <3>2. UNCHANGED <<pc, resp>>
      BY <1>11, <2>6, <3>1 DEF ReadReply
    <3>3. Asking' = {t}
      BY <2>2, <3>2 DEF Asking
    <3>4. Conversation(t)'
      BY <2>1, <2>4, <3>1 DEF Conversation
    <3> QED BY <1>4, <1>5, <2>3, <2>4, <3>2, <3>3, <3>4 DEF Quiet
  <2> QED BY <2>1, <2>3, <2>5, <2>6 DEF Conversation
<1>12. CASE ReplyFailed(t)
  <2>1. /\ t \in Asking /\ connected' /\ UNCHANGED <<toStub, toClient>>
    BY <1>12 DEF ReplyFailed, Asking, Lost
  <2>2. toClient = <<>> /\ toStub = <<>>
    BY <1>1, <1>12, <2>1 DEF ReplyFailed, Lost
  <2>3. pc' = [pc EXCEPT ![t] = "release"] /\ resp' = [resp EXCEPT ![t] = "fail"]
    BY <1>12 DEF ReplyFailed, Go
  <2>4. Asking' = {} /\ cpc # "read"
    <3>1. Asking = {t} /\ ~m_is_running
      BY <2>1, AskingOne
    <3> QED BY <1>2, <2>3, <3>1 DEF Asking, IInv, RunningPhase
  <2>5. Quiet'
    BY <1>3, <1>5, <2>1, <2>2, <2>4, QueueEmpty DEF Quiet
  <2> QED BY <1>2, <1>4, <2>3, <2>4, <2>5
<1> QED BY <1>7, <1>8, <1>9, <1>10, <1>11, <1>12 DEF AsyncStart, AsyncStep

(* What the stub reads, answers and reports, if it is silent when it is     *)
(* interrupted too late.                                                    *)
LEMMA WireStub ==
  ASSUME IInv, LostForGood, WireOK, ~EchoLateInterrupt, Stub
  PROVE  WireOK'
<1> SUFFICES ASSUME ~Lost'
             PROVE  (cpc' = "read" => Resuming') /\ (cpc' # "read" => Quiet')
  BY DEF WireOK
<1>1. ~Lost
  BY LostStays DEF Next
<1>2. UNCHANGED <<pc, op, cpc, cret>>
  BY DEF Stub, StubRun, StubInterrupt, StubAnswer, StubStops, StubExits,
     StubOutput, ConnectionLost, wireUnchanged, asyncVars, contVars
<1>3. Asking' = Asking
  BY <1>2 DEF Asking
<1>4. toStub \in Seq(Packet) /\ toClient \in Seq(Packet)
  BY DEF IInv, TypeOK
<1>5. (cpc = "read" => Resuming) /\ (cpc # "read" => Quiet)
  BY <1>1 DEF WireOK
<1>6. cpc = "read" => Asking = {}
  BY AskingOne DEF IInv, RunningPhase
<1>7. Asking # {} => \E t \in Asking : Asking = {t}
  BY AskingOne
<1>8. \A t \in AsyncThreads : Ask(t).type \in {"req", "rcmd"} /\ Ask(t).arg = t
  BY DEF Ask, Pkt
<1>9. Asking \subseteq AsyncThreads
  BY DEF Asking
<1>10. ASSUME toStub # <<>>, cpc # "read"
       PROVE  \/ Head(toStub).type = "intr" /\ (toStub' = Tail(toStub) /\ UNCHANGED <<toClient, stub>> => Quiet')
              \/ \E t \in Asking : /\ Head(toStub) = Ask(t) /\ Tail(toStub) = <<>>
                                   /\ toClient = <<>> /\ Asking = {t}
  <2>1. Quiet
    BY <1>5, <1>10
  <2>2. CASE Asking = {}
    <3>1. toClient = <<>> /\ Only(toStub, {"intr"})
      BY <2>1, <2>2 DEF Quiet
    <3>2. Head(toStub).type = "intr" /\ Only(Tail(toStub), {"intr"})
      <4>1. Head(toStub).type \in {"intr"} /\ Only(Tail(toStub), {"intr"})
        BY <1>4, <1>10, <3>1, QueueShrinks
      <4> QED BY <4>1
    <3> QED BY <1>3, <2>1, <2>2, <3>1, <3>2 DEF Quiet
  <2>3. ASSUME NEW t \in Asking, Asking = {t}
        PROVE  \/ Head(toStub).type = "intr" /\ (toStub' = Tail(toStub) /\ UNCHANGED <<toClient, stub>> => Quiet')
               \/ Head(toStub) = Ask(t) /\ Tail(toStub) = <<>> /\ toClient = <<>>
    <3>1. toClient = <<>> /\ AskedLast(toStub, Ask(t))
      BY <1>10, <2>1 DEF Quiet, Conversation
    <3>2. Ask(t).type # "intr"
      BY <1>8, <1>9
    <3>3. \/ Head(toStub).type = "intr" /\ AskedLast(Tail(toStub), Ask(t))
          \/ Head(toStub) = Ask(t) /\ Tail(toStub) = <<>>
      BY <1>4, <1>10, <3>1, <3>2, QueueShrinks
    <3>4. ASSUME AskedLast(Tail(toStub), Ask(t)), toStub' = Tail(toStub),
                 UNCHANGED <<toClient, stub>>
          PROVE  Quiet'
      <4>1. Conversation(t)'
        BY <1>2, <3>1, <3>4 DEF Conversation, Ask
      <4> QED BY <1>3, <2>1, <2>3, <3>4, <4>1 DEF Quiet
    <3> QED BY <3>1, <3>3, <3>4
  <2> QED BY <1>7, <2>2, <2>3
<1>11. ASSUME toStub # <<>>, cpc = "read"
       PROVE  /\ Head(toStub).type \in {"intr", "run"} /\ Only(Tail(toStub), {"intr", "run"})
              /\ OneRun(Tail(toStub))
              /\ Only(toStub, {"intr"}) => Only(Tail(toStub), {"intr"})
              /\ Head(toStub).type = "run" =>
                   Only(Tail(toStub), {"intr"}) /\ toClient = <<>> /\ stub # "running"
  <2>1. Resuming
    BY <1>5, <1>11
  <2>2. /\ Head(toStub).type \in {"intr", "run"} /\ Only(Tail(toStub), {"intr", "run"})
        /\ OneRun(Tail(toStub))
        /\ Only(toStub, {"intr"}) => Only(Tail(toStub), {"intr"}) /\ Head(toStub).type \in {"intr"}
        /\ Head(toStub).type = "run" => Only(Tail(toStub), {"intr"})
    BY <1>4, <1>11, <2>1, QueueShrinks DEF Resuming
  <2> QED BY <2>1, <2>2 DEF Resuming
(* A packet added behind the output of a run.                               *)
<1>12. ASSUME cpc = "read", Only(toClient, {"O"}), Only(toStub', {"intr"}),
              NEW p \in Packet, p.type \in {"O", "T", "W", "E"},
              toClient' = toClient \o <<p>>, p.type = "O" \/ stub' # "running"
       PROVE  Resuming'
  <2>1. Resuming
    BY <1>5, <1>12
  <2>2. /\ \A T : Only(toClient', T) <=> Only(toClient, T) /\ p.type \in T
        /\ Ended(toClient')
    <3>1. toClient' = Append(toClient, p)
      BY <1>4, <1>12, QueueGrows
    <3>2. Only(toClient, {"O"}) => Ended(Append(toClient, p))
      BY <1>4, <1>12, QueueGrows
    <3>3. \A T : Only(Append(toClient, p), T) <=> Only(toClient, T) /\ p.type \in T
      BY <1>4, <1>12, QueueGrows
    <3> QED BY <1>12, <3>1, <3>2, <3>3
  <2>3. Only(toClient', {"O", "T", "W", "E"}) /\ (p.type = "O" => Only(toClient', {"O"}))
    BY <1>12, <2>1, <2>2 DEF Resuming
  <2>4. Only(toStub', {"intr", "run"}) /\ OneRun(toStub')
    BY <1>12 DEF Only, OneRun
  <2> QED BY <1>12, <2>2, <2>3, <2>4 DEF Resuming
<1>13. ASSUME stub = "running"
       PROVE  cpc = "read" /\ Only(toClient, {"O"}) /\ Only(toStub, {"intr"})
  BY <1>5, <1>13 DEF Quiet, Resuming
<1>14. CASE StubRun
  <2>1. toStub # <<>> /\ Head(toStub).type = "run" /\ toStub' = Tail(toStub)
    BY <1>14 DEF StubRun
  <2>2. cpc = "read"
    BY <1>8, <1>9, <1>10, <2>1
  <2>3. /\ Only(toStub', {"intr", "run"}) /\ OneRun(toStub') /\ Only(toStub', {"intr"})
        /\ toClient = <<>> /\ stub # "running"
    BY <1>11, <2>1, <2>2
  <2>4. CASE UNCHANGED toClient
    BY <1>2, <2>2, <2>3, <2>4, QueueEmpty DEF Resuming
  <2>5. CASE UNCHANGED stub /\ StubSends(<<Pkt("E", "-")>>)
    <3>1. Pkt("E", "-").type = "E" /\ Pkt("E", "-") \in Packet
      BY PktType DEF Pkt
    <3> QED BY <1>2, <1>12, <2>2, <2>3, <2>5, <3>1, QueueEmpty DEF StubSends
  <2> QED BY <1>14, <2>4, <2>5 DEF StubRun
<1>15. CASE StubInterrupt
  <2>1. toStub # <<>> /\ Head(toStub).type = "intr" /\ toStub' = Tail(toStub)
    BY <1>15 DEF StubInterrupt
  <2>2. CASE stub = "running"
    <3>1. stub' = "stopped" /\ toClient' = toClient \o <<Pkt("T", "int")>>
      BY <1>15, <2>2 DEF StubInterrupt, StubSends
    <3>2. Pkt("T", "int").type = "T" /\ Pkt("T", "int") \in Packet
      BY PktType DEF Pkt
    <3>3. Only(toStub', {"intr"})
      BY <1>11, <1>13, <2>1, <2>2
    <3> QED BY <1>2, <1>12, <1>13, <2>2, <3>1, <3>2, <3>3
  <2>3. CASE stub # "running"
    <3>1. UNCHANGED <<toClient, stub>>
      BY <1>15, <2>3 DEF StubInterrupt
    <3>2. CASE cpc # "read"
      BY <1>2, <1>8, <1>9, <1>10, <2>1, <3>1, <3>2
    <3>3. CASE cpc = "read"
      BY <1>2, <1>5, <1>11, <2>1, <3>1, <3>3 DEF Resuming
    <3> QED BY <3>2, <3>3
  <2> QED BY <2>2, <2>3
<1>16. CASE StubAnswer
  <2>1. toStub # <<>> /\ Head(toStub).type \in {"req", "rcmd"} /\ toStub' = Tail(toStub) /\ UNCHANGED stub
    BY <1>16 DEF StubAnswer
  <2>2. cpc # "read"
    BY <1>11, <2>1
  <2>3. PICK t \in Asking : /\ Head(toStub) = Ask(t) /\ Tail(toStub) = <<>>
                            /\ toClient = <<>> /\ Asking = {t}
    BY <1>10, <2>1, <2>2
  <2>4. Pkt("R", Head(toStub).arg) = Pkt("R", t) /\ Pkt("R", t) \in Packet /\ Pkt("O", "-") \in Packet
    <3>1. Head(toStub) \in Packet /\ Head(toStub).arg = t
      BY <1>4, <1>8, <1>9, <2>1, <2>3
    <3> QED BY <3>1, PktType
  <2>5. Head(toStub).type = "rcmd" => op[t] = "rcmd"
    BY <2>3 DEF Ask, Pkt
  <2>6. \/ toClient' \in {<<>>, <<Pkt("R", t)>>}
        \/ op[t] = "rcmd" /\ toClient' = <<Pkt("O", "-"), Pkt("R", t)>>
    <3>1. \A u \in Seq(Packet) : <<>> \o u = u
      OBVIOUS
    <3>2. <<Pkt("R", t)>> \in Seq(Packet) /\ <<Pkt("O", "-"), Pkt("R", t)>> \in Seq(Packet)
      BY <2>4
    <3>3. \/ toClient' = <<>> \o <<Pkt("R", t)>>
          \/ toClient' = <<>>
          \/ Head(toStub).type = "rcmd" /\ toClient' = <<>> \o <<Pkt("O", "-"), Pkt("R", t)>>
      BY <1>16, <2>3, <2>4 DEF StubAnswer, StubSends
    <3> QED BY <2>5, <3>1, <3>2, <3>3
  <2>7. Conversation(t)'
    BY <1>2, <2>1, <2>3, <2>6 DEF Conversation
  <2> QED BY <1>2, <1>3, <1>5, <2>1, <2>2, <2>3, <2>7 DEF Quiet
<1>17. CASE StubStops
  <2>1. PICK w \in {"int", "other"} : toClient' = toClient \o <<Pkt("T", w)>>
    BY <1>17 DEF StubStops, StubSends
  <2>2. Pkt("T", w).type = "T" /\ Pkt("T", w) \in Packet
    BY PktType DEF Pkt
  <2>3. stub = "running" /\ stub' # "running" /\ UNCHANGED toStub
    BY <1>17 DEF StubStops
  <2> QED BY <1>2, <1>12, <1>13, <2>1, <2>2, <2>3
<1>18. CASE StubExits
  <2>1. /\ toClient' = toClient \o <<Pkt("W", "-")>>
        /\ stub = "running" /\ stub' # "running" /\ UNCHANGED toStub
    BY <1>18 DEF StubExits, StubSends
  <2>2. Pkt("W", "-").type = "W" /\ Pkt("W", "-") \in Packet
    BY PktType DEF Pkt
  <2> QED BY <1>2, <1>12, <1>13, <2>1, <2>2
<1>19. CASE StubOutput
  <2>1. toClient' = toClient \o <<Pkt("O", "-")>> /\ stub = "running" /\ UNCHANGED toStub
    BY <1>19 DEF StubOutput, StubSends
  <2>2. Pkt("O", "-").type = "O" /\ Pkt("O", "-") \in Packet
    BY PktType DEF Pkt
  <2> QED BY <1>2, <1>12, <1>13, <2>1, <2>2
<1>20. CASE ConnectionLost
  BY <1>20 DEF ConnectionLost, Lost
<1> QED BY <1>14, <1>15, <1>16, <1>17, <1>18, <1>19, <1>20 DEF Stub

(* The wire's invariant holds in every reachable state.                     *)
LEMMA WireAlways ==
  ASSUME ~EchoLateInterrupt
  PROVE  Spec => [](IInv /\ WInv)
<1>1. Init => WInv
  BY QueueEmpty DEF Init, WInv, LostForGood, WireOK, Quiet, Asking, ResponseMatchesRequest
<1>2. IInv /\ WInv /\ [Next]_vars => WInv'
  <2> SUFFICES ASSUME IInv, WInv, [Next]_vars PROVE WInv'
    OBVIOUS
  <2> USE DEF WInv
  <2>1. LostForGood' /\ (Lost => Lost')
    BY LostStays
  <2>2. ASSUME UNCHANGED resp PROVE ResponseMatchesRequest'
    BY <2>1, <2>2 DEF ResponseMatchesRequest, Lost
  <2>3. CASE UNCHANGED vars
    <3>1. UNCHANGED <<toStub, toClient, stub, pc, op, cpc, cret, connected, resp>>
      BY <2>3 DEF vars, asyncVars, contVars, wireVars
    <3>2. WireOK'
      BY <3>1, WireFrame DEF WireOK, Lost, Asking
    <3> QED BY <2>1, <2>2, <3>1, <3>2
  <2>4. CASE Continue
    <3>1. UNCHANGED resp
      BY <2>4 DEF Continue, SendContinuePacket, ContinueLockWait, ContinueLockCancelled,
         ContinueLockSuccess, ContinueLockFailed, ReadAsyncData, ReadStopReply,
         ReadTerminal, ReadTimeout, ReadDisconnected, DrainExtraStopReply, ContinueUnlock,
         ContinueNotify, DidExit, asyncVars
    <3> QED BY <2>1, <2>2, <2>4, <3>1, WireContinue
  <2>5. CASE Stub
    <3>1. UNCHANGED resp
      BY <2>5 DEF Stub, StubRun, StubInterrupt, StubAnswer, StubStops, StubExits,
         StubOutput, ConnectionLost, wireUnchanged, asyncVars
    <3> QED BY <2>1, <2>2, <2>5, <3>1, WireStub
  <2> QED BY <2>1, <2>3, <2>4, <2>5, WireAsync DEF Next
<1> QED BY <1>1, <1>2, IInvInit, IInvNext, PTL DEF Spec

(* The stub is asked nothing while the inferior runs (lines 57-74), for any *)
(* number of threads and calls, if it does not report a stop once more for  *)
(* an interrupt that came too late.                                         *)
THEOREM NoRequestWhileRunning ==
  ASSUME ~EchoLateInterrupt
  PROVE  Spec => []RequestsOnlyWhileStopped
<1>1. ASSUME IInv, WInv PROVE RequestsOnlyWhileStopped
  <2> SUFFICES ASSUME stub = "running", toStub # <<>>, ~Lost
               PROVE  Head(toStub).type \notin {"req", "rcmd"}
    BY DEF RequestsOnlyWhileStopped, Lost
  <2>1. Only(toStub, {"intr", "run"}) /\ toStub \in Seq(Packet)
    BY <1>1 DEF WInv, WireOK, Quiet, Resuming, IInv, TypeOK
  <2>2. Head(toStub).type \in {"intr", "run"}
    BY <2>1, QueueShrinks
  <2> QED BY <2>2
<1> QED BY <1>1, WireAlways, PTL

(* Every request is answered by its own response (lines 201-228), under the *)
(* same condition.                                                          *)
THEOREM AnswersMatch ==
  ASSUME ~EchoLateInterrupt
  PROVE  Spec => []ResponseMatchesRequest
<1>1. WInv => ResponseMatchesRequest
  BY DEF WInv
<1> QED BY <1>1, WireAlways, PTL
============================================================================
