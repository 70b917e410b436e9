------------------------ MODULE GDBRemoteClientBase ------------------------
(***************************************************************************)
(* The synchronisation of the gdb-remote connection:                       *)
(* source/Plugins/Process/gdb-remote/GDBRemoteClientBase.{h,cpp}.          *)
(*                                                                         *)
(* One continue thread (ProcessGDBRemote::AsyncThread) resumes the         *)
(* inferior and blocks until it stops, holding the ContinueLock.  Any      *)
(* number of other threads send packets through the class Lock: while the  *)
(* inferior runs they interrupt it with ^C, wait for the continue thread   *)
(* to let go of the connection, do their work and let it resume.           *)
(*                                                                         *)
(* Each m_mutex critical section is one step.  The exception is            *)
(* ShouldStop, which keeps m_mutex while it waits for a second stop reply  *)
(* (phase "drain").  m_cv is the set of threads asleep on it: a wait that  *)
(* finds its predicate false enters the set, a notification takes threads  *)
(* out and they test the predicate again.                                  *)
(*                                                                         *)
(* The remote stub and the byte stream are external: two FIFO channels, a  *)
(* stub that runs, stops, answers and exits, and a connection that may be  *)
(* lost.                                                                   *)
(***************************************************************************)
EXTENDS Integers, Sequences, FiniteSets

CONSTANTS
  AsyncThreads,      \* threads that use GDBRemoteClientBase::Lock
  Cont,              \* the continue thread
  Ops,               \* the calls async threads make, a subset of AllOps
  EchoLateInterrupt, \* does a stopped stub answer ^C with a stop reply?
  SpontaneousInt,    \* may the inferior itself raise SIGINT or SIGSTOP?
  EndlessOutput,     \* may the inferior write output without end?
  MaxCalls,          \* bound: calls made by all threads together
  MaxOutput,         \* bound: 'O', 'A' and 'J' packets sent by the stub
  MaxPending         \* bound: packets in flight from the stub

AllOps == {"request", "requestSync", "json", "rcmd", "signal", "interrupt"}

ASSUME ThreadsAssumption == IsFiniteSet(AsyncThreads) /\ Cont \notin AsyncThreads

ASSUME OpsAssumption == Ops \subseteq AllOps

ASSUME BoundsAssumption ==
  /\ EchoLateInterrupt \in BOOLEAN
  /\ SpontaneousInt \in BOOLEAN
  /\ EndlessOutput \in BOOLEAN
  /\ MaxCalls \in Nat /\ MaxOutput \in Nat /\ MaxPending \in Nat

VARIABLES
  m_async_count,     \* GDBRemoteClientBase::m_async_count
  m_is_running,      \* GDBRemoteClientBase::m_is_running
  m_should_stop,     \* GDBRemoteClientBase::m_should_stop
  m_continue_packet, \* GDBRemoteClientBase::m_continue_packet
  asleep,            \* threads asleep on m_cv
  asyncOwner,        \* owner of m_async_mutex, or Cont when it is free
  pc,                \* phase of each async thread
  op,                \* the call each async thread is in
  didInterrupt,      \* Lock::m_did_interrupt of that call
  retries,           \* invalid responses it has ignored
  resp,              \* what the call's response turned out to be
  cpc,               \* phase of the continue thread
  first,             \* no run packet sent yet in this continue call?
  cret,              \* what the call will return, "none" to resume again
  toStub, toClient,  \* the two directions of the connection
  connected,         \* IsConnected()
  stub,              \* state of the inferior as the stub knows it
  calls, outputs     \* counters for the bounds

clientVars == <<m_async_count, m_is_running, m_should_stop, m_continue_packet,
                asleep, asyncOwner>>
asyncVars  == <<pc, op, didInterrupt, retries, resp>>
contVars   == <<cpc, first, cret>>
wireVars   == <<toStub, toClient, connected, stub>>
vars == <<clientVars, asyncVars, contVars, wireVars, calls, outputs>>

---------------------------------------------------------------------------
(* Packets.  Only what the client's control flow looks at is kept.          *)

RunPackets == {"payload", "c", "C"}
Packet == [type : {"run", "intr", "req", "rcmd", "T", "W", "E", "O", "R"},
           arg  : RunPackets \union {"int", "other", "-"} \union AsyncThreads]

Pkt(t, a) == [type |-> t, arg |-> a]

AsyncPhases == {"idle", "cvWait", "acquired", "locked", "reply", "release",
                "notify", "unlockAsync"}
ContPhases  == {"idle", "lock", "read", "drain", "decided", "notifyAll", "exit",
                "done"}
Results     == {"none", "stopped", "exited", "invalid"}

TypeOK ==
  /\ m_async_count \in Nat
  /\ m_is_running \in BOOLEAN
  /\ m_should_stop \in BOOLEAN
  /\ m_continue_packet \in RunPackets
  /\ asleep \subseteq AsyncThreads \union {Cont}
  /\ asyncOwner \in AsyncThreads \union {Cont}
  /\ pc \in [AsyncThreads -> AsyncPhases]
  /\ op \in [AsyncThreads -> AllOps]
  /\ didInterrupt \in [AsyncThreads -> BOOLEAN]
  /\ retries \in [AsyncThreads -> Nat]
  /\ resp \in [AsyncThreads -> {"none", "own", "other", "fail"}]
  /\ cpc \in ContPhases
  /\ first \in BOOLEAN
  /\ cret \in Results
  /\ toStub \in Seq(Packet)
  /\ toClient \in Seq(Packet)
  /\ connected \in BOOLEAN
  /\ stub \in {"stopped", "running", "exited"}
  /\ calls \in Nat
  /\ outputs \in Nat

Init ==
  /\ m_async_count = 0
  /\ m_is_running = FALSE
  /\ m_should_stop = FALSE
  /\ m_continue_packet = "c"
  /\ asleep = {}
  /\ asyncOwner = Cont
  /\ pc = [t \in AsyncThreads |-> "idle"]
  /\ op = [t \in AsyncThreads |-> "request"]
  /\ didInterrupt = [t \in AsyncThreads |-> FALSE]
  /\ retries = [t \in AsyncThreads |-> 0]
  /\ resp = [t \in AsyncThreads |-> "none"]
  /\ cpc = "idle"
  /\ first = TRUE
  /\ cret = "none"
  /\ toStub = <<>>
  /\ toClient = <<>>
  /\ connected = TRUE
  /\ stub = "stopped"
  /\ calls = 0
  /\ outputs = 0

---------------------------------------------------------------------------
(* m_mutex is only held across steps while ShouldStop drains the stream.    *)
MutexFree == cpc # "drain"

NotifyOne ==
  IF asleep = {} THEN UNCHANGED asleep
                 ELSE \E t \in asleep : asleep' = asleep \ {t}

---------------------------------------------------------------------------
(* The continue thread: SendContinuePacketAndWaitForResponse.               *)

(* A new call stores its payload and forgets an old interrupt.              *)
SendContinuePacket ==
  /\ cpc = "idle" /\ MutexFree
  /\ calls < MaxCalls
  /\ calls' = calls + 1
  /\ m_continue_packet' = "payload"
  /\ m_should_stop' = FALSE
  /\ cpc' = "lock" /\ first' = TRUE /\ cret' = "none"
  /\ UNCHANGED <<m_async_count, m_is_running, asleep, asyncOwner, asyncVars,
                 wireVars, outputs>>

(* ContinueLock::lock: m_cv.wait until no async thread is interested...     *)
ContinueLockWait ==
  /\ cpc = "lock" /\ Cont \notin asleep
  /\ m_async_count # 0
  /\ asleep' = asleep \union {Cont}
  /\ UNCHANGED <<m_async_count, m_is_running, m_should_stop, m_continue_packet,
                 asyncOwner, asyncVars, contVars, wireVars, calls, outputs>>

(* ...then give up if an Interrupt() asked for it: the constructor's caller *)
(* returns eStateInvalid, a resume returns eStateStopped.                   *)
ContinueLockCancelled ==
  /\ cpc = "lock" /\ Cont \notin asleep
  /\ m_async_count = 0 /\ m_should_stop
  /\ m_should_stop' = FALSE
  /\ cpc' = IF first THEN "exit" ELSE "idle"
  /\ cret' = IF first THEN "invalid" ELSE "stopped"
  /\ UNCHANGED <<m_async_count, m_is_running, m_continue_packet, asleep,
                 asyncOwner, asyncVars, first, wireVars,
                 calls, outputs>>

(* Mutant: lock() sends without waiting for the async threads.              *)
ContinueLockSuccess_NoWait ==
  /\ cpc = "lock" /\ Cont \notin asleep
  /\ ~m_should_stop
  /\ connected
  /\ toStub' = Append(toStub, Pkt("run", m_continue_packet))
  /\ m_is_running' = TRUE
  /\ first' = FALSE
  /\ cpc' = "read"
  /\ UNCHANGED <<m_async_count, m_should_stop, m_continue_packet, asleep,
                 asyncOwner, asyncVars, cret, toClient, connected, stub, calls,
                 outputs>>

(* ...or send the packet and own the connection.                            *)
ContinueLockSuccess ==
  /\ cpc = "lock" /\ Cont \notin asleep
  /\ m_async_count = 0 /\ ~m_should_stop
  /\ connected
  /\ toStub' = Append(toStub, Pkt("run", m_continue_packet))
  /\ m_is_running' = TRUE
  /\ first' = FALSE
  /\ cpc' = "read"
  /\ UNCHANGED <<m_async_count, m_should_stop, m_continue_packet, asleep,
                 asyncOwner, asyncVars, cret, toClient, connected, stub, calls,
                 outputs>>

ContinueLockFailed ==
  /\ cpc = "lock" /\ Cont \notin asleep
  /\ m_async_count = 0 /\ ~m_should_stop
  /\ ~connected
  /\ cpc' = "exit" /\ cret' = "invalid"
  /\ UNCHANGED <<clientVars, asyncVars, first, wireVars,
                 calls, outputs>>

(* ReadPacket succeeded with a packet that does not end the wait:           *)
(* 'O', 'A' and 'J' go to the delegate and the loop reads again.            *)
ReadAsyncData ==
  /\ cpc = "read" /\ toClient # <<>> /\ connected
  /\ Head(toClient).type = "O"
  /\ toClient' = Tail(toClient)
  /\ UNCHANGED <<clientVars, asyncVars, cpc, first, cret, toStub,
                 connected, stub, calls, outputs>>

(* A stop reply.  Without async threads it is a genuine stop; otherwise     *)
(* ShouldStop goes on to look for a second reply with m_mutex held.         *)
ReadStopReply ==
  /\ cpc = "read" /\ toClient # <<>> /\ connected
  /\ Head(toClient).type = "T"
  /\ toClient' = Tail(toClient)
  /\ IF m_async_count = 0
       THEN /\ cpc' = "decided" /\ cret' = "stopped"
            /\ m_continue_packet' = "c"
       ELSE /\ cpc' = "drain"
            /\ cret' = IF Head(toClient).arg = "int" THEN "none" ELSE "stopped"
            /\ UNCHANGED m_continue_packet
  /\ UNCHANGED <<m_async_count, m_is_running, m_should_stop, asleep, asyncOwner,
                 asyncVars, first, toStub, connected,
                 stub, calls, outputs>>

(* 'W' and 'X' end the call with eStateExited, an 'E' or anything that is   *)
(* not a stop reply with eStateInvalid.                                     *)
ReadTerminal ==
  /\ cpc = "read" /\ toClient # <<>> /\ connected
  /\ Head(toClient).type \notin {"O", "T"}
  /\ toClient' = Tail(toClient)
  /\ cpc' = "decided"
  /\ cret' = IF Head(toClient).type = "W" THEN "exited" ELSE "invalid"
  /\ UNCHANGED <<clientVars, asyncVars, first, toStub,
                 connected, stub, calls, outputs>>

(* kInterruptTimeout passed without a packet and an async thread is         *)
(* interested.  If the interrupt is that old the call gives up; otherwise   *)
(* the switch is left, and the response, which the failed read has cleared, *)
(* is found empty.  With nobody interested it reads again: no change.       *)
ReadTimeout ==
  /\ cpc = "read" /\ toClient = <<>> /\ connected
  /\ m_async_count # 0
  /\ cpc' = "decided" /\ cret' = "invalid"
  /\ UNCHANGED <<clientVars, asyncVars, first, wireVars,
                 calls, outputs>>

ReadDisconnected ==
  /\ cpc = "read" /\ ~connected
  /\ cpc' = "decided" /\ cret' = "invalid"
  /\ UNCHANGED <<clientVars, asyncVars, first, wireVars,
                 calls, outputs>>

(* The rest of ShouldStop: one more ReadPacket of 100ms whose outcome is    *)
(* ignored, then the verdict; the packet to resume with becomes 'c'.        *)
DrainExtraStopReply ==
  /\ cpc = "drain"
  /\ IF toClient # <<>> /\ connected
       THEN toClient' = Tail(toClient)
       ELSE UNCHANGED toClient
  /\ cpc' = "decided"
  /\ m_continue_packet' = "c"
  /\ UNCHANGED <<m_async_count, m_is_running, m_should_stop, asleep, asyncOwner,
                 asyncVars, first, cret, toStub,
                 connected, stub, calls, outputs>>

(* ContinueLock::unlock, called or run by the destructor.                   *)
ContinueUnlock ==
  /\ cpc = "decided"
  /\ m_is_running' = FALSE
  /\ cpc' = "notifyAll"
  /\ UNCHANGED <<m_async_count, m_should_stop, m_continue_packet, asleep,
                 asyncOwner, asyncVars, first, cret,
                 wireVars, calls, outputs>>

(* Mutant: unlock() notifies nobody.                                        *)
ContinueNotify_Silent ==
  /\ cpc = "notifyAll"
  /\ cpc' = CASE cret = "none"    -> "lock"
              [] cret = "stopped" -> "idle"
              [] OTHER            -> "exit"
  /\ UNCHANGED <<clientVars, asyncVars, first, cret,
                 wireVars, calls, outputs>>

(* m_cv.notify_all, HandleStopReply, then resume or return.                 *)
ContinueNotify ==
  /\ cpc = "notifyAll"
  /\ asleep' = {}
  /\ cpc' = CASE cret = "none"    -> "lock"
              [] cret = "stopped" -> "idle"
              [] OTHER            -> "exit"
  /\ UNCHANGED <<m_async_count, m_is_running, m_should_stop, m_continue_packet,
                 asyncOwner, asyncVars, first, cret,
                 wireVars, calls, outputs>>

(* ProcessGDBRemote::AsyncThread sets the exit status of a process that has *)
(* exited or was lost, and DidExit disconnects.  The thread itself ends     *)
(* only after a real exit.                                                  *)
DidExit ==
  /\ cpc = "exit"
  /\ connected' = FALSE
  /\ cpc' = IF cret = "exited" THEN "done" ELSE "idle"
  /\ UNCHANGED <<clientVars, asyncVars, first, cret,
                 toStub, toClient, stub, calls, outputs>>

Continue ==
  \/ SendContinuePacket \/ ContinueLockWait \/ ContinueLockCancelled
  \/ ContinueLockSuccess \/ ContinueLockFailed
  \/ ReadAsyncData \/ ReadStopReply \/ ReadTerminal
  \/ ReadTimeout \/ ReadDisconnected
  \/ DrainExtraStopReply \/ ContinueUnlock \/ ContinueNotify \/ DidExit

---------------------------------------------------------------------------
(* Async threads: the constructor of Lock, the call's own work, ~Lock.      *)

Go(t, phase) == pc' = [pc EXCEPT ![t] = phase]

(* Lock is constructed with interrupt = send_async; every caller but a      *)
(* SendPacketAndWaitForResponse with send_async = false asks for it.        *)
Interrupts(o) == o # "requestSync"

Enter(t, o) ==
  /\ pc[t] = "idle" /\ MutexFree
  /\ calls < MaxCalls
  /\ calls' = calls + 1
  /\ op' = [op EXCEPT ![t] = o]
  /\ didInterrupt' = [didInterrupt EXCEPT ![t] = FALSE]
  /\ retries' = [retries EXCEPT ![t] = 0]

(* The connection is busy and the caller must not interrupt: no lock.       *)
SyncRefused(t, o) ==
  /\ Enter(t, o)
  /\ m_is_running /\ ~Interrupts(o)
  /\ resp' = [resp EXCEPT ![t] = "fail"]
  /\ UNCHANGED <<clientVars, pc, contVars, wireVars, outputs>>

(* Nothing is running: the lock is acquired at once.                        *)
SyncImmediate(t, o) ==
  /\ Enter(t, o)
  /\ ~m_is_running
  /\ m_async_count' = m_async_count + 1
  /\ Go(t, "acquired")
  /\ resp' = [resp EXCEPT ![t] = "none"]
  /\ UNCHANGED <<m_is_running, m_should_stop, m_continue_packet, asleep,
                 asyncOwner, contVars, wireVars, outputs>>

(* The first interested thread writes ^C, all wait for the continue thread. *)
SyncInterrupt(t, o) ==
  /\ Enter(t, o)
  /\ m_is_running /\ Interrupts(o)
  /\ m_async_count = 0 => connected
  /\ m_async_count' = m_async_count + 1
  /\ IF m_async_count = 0
       THEN toStub' = Append(toStub, Pkt("intr", "-"))
       ELSE UNCHANGED toStub
  /\ asleep' = asleep \union {t}
  /\ Go(t, "cvWait")
  /\ resp' = [resp EXCEPT ![t] = "none"]
  /\ UNCHANGED <<m_is_running, m_should_stop, m_continue_packet, asyncOwner,
                 cpc, first, cret, toClient, connected, stub,
                 outputs>>

(* Mutant: ~Lock does not test m_acquired.                                  *)
SyncWriteFailed_Release(t, o) ==
  /\ Enter(t, o)
  /\ m_is_running /\ Interrupts(o)
  /\ m_async_count = 0 /\ ~connected
  /\ resp' = [resp EXCEPT ![t] = "fail"]
  /\ Go(t, "release")
  /\ UNCHANGED <<clientVars, contVars, wireVars, outputs>>

(* Mutant: a failed write leaves m_async_count raised.                      *)
SyncWriteFailed_Leak(t, o) ==
  /\ Enter(t, o)
  /\ m_is_running /\ Interrupts(o)
  /\ m_async_count = 0 /\ ~connected
  /\ m_async_count' = m_async_count + 1
  /\ resp' = [resp EXCEPT ![t] = "fail"]
  /\ UNCHANGED <<m_is_running, m_should_stop, m_continue_packet, asleep,
                 asyncOwner, pc, contVars, wireVars, outputs>>

(* Writing ^C failed: the interest is withdrawn.                            *)
SyncWriteFailed(t, o) ==
  /\ Enter(t, o)
  /\ m_is_running /\ Interrupts(o)
  /\ m_async_count = 0 /\ ~connected
  /\ resp' = [resp EXCEPT ![t] = "fail"]
  /\ UNCHANGED <<clientVars, pc, contVars, wireVars, outputs>>

(* Mutant: m_cv.wait without its predicate.                                 *)
SyncWake_NoPredicate(t) ==
  /\ pc[t] = "cvWait" /\ t \notin asleep /\ MutexFree
  /\ didInterrupt' = [didInterrupt EXCEPT ![t] = TRUE]
  /\ Go(t, "acquired")
  /\ UNCHANGED <<clientVars, op, retries, resp, contVars, wireVars, calls,
                 outputs>>

(* Woken up on m_cv: sleep again or go on.                                  *)
SyncWake(t) ==
  /\ pc[t] = "cvWait" /\ t \notin asleep /\ MutexFree
  /\ IF m_is_running
       THEN /\ asleep' = asleep \union {t}
            /\ UNCHANGED <<pc, didInterrupt>>
       ELSE /\ didInterrupt' = [didInterrupt EXCEPT ![t] = TRUE]
            /\ Go(t, "acquired")
            /\ UNCHANGED asleep
  /\ UNCHANGED <<m_async_count, m_is_running, m_should_stop, m_continue_packet,
                 asyncOwner, op, retries, resp, contVars, wireVars, calls, outputs>>

(* Mutant: the constructor does not take m_async_mutex.                     *)
LockAsyncMutex_Skip(t) ==
  /\ pc[t] = "acquired"
  /\ Go(t, "locked")
  /\ UNCHANGED <<clientVars, op, didInterrupt, retries, resp, contVars,
                 wireVars, calls, outputs>>

(* m_async_lock.lock().                                                     *)
LockAsyncMutex(t) ==
  /\ pc[t] = "acquired"
  /\ asyncOwner = Cont
  /\ asyncOwner' = t
  /\ Go(t, "locked")
  /\ UNCHANGED <<m_async_count, m_is_running, m_should_stop, m_continue_packet,
                 asleep, op, didInterrupt, retries, resp, contVars, wireVars, calls,
                 outputs>>

(* SendAsyncSignal changes the packet to resume with; only m_async_mutex    *)
(* is held.                                                                 *)
SendAsyncSignal(t) ==
  /\ pc[t] = "locked" /\ op[t] = "signal"
  /\ m_continue_packet' = IF didInterrupt[t] THEN "C" ELSE m_continue_packet
  /\ resp' = [resp EXCEPT ![t] = IF didInterrupt[t] THEN "own" ELSE "fail"]
  /\ Go(t, "release")
  /\ UNCHANGED <<m_async_count, m_is_running, m_should_stop, asleep, asyncOwner,
                 op, didInterrupt, retries, contVars, wireVars, calls, outputs>>

(* Interrupt tells the continue thread not to resume.                       *)
Interrupt(t) ==
  /\ pc[t] = "locked" /\ op[t] = "interrupt"
  /\ m_should_stop' = (didInterrupt[t] \/ m_should_stop)
  /\ resp' = [resp EXCEPT ![t] = IF didInterrupt[t] THEN "own" ELSE "fail"]
  /\ Go(t, "release")
  /\ UNCHANGED <<m_async_count, m_is_running, m_continue_packet, asleep,
                 asyncOwner, op, didInterrupt, retries, contVars, wireVars, calls,
                 outputs>>

IsRequest(o) == o \in {"request", "requestSync", "json", "rcmd"}

(* SendPacketNoLock of a request...                                         *)
SendRequest(t) ==
  /\ pc[t] = "locked" /\ IsRequest(op[t])
  /\ IF connected
       THEN /\ toStub' = Append(toStub,
                           Pkt(IF op[t] = "rcmd" THEN "rcmd" ELSE "req", t))
            /\ Go(t, "reply")
            /\ UNCHANGED resp
       ELSE /\ resp' = [resp EXCEPT ![t] = "fail"]
            /\ Go(t, "release")
            /\ UNCHANGED toStub
  /\ UNCHANGED <<clientVars, op, didInterrupt, retries, contVars, toClient, connected,
                 stub, calls, outputs>>

(* ...and its answer: the next packet that arrives, whatever it answers.    *)
(* Only a response with a validator (json) is ignored when it is not what   *)
(* was asked for, and the last of max_response_retries is used regardless.  *)
max_response_retries == 3

(* ReadPacketWithOutputSupport hands 'O' packets to its callback and reads  *)
(* on.                                                                      *)
ReadReply(t) ==
  /\ pc[t] = "reply" /\ toClient # <<>> /\ connected
  /\ toClient' = Tail(toClient)
  /\ LET packet == Head(toClient)
         own    == packet = Pkt("R", t)
         again  == op[t] = "json" /\ ~own /\ retries[t] + 1 < max_response_retries
     IN  /\ retries' = [retries EXCEPT ![t] = IF again THEN @ + 1 ELSE @]
         /\ IF again \/ (op[t] = "rcmd" /\ packet.type = "O")
              THEN UNCHANGED <<pc, resp>>
              ELSE /\ Go(t, "release")
                   /\ resp' = [resp EXCEPT ![t] = IF own THEN "own" ELSE "other"]
  /\ UNCHANGED <<clientVars, op, didInterrupt, contVars, toStub, connected,
                 stub, calls, outputs>>

(* No answer in time: a qEcho or qC is sent after the request.  A stub that *)
(* has nothing left to answer echoes it and the connection is kept; if the  *)
(* echo does not come either the connection is given up.  (A late answer    *)
(* that arrives before the echo is the success of ReadReply.)               *)
ReplyFailed(t) ==
  /\ pc[t] = "reply" /\ (toClient = <<>> \/ ~connected)
  /\ connected' \in {FALSE, connected /\ toStub = <<>>}
  /\ resp' = [resp EXCEPT ![t] = "fail"]
  /\ Go(t, "release")
  /\ UNCHANGED <<clientVars, op, didInterrupt, retries, contVars, toStub, toClient, stub,
                 calls, outputs>>

(* ~Lock withdraws the interest, then notifies one thread, and only then    *)
(* is m_async_mutex released.                                               *)
ReleaseLock(t) ==
  /\ pc[t] = "release" /\ MutexFree
  /\ m_async_count' = m_async_count - 1
  /\ Go(t, "notify")
  /\ UNCHANGED <<m_is_running, m_should_stop, m_continue_packet, asleep,
                 asyncOwner, op, didInterrupt, retries, resp, contVars, wireVars, calls,
                 outputs>>

(* Mutant: ~Lock notifies nobody.                                           *)
ReleaseNotify_Silent(t) ==
  /\ pc[t] = "notify"
  /\ Go(t, "unlockAsync")
  /\ UNCHANGED <<clientVars, op, didInterrupt, retries, resp, contVars,
                 wireVars, calls, outputs>>

ReleaseNotify(t) ==
  /\ pc[t] = "notify"
  /\ NotifyOne
  /\ Go(t, "unlockAsync")
  /\ UNCHANGED <<m_async_count, m_is_running, m_should_stop, m_continue_packet,
                 asyncOwner, op, didInterrupt, retries, resp, contVars, wireVars, calls,
                 outputs>>

UnlockAsyncMutex(t) ==
  /\ pc[t] = "unlockAsync"
  /\ asyncOwner' = Cont
  /\ Go(t, "idle")
  /\ UNCHANGED <<m_async_count, m_is_running, m_should_stop, m_continue_packet,
                 asleep, op, didInterrupt, retries, resp, contVars, wireVars, calls,
                 outputs>>

AsyncStart(t) ==
  \E o \in Ops : \/ SyncRefused(t, o) \/ SyncImmediate(t, o)
                 \/ SyncInterrupt(t, o) \/ SyncWriteFailed(t, o)

AsyncStep(t) ==
  \/ SyncWake(t) \/ LockAsyncMutex(t)
  \/ SendAsyncSignal(t) \/ Interrupt(t)
  \/ SendRequest(t) \/ ReadReply(t) \/ ReplyFailed(t)
  \/ ReleaseLock(t) \/ ReleaseNotify(t) \/ UnlockAsyncMutex(t)

---------------------------------------------------------------------------
(* External: the remote stub, its inferior and the connection.              *)

wireUnchanged == <<clientVars, asyncVars, contVars, calls>>

StubSends(pkts) == toClient' = toClient \o pkts
Pending(n) == Len(toClient) + n <= MaxPending

(* A run packet resumes the inferior, or is refused with an error.          *)
StubRun ==
  /\ connected /\ toStub # <<>> /\ Head(toStub).type = "run"
  /\ toStub' = Tail(toStub)
  /\ IF stub = "stopped"
       THEN \/ stub' = "running" /\ UNCHANGED toClient
            \/ UNCHANGED stub /\ StubSends(<<Pkt("E", "-")>>)
       ELSE UNCHANGED <<stub, toClient>>
  /\ UNCHANGED <<wireUnchanged, connected, outputs>>

(* ^C stops a running inferior.  One that has stopped for another reason is *)
(* reported a second time by some stubs and not at all by others.           *)
StubInterrupt ==
  /\ connected /\ toStub # <<>> /\ Head(toStub).type = "intr"
  /\ Pending(1)
  /\ toStub' = Tail(toStub)
  /\ IF stub = "running" \/ (stub = "stopped" /\ EchoLateInterrupt)
       THEN stub' = "stopped" /\ StubSends(<<Pkt("T", "int")>>)
       ELSE UNCHANGED <<stub, toClient>>
  /\ UNCHANGED <<wireUnchanged, connected, outputs>>

(* A request is answered, after some output if it is a qRcmd, or ignored.   *)
StubAnswer ==
  /\ connected /\ toStub # <<>> /\ Head(toStub).type \in {"req", "rcmd"}
  /\ Pending(2)
  /\ toStub' = Tail(toStub)
  /\ LET r == Pkt("R", Head(toStub).arg)
     IN  \/ StubSends(<<r>>)
         \/ UNCHANGED toClient
         \/ Head(toStub).type = "rcmd" /\ StubSends(<<Pkt("O", "-"), r>>)
  /\ UNCHANGED <<wireUnchanged, connected, stub, outputs>>

StubStops ==
  /\ connected /\ stub = "running" /\ Pending(1)
  /\ stub' = "stopped"
  /\ \E why \in {"other"} \union (IF SpontaneousInt THEN {"int"} ELSE {}) :
        StubSends(<<Pkt("T", why)>>)
  /\ UNCHANGED <<wireUnchanged, toStub, connected, outputs>>

StubExits ==
  /\ connected /\ stub = "running" /\ Pending(1)
  /\ stub' = "exited"
  /\ StubSends(<<Pkt("W", "-")>>)
  /\ UNCHANGED <<wireUnchanged, toStub, connected, outputs>>

StubOutput ==
  /\ connected /\ stub = "running" /\ Pending(1)
  /\ outputs < MaxOutput
  /\ outputs' = IF EndlessOutput THEN outputs ELSE outputs + 1
  /\ StubSends(<<Pkt("O", "-")>>)
  /\ UNCHANGED <<wireUnchanged, toStub, connected, stub>>

ConnectionLost ==
  /\ connected
  /\ connected' = FALSE
  /\ UNCHANGED <<wireUnchanged, toStub, toClient, stub, outputs>>

Stub == \/ StubRun \/ StubInterrupt \/ StubAnswer \/ StubStops \/ StubExits
        \/ StubOutput \/ ConnectionLost

---------------------------------------------------------------------------
Next ==
  \/ Continue
  \/ \E t \in AsyncThreads : AsyncStart(t) \/ AsyncStep(t)
  \/ Stub

Spec == Init /\ [][Next]_vars

(* Client threads are scheduled: a thread that can take its next step does. *)
(* Nobody is obliged to make a call, and the stub may hang.                 *)
ContinueSteps ==
  \/ ContinueLockWait \/ ContinueLockCancelled
  \/ ContinueLockSuccess \/ ContinueLockFailed
  \/ ReadAsyncData \/ ReadStopReply \/ ReadTerminal
  \/ ReadTimeout \/ ReadDisconnected
  \/ DrainExtraStopReply \/ ContinueUnlock \/ ContinueNotify \/ DidExit

Fairness ==
  /\ WF_vars(ContinueSteps)
  /\ \A t \in AsyncThreads : WF_vars(AsyncStep(t))

FairSpec == Spec /\ Fairness

---------------------------------------------------------------------------
(* Properties *)

(* Phases in which an async thread has its Lock, and in which it counts.    *)
HoldsLock(t) == pc[t] \in {"acquired", "locked", "reply", "release"}
Counted(t)   == pc[t] \in {"cvWait", "acquired", "locked", "reply", "release"}

(* The connection has one user.  A thread that got its Lock (lines 348-386) *)
(* never overlaps the continue thread's ownership (m_is_running), and only  *)
(* one async thread at a time is between sending a request and its reply,   *)
(* so no two threads ever read the same stream of packets.                  *)
ConnectionExclusive ==
  /\ \A t \in AsyncThreads : HoldsLock(t) => ~m_is_running
  /\ \A t \in AsyncThreads : pc[t] = "reply" => cpc \notin {"read", "drain"}
  /\ \A t, u \in AsyncThreads : pc[t] = "reply" /\ pc[u] = "reply" => t = u

(* m_async_count is exactly the number of threads that asked for the        *)
(* connection and have not let go of it, whatever path they took through    *)
(* SyncWithContinueThread (refused, failed write, interrupt, immediate).    *)
AsyncCountAccurate ==
  m_async_count = Cardinality({t \in AsyncThreads : Counted(t)})

(* A step that sends a run packet finds and leaves no thread interested.    *)
SendsRun == Len(toStub') > Len(toStub) /\ toStub'[Len(toStub')].type = "run"
QuietResume ==
  SendsRun => \A t \in AsyncThreads : ~Counted(t) /\ ~Counted(t)'

(* The inferior is only ever resumed (ContinueLock::lock, lines 325-341)    *)
(* when no thread waits for the connection or uses it: a run packet never   *)
(* overtakes the request of a thread that interrupted the inferior for it.  *)
ResumeWaitsForAsync == [][QuietResume]_vars

(* A request reaches the stub only while the inferior is stopped, unless    *)
(* the continue thread has given the connection up (lines 57-74).  It needs *)
(* a stub without EchoLateInterrupt: the stray stop reply makes the         *)
(* continue thread believe in a stop that is not there.                     *)
RequestsOnlyWhileStopped ==
  stub = "running" /\ toStub # <<>> /\ Head(toStub).type \in {"req", "rcmd"}
    => cret = "invalid" \/ ~connected

(* A request is answered by its own response (lines 201-228), although stop *)
(* replies, output and other threads' responses travel on the same stream,  *)
(* unless the continue thread has given the connection up.  It needs a stub *)
(* without EchoLateInterrupt: the second stop reply that the comment in     *)
(* lines 264-268 speaks of is otherwise taken for the answer.               *)
ResponseMatchesRequest ==
  \A t \in AsyncThreads : resp[t] = "other" => cret = "invalid" \/ ~connected

(* A continue call that never got to send its packet (lines 49-51) failed   *)
(* because the connection did: an interrupt of an earlier run that arrives  *)
(* late does not cancel it.                                                 *)
LateInterruptHarmless ==
  cpc = "exit" /\ first => ~connected

(* Every call of an async thread returns, whatever the stub does: no wakeup *)
(* is lost and every wait for the stub ends in a timeout.  It needs an      *)
(* inferior without EndlessOutput: each packet puts the deadline off.       *)
AsyncCallsReturn ==
  \A t \in AsyncThreads : pc[t] # "idle" ~> pc[t] = "idle"

(* A continue thread that waits for async threads to finish is woken up by  *)
(* the one notify_one of the last of them (line 395).                       *)
ContinueLockReturns == cpc = "lock" ~> cpc # "lock"
============================================================================
