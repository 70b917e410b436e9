---------------------- MODULE NativeProcessLinuxProofs ----------------------
(***************************************************************************)
(* Proofs about NativeProcessLinux for any set of threads and any bounds.  *)
(* Once the process has been killed the kernel contradicts everything that *)
(* lldb-server believes, so the invariant speaks of the time before.       *)
(***************************************************************************)
EXTENDS NativeProcessLinux, TLAPS

(* p has stopped in the clone that created t, and this is not handled yet.  *)
Forking(p, t) ==
  /\ m_threads[p] = "running" /\ kernel[p] \in {"waiting", "trapped"}
  /\ event[p] = "clone" /\ newborn[p] = t

(* What may be said of a thread from what lldb-server knows of it.  One it  *)
(* does not know of is held in its first stop until its parent's clone stop *)
(* or its own is handled.                                                   *)
ThreadAgrees(t) ==
  /\ m_threads[t] = "stopped" => kernel[t] = "trapped" /\ handling # t /\ event[t] = "none"
  /\ m_threads[t] = "running" =>
       \/ kernel[t] \in {"running", "waiting", "exiting", "zombie"}
       \/ kernel[t] = "trapped" /\ handling = t
  /\ m_threads[t] = "none" =>
       \/ kernel[t] \in {"none", "gone"}
       \/ /\ kernel[t] = "waiting" \/ (kernel[t] = "trapped" /\ handling = t)
          /\ event[t] = "new"
          /\ \E p \in Tids : Forking(p, t)

(* The client is not told of a stop while a wait status is handled.         *)
HandlingAgrees ==
  handling # NoThread => m_state = "running" /\ kernel[handling] = "trapped"

(* The thread that a stop under way will be reported for has a reason of    *)
(* its own as soon as it has stopped.                                       *)
PendingCause ==
  \A t \in Tids : m_pending_notification_tid = t /\ m_threads[t] = "stopped" => cause[t]

(* A clone stop names the thread that was created.                          *)
CloneNamed == \A t \in Tids : event[t] = "clone" => newborn[t] \in Tids

(* If a thread exits only while the leader runs, a thread on its way out    *)
(* leaves a stop under way or the leader behind, and so the process is      *)
(* never thought to run with all its threads stopped.                       *)
Leaving(t) ==
  /\ m_threads[t] = "running"
  /\ \/ kernel[t] \in {"exiting", "zombie"}
     \/ kernel[t] \in {"waiting", "trapped"} /\ event[t] = "exit"

SomeoneRuns ==
  /\ \A t \in Tids : Leaving(t) =>
       m_threads[Main] = "running" \/ m_pending_notification_tid # NoThread \/ m_state = "exited"
  /\ m_state = "running" => \E t \in Tids : m_threads[t] = "running"

IInv ==
  /\ TypeOK
  /\ ~dying => /\ \A t \in Tids : ThreadAgrees(t)
               /\ CloneNamed
               /\ HandlingAgrees /\ StopsAreComplete /\ PendingCause
               /\ ~LastRunnerExits => SomeoneRuns

(* What StopNamesCause says of one step.                                    *)
NamesCause ==
  ~LastRunnerExits /\ m_state = "running" /\ m_state' = "stopped" =>
    m_threads'[m_current_thread_id'] = "none" \/ cause'[m_current_thread_id']

---------------------------------------------------------------------------
(* The functions of the server, on worlds of the right type *)

Events == {"none", "trap", "ignored", "clone", "exit", "new", "sigstop"}

Worlds ==
  [kernel : [Tids -> KernelStates], event : [Tids -> Events],
   newborn : [Tids -> Tids \union {NoThread}], sigstop : [Tids -> BOOLEAN],
   threads : [Tids -> {"none", "stopped", "running"}], cause : [Tids -> BOOLEAN],
   state : {"stopped", "running", "exited"},
   pending : Tids \union {NoThread}, current : Tids \union {NoThread}]

SameThread(w, r, t) ==
  /\ r.kernel[t] = w.kernel[t] /\ r.event[t] = w.event[t] /\ r.newborn[t] = w.newborn[t]
  /\ r.threads[t] = w.threads[t] /\ r.cause[t] = w.cause[t]

(* The variables are a world.                                               *)
LEMMA NowIsAWorld == TypeOK => Now \in Worlds
BY DEF TypeOK, Now, Worlds, Events

(* A world makes variables of the right type.                               *)
LEMMA BecomesTyped ==
  ASSUME TypeOK, NEW w \in Worlds, Becomes(w),
         dying' \in BOOLEAN, handling' \in Tids \union {NoThread},
         events' \in 0 .. MaxEvents,
         resumes' \in 0 .. MaxResumes, interrupts' \in 0 .. MaxInterrupts
  PROVE  TypeOK'
BY DEF TypeOK, Becomes, Worlds, Events

(* ResumeThreads changes the threads of S only.                             *)
LEMMA ResumeThreadsMeans ==
  ASSUME NEW w \in Worlds, NEW S \in SUBSET Tids
  PROVE  LET r == ResumeThreads(w, S)
         IN  /\ r \in Worlds /\ r.pending = w.pending
             /\ \A t \in Tids \ S : SameThread(w, r, t)
             /\ \A t \in S : /\ r.threads[t] = "running" /\ r.event[t] = "none"
                             /\ PtraceStopped(w, t) =>
                                  /\ r.kernel[t] \in {"running", "exiting"}
                                  /\ r.kernel[t] = "exiting" => w.event[t] = "exit"
                                  /\ r.state = "running"
                             /\ ~PtraceStopped(w, t) => r.kernel[t] = w.kernel[t]
             /\ (\A t \in S : ~PtraceStopped(w, t)) => r.state = w.state
BY DEF ResumeThreads, Worlds, KernelStates, Events, PtraceStopped, SameThread

(* SignalIfAllThreadsStopped touches no thread; it ends a stop exactly if   *)
(* no tracked thread runs.                                                  *)
LEMMA SignalMeans ==
  ASSUME NEW w \in Worlds
  PROVE  LET r == SignalIfAllThreadsStopped(w)
         IN  /\ r \in Worlds
             /\ \A t \in Tids : SameThread(w, r, t)
             /\ \/ r = w /\ (w.pending = NoThread \/ \E t \in Tids : w.threads[t] = "running")
                \/ /\ w.pending # NoThread /\ \A t \in Tids : w.threads[t] # "running"
                   /\ r.pending = NoThread /\ r.state = "stopped" /\ r.current = w.pending
BY DEF SignalIfAllThreadsStopped, Worlds, Runs, SameThread

(* SetStopped changes one thread, which stays where it is.                  *)
LEMMA SetStoppedMeans ==
  ASSUME NEW w \in Worlds, NEW t \in Tids, NEW b \in BOOLEAN
  PROVE  LET r == SetStopped(w, t, b)
         IN  /\ r \in Worlds /\ r.pending = w.pending /\ r.state = w.state
             /\ \A u \in Tids \ {t} : SameThread(w, r, u)
             /\ r.threads[t] = "stopped" /\ r.cause[t] = b
             /\ r.event[t] = "none" /\ r.kernel[t] = w.kernel[t]
BY DEF SetStopped, Worlds, Events, SameThread

(* StopRunningThreads touches no thread: a stop for t begins, and ends at   *)
(* once exactly if no tracked thread runs.                                  *)
LEMMA StopRunningMeans ==
  ASSUME NEW w \in Worlds, NEW t \in Tids
  PROVE  LET r == StopRunningThreads(w, t)
         IN  /\ r \in Worlds
             /\ \A u \in Tids : SameThread(w, r, u)
             /\ \/ /\ r.pending = t /\ r.state = w.state
                   /\ \E u \in Tids : w.threads[u] = "running"
                \/ /\ \A u \in Tids : w.threads[u] # "running"
                   /\ r.pending = NoThread /\ r.state = "stopped" /\ r.current = t
<1> DEFINE v == [w EXCEPT !.pending = t, !.sigstop = [u \in Tids |-> @[u] \/ Runs(w, u)]]
<1>1. /\ v \in Worlds /\ v.pending = t /\ v.state = w.state /\ v.threads = w.threads
      /\ \A u \in Tids : SameThread(w, v, u)
  BY DEF Worlds, Runs, SameThread
<1>2. StopRunningThreads(w, t) = SignalIfAllThreadsStopped(v)
  BY DEF StopRunningThreads
<1> HIDE DEF v
<1>3. t # NoThread
  BY NativeAssumption
<1> QED BY <1>1, <1>2, <1>3, SignalMeans DEF SameThread

(* A thread that lldb-server hears of is tracked and resumed; it may be     *)
(* sent SIGSTOP at once.                                                    *)
LEMMA TrackNewThreadMeans ==
  ASSUME NEW w \in Worlds, NEW t \in Tids
  PROVE  LET r == TrackNewThread(w, t)
         IN  /\ r \in Worlds /\ r.pending = w.pending
             /\ \A u \in Tids \ {t} : SameThread(w, r, u)
             /\ r.threads[t] = "running" /\ r.event[t] = "none"
             /\ PtraceStopped(w, t) =>
                  /\ r.kernel[t] \in {"running", "exiting"}
                  /\ r.kernel[t] = "exiting" => w.event[t] = "exit"
                  /\ r.state = "running"
<1> DEFINE a == AddThread(w, t)
           b == ResumeThread(a, t)
<1>1. /\ a \in Worlds /\ a.pending = w.pending
      /\ \A u \in Tids : SameThread(w, a, u)
  BY DEF AddThread, Worlds, SameThread
<1>2. /\ b \in Worlds /\ b.pending = w.pending
      /\ \A u \in Tids \ {t} : SameThread(w, b, u)
      /\ b.threads[t] = "running" /\ b.event[t] = "none"
      /\ PtraceStopped(w, t) =>
           /\ b.kernel[t] \in {"running", "exiting"}
           /\ b.kernel[t] = "exiting" => w.event[t] = "exit"
           /\ b.state = "running"
  <2> HIDE DEF a
  <2> QED BY <1>1, ResumeThreadsMeans, {t} \in SUBSET Tids
          DEF ResumeThread, SameThread, PtraceStopped
<1> HIDE DEF b
<1>3. LET r == ThreadWasCreated(b, t)
      IN  /\ r \in Worlds /\ r.pending = b.pending /\ r.state = b.state
          /\ r.threads = b.threads /\ r.event = b.event /\ r.kernel = b.kernel
          /\ r.cause = b.cause /\ r.newborn = b.newborn
  BY <1>2 DEF ThreadWasCreated, Worlds
<1>4. TrackNewThread(w, t) = ThreadWasCreated(b, t)
  BY DEF TrackNewThread, b
<1> QED BY <1>2, <1>3, <1>4 DEF SameThread

(* A thread that is not tracked any more may have been the last one that a  *)
(* stop under way waited for.                                               *)
LEMMA StopTrackingMeans ==
  ASSUME NEW w \in Worlds, NEW t \in Tids
  PROVE  LET r == StopTrackingThread(w, t)
         IN  /\ r \in Worlds
             /\ \A u \in Tids \ {t} : SameThread(w, r, u)
             /\ r.threads[t] = "none" /\ r.kernel[t] = w.kernel[t]
             /\ r.event[t] = w.event[t] /\ r.newborn[t] = w.newborn[t]
             /\ \/ /\ r.pending = w.pending /\ r.state = w.state
                   /\ w.pending = NoThread \/ \E u \in Tids \ {t} : w.threads[u] = "running"
                \/ /\ w.pending # NoThread /\ \A u \in Tids \ {t} : w.threads[u] # "running"
                   /\ r.pending = NoThread /\ r.state = "stopped" /\ r.current = w.pending
<1> DEFINE v == [w EXCEPT !.threads[t] = "none", !.cause[t] = FALSE]
<1>1. /\ v \in Worlds /\ v.pending = w.pending /\ v.state = w.state
      /\ \A u \in Tids \ {t} : SameThread(w, v, u)
      /\ v.threads[t] = "none" /\ v.kernel = w.kernel
      /\ v.event = w.event /\ v.newborn = w.newborn
  BY DEF Worlds, SameThread
<1>2. StopTrackingThread(w, t) = SignalIfAllThreadsStopped(v)
  BY DEF StopTrackingThread
<1> HIDE DEF v
<1> QED BY <1>1, <1>2, SignalMeans DEF SameThread

---------------------------------------------------------------------------
(* The types, which hold even when the process has been killed *)

(* The functions of the server keep the types whatever the kernel did.      *)
LEMMA ServerTyped ==
  ASSUME NEW w \in Worlds, NEW t \in Tids \union {NoThread}
  PROVE  /\ ResumeThread(w, t) \in Worlds /\ SignalIfAllThreadsStopped(w) \in Worlds
         /\ StopRunningThreads(w, t) \in Worlds /\ StopTrackingThread(w, t) \in Worlds
         /\ TrackNewThread(w, t) \in Worlds /\ WaitForNewThread(w, t) \in Worlds
         /\ \A b \in BOOLEAN : SetStopped(w, t, b) \in Worlds
<1>1. ASSUME NEW v \in Worlds PROVE ResumeThread(v, t) \in Worlds
  BY DEF ResumeThread, ResumeThreads, PtraceStopped, Worlds, KernelStates, Events
<1>2. \A v \in Worlds : SignalIfAllThreadsStopped(v) \in Worlds
  BY SignalMeans
<1>3. [w EXCEPT !.pending = t, !.sigstop = [u \in Tids |-> @[u] \/ Runs(w, u)]] \in Worlds
  BY DEF Worlds
<1>4. [w EXCEPT !.threads[t] = "none", !.cause[t] = FALSE] \in Worlds
  BY DEF Worlds
<1>5. AddThread(w, t) \in Worlds
  BY DEF AddThread, Worlds
<1>6. \A v \in Worlds : ThreadWasCreated(v, t) \in Worlds
  BY DEF ThreadWasCreated, Worlds
<1>7. TrackNewThread(w, t) \in Worlds
  BY <1>1, <1>5, <1>6 DEF TrackNewThread
<1>8. WaitForNewThread(w, t) \in Worlds
  <2>1. [w EXCEPT !.kernel[t] = "gone"] \in Worlds
    BY DEF Worlds, KernelStates
  <2> QED BY <1>7, <2>1 DEF WaitForNewThread
<1>9. \A b \in BOOLEAN : SetStopped(w, t, b) \in Worlds
  BY DEF SetStopped, Worlds, Events
<1> QED BY <1>1, <1>2, <1>3, <1>4, <1>7, <1>8, <1>9 DEF StopRunningThreads, StopTrackingThread

(* Every step keeps the types.                                              *)
LEMMA TypeStep == TypeOK /\ [Next]_vars => TypeOK'
<1> SUFFICES ASSUME TypeOK, [Next]_vars PROVE TypeOK'
  OBVIOUS
<1> Now \in Worlds
  BY NowIsAWorld
<1>1. ASSUME NEW t \in Tids, NEW w \in Worlds, Handles(t, w) PROVE TypeOK'
  <2>1. /\ dying' \in BOOLEAN /\ handling' \in Tids \union {NoThread}
        /\ events' \in 0 .. MaxEvents
        /\ resumes' \in 0 .. MaxResumes /\ interrupts' \in 0 .. MaxInterrupts
    BY <1>1 DEF TypeOK, Handles, kernelVars, clientVars
  <2> QED BY <1>1, <2>1, BecomesTyped DEF Handles
<1>2. ASSUME NEW t \in Tids, MonitorCallback(t) PROVE TypeOK'
  <2>1. CASE MonitorVanished(t)
    <3> DEFINE r == StopTrackingThread(Now, t)
    <3>1. r \in Worlds
      BY ServerTyped
    <3> HIDE DEF r
    <3>2. [r EXCEPT !.state = IF t = Main THEN "exited" ELSE @] \in Worlds
      BY <3>1 DEF Worlds
    <3> QED BY <1>1, <2>1, <3>2 DEF MonitorVanished, r
  <2>2. CASE MonitorUnknown(t)
    BY <1>1, <2>2, ServerTyped DEF MonitorUnknown
  <2>3. CASE MonitorClone(t)
    <3>1. newborn[t] \in Tids \union {NoThread}
      BY DEF TypeOK
    <3>2. WaitForNewThread(Now, newborn[t]) \in Worlds
      BY <3>1, ServerTyped
    <3>3. ResumeThread(WaitForNewThread(Now, newborn[t]), t) \in Worlds
      BY <3>2, ServerTyped
    <3> QED BY <1>1, <2>3, <3>3 DEF MonitorClone
  <2>4. CASE MonitorExit(t) \/ MonitorIgnored(t)
    BY <1>1, <2>4, ServerTyped DEF MonitorExit, MonitorIgnored
  <2>5. CASE MonitorTrap(t)
    <3>1. SetStopped(Now, t, TRUE) \in Worlds
      BY ServerTyped
    <3>2. StopRunningThreads(SetStopped(Now, t, TRUE), t) \in Worlds
      BY <3>1, ServerTyped
    <3> QED BY <1>1, <2>5, <3>2 DEF MonitorTrap
  <2>6. CASE MonitorSIGSTOP(t)
    <3> DEFINE s == SetStopped(Now, t, m_pending_notification_tid = t)
    <3>1. s \in Worlds
      BY ServerTyped
    <3> HIDE DEF s
    <3>2. [s EXCEPT !.current = t] \in Worlds
      BY <3>1 DEF Worlds
    <3>3. /\ SignalIfAllThreadsStopped([s EXCEPT !.current = t]) \in Worlds
          /\ SignalIfAllThreadsStopped(Now) \in Worlds /\ ResumeThread(Now, t) \in Worlds
      BY <3>2, ServerTyped
    <3> QED BY <1>1, <2>6, <3>3 DEF MonitorSIGSTOP, s
  <2> QED BY <1>2, <2>1, <2>2, <2>3, <2>4, <2>5, <2>6 DEF MonitorCallback
<1>3. ASSUME NEW t \in Tids, ThreadExited(t) PROVE TypeOK'
  <2> DEFINE v == [Now EXCEPT !.kernel[t] = "gone"]
             r == StopTrackingThread(v, t)
             w == [r EXCEPT !.state = IF t = Main THEN "exited" ELSE @]
  <2>1. v \in Worlds
    BY DEF Worlds, KernelStates
  <2> HIDE DEF v
  <2>2. r \in Worlds
    BY <2>1, ServerTyped
  <2> HIDE DEF r
  <2>3. w \in Worlds
    BY <2>2 DEF Worlds
  <2>4. /\ dying' \in BOOLEAN /\ handling' \in Tids \union {NoThread}
        /\ events' \in 0 .. MaxEvents
        /\ resumes' \in 0 .. MaxResumes /\ interrupts' \in 0 .. MaxInterrupts
        /\ Becomes(w)
    BY <1>3 DEF TypeOK, ThreadExited, kernelVars, clientVars, w, r, v
  <2> HIDE DEF w
  <2> QED BY <2>3, <2>4, BecomesTyped
<1>4. ASSUME NEW t \in Tids, SigchldHandler(t) PROVE TypeOK'
  BY <1>4 DEF TypeOK, KernelStates, SigchldHandler, kernelVars, clientVars
<1>5. ASSUME NEW chosen \in (SUBSET Tracked) \ {{}}, Resume(chosen) PROVE TypeOK'
  <2>1. /\ dying' \in BOOLEAN /\ handling' \in Tids \union {NoThread}
        /\ events' \in 0 .. MaxEvents
        /\ resumes' \in 0 .. MaxResumes /\ interrupts' \in 0 .. MaxInterrupts
        /\ Becomes(ResumeThreads(Now, chosen)) /\ chosen \in SUBSET Tids
    BY <1>5, NativeAssumption DEF TypeOK, Resume, kernelVars, Tracked
  <2>2. ResumeThreads(Now, chosen) \in Worlds
    BY <2>1, ResumeThreadsMeans
  <2> QED BY <2>1, <2>2, BecomesTyped
<1>6. ASSUME NEW t \in Tids, Interrupt(t) PROVE TypeOK'
  <2>1. /\ dying' \in BOOLEAN /\ handling' \in Tids \union {NoThread}
        /\ events' \in 0 .. MaxEvents
        /\ resumes' \in 0 .. MaxResumes /\ interrupts' \in 0 .. MaxInterrupts
        /\ Becomes(StopRunningThreads(Now, t))
    BY <1>6, NativeAssumption DEF TypeOK, Interrupt, kernelVars
  <2>2. StopRunningThreads(Now, t) \in Worlds
    BY ServerTyped
  <2> QED BY <2>1, <2>2, BecomesTyped
<1>7. ASSUME NEW t \in Tids, NEW e \in Causes, ThreadReports(t, e) PROVE TypeOK'
  <2>1. e \in {"trap", "ignored", "exit"} /\ events' \in 0 .. MaxEvents
    BY <1>7, NativeAssumption DEF ThreadReports, TypeOK
  <2> QED BY <1>7, <2>1 DEF TypeOK, KernelStates, ThreadReports, Reports, clientVars
<1>8. ASSUME NEW t \in Tids, NEW child \in Tids, ThreadClones(t, child) PROVE TypeOK'
  <2>1. /\ kernel' \in [Tids -> KernelStates] /\ newborn' \in [Tids -> Tids \union {NoThread}]
        /\ event' \in [Tids -> Events] /\ events' \in 0 .. MaxEvents
    BY <1>8, NativeAssumption DEF TypeOK, KernelStates, Events, ThreadClones
  <2> QED BY <1>8, <2>1 DEF TypeOK, Events, ThreadClones, clientVars
<1>9. ASSUME NEW t \in Tids, SigstopStops(t) \/ ThreadDies(t) PROVE TypeOK'
  <2>1. CASE SigstopStops(t)
    BY <2>1 DEF TypeOK, KernelStates, SigstopStops, Reports, clientVars
  <2>2. CASE ThreadDies(t)
    BY <2>2 DEF TypeOK, KernelStates, ThreadDies, kernelVars, clientVars
  <2> QED BY <1>9, <2>1, <2>2
<1>10. ASSUME NEW stopping \in SUBSET Tids, ProcessDies(stopping) PROVE TypeOK'
  BY <1>10 DEF TypeOK, KernelStates, ProcessDies, clientVars
<1>11. CASE UNCHANGED vars
  BY <1>11 DEF TypeOK, vars, kernelVars, serverVars, clientVars
<1> QED BY <1>2, <1>3, <1>4, <1>5, <1>6, <1>7, <1>8, <1>9, <1>10, <1>11 DEF Next, Server

---------------------------------------------------------------------------
(* Every step preserves the invariant *)

(* While a stop is handled, the thread is in it and is not marked stopped.  *)
LEMMA HandledThread ==
  ASSUME IInv, ~dying, NEW t \in Tids, handling = t
  PROVE  /\ kernel[t] = "trapped" /\ m_state = "running"
         /\ m_threads[t] \in {"running", "none"}
<1>1. t # NoThread
  BY NativeAssumption
<1> QED BY <1>1 DEF IInv, TypeOK, ThreadAgrees, HandlingAgrees

(* A thread whose last stop has been handled.                               *)
Settled(w, t) ==
  /\ w.event[t] = "none"
  /\ \/ w.threads[t] = "running" /\ w.kernel[t] \in {"running", "exiting"}
     \/ w.threads[t] = "stopped" /\ w.kernel[t] = "trapped"

(* The end of a handler: it settles the thread that has stopped, and a new  *)
(* one that this thread has created; it leaves the others alone; and the    *)
(* client hears of a stop only if no thread is marked as running.           *)
LEMMA HandlesAgrees ==
  ASSUME IInv, TypeOK', ~dying, NEW t \in Tids, NEW w \in Worlds, Handles(t, w),
         Settled(w, t),
         \A u \in Tids \ {t} : \/ SameThread(Now, w, u)
                               \/ Settled(w, u) /\ m_threads[u] = "none",
         \A c \in Tids : Forking(t, c) => w.threads[c] # "none" \/ w.kernel[c] = "gone",
         \/ w.state = "running" /\ \E u \in Tids : w.threads[u] = "running"
         \/ /\ w.state = "stopped" /\ \A u \in Tids : w.threads[u] # "running"
            /\ w.threads[w.current] = "none" \/ w.cause[w.current],
         w.state = "running" /\ w.pending = NoThread =>
           m_pending_notification_tid = NoThread /\ w.threads[t] = "running",
         \A u \in Tids : ~SameThread(Now, w, u) /\ w.kernel[u] = "exiting" => Leaving(u),
         \A u \in Tids : w.pending = u /\ w.threads[u] = "stopped" => w.cause[u]
  PROVE  IInv' /\ NamesCause
<1>1. /\ kernel' = w.kernel /\ event' = w.event /\ newborn' = w.newborn
      /\ m_threads' = w.threads /\ cause' = w.cause /\ m_state' = w.state
      /\ m_pending_notification_tid' = w.pending /\ m_current_thread_id' = w.current
      /\ handling = t /\ handling' = NoThread /\ dying' = FALSE
  BY DEF Handles, Becomes, kernelVars
<1>2. \A u \in Tids : u # NoThread
  BY NativeAssumption
<1>3. \A u \in Tids : SameThread(Now, w, u) =>
        /\ kernel'[u] = kernel[u] /\ event'[u] = event[u] /\ newborn'[u] = newborn[u]
        /\ m_threads'[u] = m_threads[u] /\ cause'[u] = cause[u]
  BY <1>1 DEF SameThread, Now
<1>4. ASSUME NEW u \in Tids PROVE ThreadAgrees(u)'
  <2>1. CASE Settled(w, u)
    BY <1>1, <1>2, <2>1 DEF ThreadAgrees, Settled
  <2>2. CASE ~Settled(w, u)
    <3>1. u # t /\ SameThread(Now, w, u)
      BY <2>2
    <3>2. ThreadAgrees(u)
      BY DEF IInv
    <3>3. ASSUME NEW p \in Tids, Forking(p, u), m_threads[u] = "none", kernel[u] # "gone"
          PROVE  Forking(p, u)'
      <4>1. p # t
        BY <1>1, <1>3, <3>1, <3>3
      <4>2. SameThread(Now, w, p)
        BY <4>1, <3>3 DEF Forking
      <4> QED BY <1>3, <4>2, <3>3 DEF Forking
    <3> QED BY <1>1, <1>2, <1>3, <3>1, <3>2, <3>3 DEF ThreadAgrees
  <2> QED BY <2>1, <2>2
<1>5. HandlingAgrees'
  BY <1>1 DEF HandlingAgrees
<1>6. StopsAreComplete'
  <2> SUFFICES ASSUME m_state' = "stopped", NEW u \in Tids
               PROVE  kernel'[u] \in {"none", "trapped", "gone"}
    BY DEF StopsAreComplete
  <2>1. \A v \in Tids : m_threads'[v] # "running"
    BY <1>1
  <2>2. m_threads'[u] \in {"none", "stopped"}
    BY <2>1 DEF TypeOK
  <2> QED BY <1>1, <1>2, <1>4, <2>1, <2>2 DEF ThreadAgrees, Forking
<1>7. PendingCause'
  BY <1>1 DEF PendingCause
<1>8. CloneNamed'
  BY <1>1, <1>3 DEF IInv, CloneNamed, Settled
<1>9. ASSUME ~LastRunnerExits PROVE SomeoneRuns'
  <2>1. m_state' = "running" => \E u \in Tids : m_threads'[u] = "running"
    BY <1>1
  <2>2. ASSUME NEW u \in Tids, Leaving(u)', m_pending_notification_tid' = NoThread
        PROVE  m_threads'[Main] = "running"
    <3>1. m_state' = "running" /\ m_threads'[t] = "running"
      BY <1>1, <2>2 DEF Leaving
    <3>2. Leaving(u)
      <4>1. CASE SameThread(Now, w, u)
        BY <1>3, <2>2, <4>1 DEF Leaving
      <4>2. CASE ~SameThread(Now, w, u)
        <5>1. w.kernel[u] = "exiting"
          BY <1>1, <2>2, <4>2 DEF Settled, Leaving
        <5> QED BY <4>2, <5>1
      <4> QED BY <4>1, <4>2
    <3>3. m_threads[Main] = "running"
      <4>1. m_pending_notification_tid = NoThread /\ m_state = "running"
        BY <1>1, <1>2, <2>2, <3>1 DEF IInv, HandlingAgrees
      <4> QED BY <1>9, <3>2, <4>1 DEF IInv, SomeoneRuns
    <3> QED BY <1>1, <1>3, <3>1, <3>3, NativeAssumption
  <2> QED BY <2>1, <2>2 DEF SomeoneRuns
<1>10. NamesCause
  BY <1>1 DEF NamesCause
<1> QED BY <1>4, <1>5, <1>6, <1>7, <1>8, <1>9, <1>10 DEF IInv

(* A stop of a thread that is resumed.                                      *)
LEMMA ResumedAgrees ==
  ASSUME IInv, TypeOK', ~dying, NEW t \in Tids, handling = t, t \in Tracked, event[t] # "clone",
         Handles(t, ResumeThread(Now, t))
  PROVE  IInv' /\ NamesCause
<1> DEFINE w == ResumeThread(Now, t)
<1>1. kernel[t] = "trapped" /\ m_state = "running" /\ PtraceStopped(Now, t)
  BY HandledThread DEF PtraceStopped, Now
<1>2. /\ w \in Worlds /\ w.pending = m_pending_notification_tid
      /\ \A u \in Tids \ {t} : SameThread(Now, w, u)
      /\ w.threads[t] = "running" /\ w.kernel[t] \in {"running", "exiting"}
      /\ w.kernel[t] = "exiting" => event[t] = "exit"
      /\ w.event[t] = "none" /\ w.state = "running"
  <2>1. /\ Now \in Worlds /\ {t} \in SUBSET Tids
        /\ Now.pending = m_pending_notification_tid /\ Now.event = event
    BY NowIsAWorld DEF IInv, Now
  <2> QED BY <1>1, <2>1, ResumeThreadsMeans DEF ResumeThread
<1> HIDE DEF w
<1>3. \A u \in Tids : w.pending = u /\ w.threads[u] = "stopped" => w.cause[u]
  BY <1>2 DEF IInv, PendingCause, SameThread, Now
<1>4. Settled(w, t) /\ \A c \in Tids : ~Forking(t, c)
  BY <1>2 DEF Settled, Forking
<1>5. Handles(t, w)
  BY DEF w
<1>6. w.kernel[t] = "exiting" => Leaving(t)
  BY <1>1, <1>2, HandledThread DEF Leaving, Tracked
<1> QED BY <1>2, <1>3, <1>4, <1>5, <1>6, HandlesAgrees

(* The first stop of a thread that its parent has not announced yet.        *)
LEMMA UnknownAgrees ==
  ASSUME IInv, TypeOK', ~dying, NEW t \in Tids, MonitorUnknown(t)
  PROVE  IInv' /\ NamesCause
<1> DEFINE w == TrackNewThread(Now, t)
<1>1. PtraceStopped(Now, t) /\ m_threads[t] = "none" /\ event[t] = "new"
  BY DEF MonitorUnknown, GetSignalInfo, Tracked, IInv, ThreadAgrees, PtraceStopped, Now
<1>2. /\ w \in Worlds /\ w.pending = m_pending_notification_tid
      /\ \A u \in Tids \ {t} : SameThread(Now, w, u)
      /\ w.threads[t] = "running" /\ w.kernel[t] = "running"
      /\ w.event[t] = "none" /\ w.state = "running"
  <2>1. Now \in Worlds /\ Now.pending = m_pending_notification_tid /\ Now.event = event
    BY NowIsAWorld DEF IInv, Now
  <2> QED BY <1>1, <2>1, TrackNewThreadMeans
<1> HIDE DEF w
<1>3. \A u \in Tids : w.pending = u /\ w.threads[u] = "stopped" => w.cause[u]
  BY <1>2 DEF IInv, PendingCause, SameThread, Now
<1>4. Settled(w, t) /\ \A c \in Tids : ~Forking(t, c)
  BY <1>1, <1>2 DEF Settled, Forking
<1>5. Handles(t, w)
  BY DEF w, MonitorUnknown
<1> QED BY <1>2, <1>3, <1>4, <1>5, HandlesAgrees

(* MonitorClone: whoever is reported first, the new thread is tracked when  *)
(* its parent runs again.                                                   *)
LEMMA CloneAgrees ==
  ASSUME IInv, TypeOK', ~dying, NEW t \in Tids, MonitorClone(t)
  PROVE  IInv' /\ NamesCause
<1> DEFINE c == newborn[t]
           v == WaitForNewThread(Now, c)
           w == ResumeThread(v, t)
<1>1. /\ PtraceStopped(Now, t) /\ m_threads[t] # "none" /\ event[t] = "clone"
      /\ handling = t /\ Handles(t, w)
  BY DEF MonitorClone, Monitors, GetSignalInfo, Tracked, Handles
<1>2. m_threads[t] = "running" /\ kernel[t] = "trapped" /\ m_state = "running"
  BY <1>1, HandledThread
<1>3. Now \in Worlds
  BY NowIsAWorld DEF IInv
<1>4. c \in Tids
  BY <1>1 DEF IInv, CloneNamed
<1>5. /\ v \in Worlds /\ v.pending = m_pending_notification_tid
      /\ \A u \in Tids \ {c} : SameThread(Now, v, u)
      /\ \/ SameThread(Now, v, c) /\ (m_threads[c] # "none" \/ kernel[c] = "gone")
         \/ /\ v.threads[c] = "running" /\ v.kernel[c] = "running"
            /\ v.event[c] = "none" /\ m_threads[c] = "none"
  <2>1. CASE m_threads[c] # "none"
    <3>1. v = Now
      BY <2>1 DEF WaitForNewThread, Now
    <3> QED BY <1>3, <2>1, <3>1 DEF SameThread, Now
  <2>2. CASE m_threads[c] = "none" /\ kernel[c] = "waiting"
    <3>1. v = TrackNewThread(Now, c) /\ PtraceStopped(Now, c)
      BY <2>2 DEF WaitForNewThread, PtraceStopped, Now
    <3>2. Now.pending = m_pending_notification_tid /\ Now.event[c] = "new"
      BY <1>4, <2>2 DEF Now, IInv, ThreadAgrees
    <3> HIDE DEF v
    <3> QED BY <1>3, <1>4, <2>2, <3>1, <3>2, TrackNewThreadMeans
  <2>3. CASE m_threads[c] = "none" /\ kernel[c] # "waiting"
    <3>1. kernel[c] = "gone"
      BY <1>1, <1>4, <2>3 DEF MonitorClone, Tracked, IInv, ThreadAgrees
    <3>2. v = [Now EXCEPT !.kernel[c] = "gone"]
      BY <2>3 DEF WaitForNewThread, Now
    <3>3. v = Now
      BY <1>3, <1>4, <3>1, <3>2 DEF Now, Worlds
    <3> QED BY <1>3, <3>1, <3>3 DEF SameThread, Now
  <2> QED BY <2>1, <2>2, <2>3
<1>6. c # t => SameThread(Now, v, t)
  BY <1>5
<1>7. SameThread(Now, v, t)
  BY <1>2, <1>5, <1>6
<1> HIDE DEF v
<1>8. /\ w \in Worlds /\ w.pending = m_pending_notification_tid
      /\ \A u \in Tids \ {t} : SameThread(v, w, u)
      /\ w.threads[t] = "running" /\ w.kernel[t] = "running"
      /\ w.event[t] = "none" /\ w.state = "running"
  <2>1. {t} \in SUBSET Tids /\ PtraceStopped(v, t) /\ v.event[t] = "clone"
    BY <1>1, <1>7 DEF PtraceStopped, SameThread, Now
  <2> QED BY <1>5, <2>1, ResumeThreadsMeans DEF ResumeThread
<1> HIDE DEF w
<1>9. \A u \in Tids \ {t} : \/ SameThread(Now, w, u)
                             \/ /\ Settled(w, u) /\ w.threads[u] = "running"
                                /\ w.kernel[u] = "running" /\ m_threads[u] = "none"
  <2> SUFFICES ASSUME NEW u \in Tids \ {t}, ~SameThread(Now, w, u)
               PROVE  /\ Settled(w, u) /\ w.threads[u] = "running"
                      /\ w.kernel[u] = "running" /\ m_threads[u] = "none"
    OBVIOUS
  <2>1. SameThread(v, w, u)
    BY <1>8
  <2>2. ~SameThread(Now, v, u)
    BY <2>1 DEF SameThread
  <2>3. u = c
    BY <1>5, <2>2
  <2>4. /\ v.threads[u] = "running" /\ v.kernel[u] = "running"
        /\ v.event[u] = "none" /\ m_threads[u] = "none"
    BY <1>5, <2>2, <2>3
  <2> QED BY <2>1, <2>4 DEF SameThread, Settled
<1>10. ASSUME NEW u \in Tids, w.pending = u, w.threads[u] = "stopped" PROVE w.cause[u]
  <2>1. SameThread(Now, w, u)
    BY <1>8, <1>9, <1>10
  <2> QED BY <1>8, <1>10, <2>1 DEF IInv, PendingCause, SameThread, Now
<1>11. ASSUME NEW d \in Tids, Forking(t, d)
       PROVE  w.threads[d] # "none" \/ w.kernel[d] = "gone"
  <2>1. d = c
    BY <1>11 DEF Forking
  <2>2. CASE SameThread(Now, v, c)
    <3>1. d # t => SameThread(v, w, d)
      BY <1>8
    <3>2. m_threads[c] # "none" \/ kernel[c] = "gone"
      BY <1>5, <2>2 DEF SameThread, Now
    <3> QED BY <1>8, <2>1, <2>2, <3>1, <3>2 DEF SameThread, Now
  <2>3. CASE ~SameThread(Now, v, c)
    <3>1. v.threads[c] = "running"
      BY <1>5, <2>3
    <3> QED BY <1>8, <2>1, <3>1 DEF SameThread
  <2> QED BY <2>2, <2>3
<1>12. Settled(w, t)
  BY <1>8 DEF Settled
<1> QED BY <1>1, <1>8, <1>9, <1>10, <1>11, <1>12, HandlesAgrees

(* MonitorTrap: the thread has a cause, and a stop for it begins.           *)
LEMMA TrapAgrees ==
  ASSUME IInv, TypeOK', ~dying, NEW t \in Tids, MonitorTrap(t)
  PROVE  IInv' /\ NamesCause
<1> DEFINE v == SetStopped(Now, t, TRUE)
           w == StopRunningThreads(v, t)
<1>1. handling = t /\ event[t] = "trap" /\ Handles(t, w)
  BY DEF MonitorTrap, Monitors, Handles
<1>2. kernel[t] = "trapped" /\ m_state = "running" /\ Now \in Worlds
  BY <1>1, HandledThread, NowIsAWorld DEF IInv
<1>3. /\ v \in Worlds /\ v.state = "running"
      /\ \A u \in Tids \ {t} : SameThread(Now, v, u)
      /\ v.threads[t] = "stopped" /\ v.cause[t] = TRUE
      /\ v.event[t] = "none" /\ v.kernel[t] = "trapped"
  <2>1. Now.state = "running" /\ Now.kernel[t] = "trapped"
    BY <1>2 DEF Now
  <2> QED BY <1>2, <2>1, SetStoppedMeans
<1> HIDE DEF v
<1>4. /\ w \in Worlds /\ \A u \in Tids : SameThread(v, w, u)
      /\ \/ /\ w.pending = t /\ w.state = "running"
            /\ \E u \in Tids : w.threads[u] = "running"
         \/ /\ \A u \in Tids : w.threads[u] # "running"
            /\ w.pending = NoThread /\ w.state = "stopped" /\ w.current = t
  <2>1. /\ w \in Worlds /\ \A u \in Tids : SameThread(v, w, u)
        /\ \/ /\ w.pending = t /\ w.state = v.state
              /\ \E u \in Tids : v.threads[u] = "running"
           \/ /\ \A u \in Tids : v.threads[u] # "running"
              /\ w.pending = NoThread /\ w.state = "stopped" /\ w.current = t
    BY <1>3, StopRunningMeans
  <2> HIDE DEF w
  <2> QED BY <1>3, <2>1 DEF SameThread
<1> HIDE DEF w
<1>5. /\ Settled(w, t) /\ w.cause[t] /\ \A u \in Tids \ {t} : SameThread(Now, w, u)
  BY <1>3, <1>4 DEF Settled, SameThread
<1>6. \A c \in Tids : ~Forking(t, c)
  BY <1>1 DEF Forking
<1>7. \A u \in Tids : w.pending = u => w.cause[u]
  BY <1>4, <1>5, NativeAssumption
<1>8. w.kernel[t] = "trapped" /\ t # NoThread
  BY <1>3, <1>4, NativeAssumption DEF SameThread
<1> QED BY <1>1, <1>4, <1>5, <1>6, <1>7, <1>8, HandlesAgrees

(* MonitorSIGSTOP: the thread joins the stop that is under way, or goes on. *)
LEMMA SIGSTOPAgrees ==
  ASSUME IInv, TypeOK', ~dying, NEW t \in Tids, MonitorSIGSTOP(t)
  PROVE  IInv' /\ NamesCause
<1>1. handling = t /\ event[t] = "sigstop" /\ m_threads[t] # "none"
  BY DEF MonitorSIGSTOP, Monitors, Handles, Tracked
<1>2. /\ kernel[t] = "trapped" /\ m_state = "running" /\ m_threads[t] = "running"
      /\ Now \in Worlds /\ Runs(Now, t) /\ t \in Tracked
  BY <1>1, HandledThread, NowIsAWorld DEF IInv, Runs, Now, Tracked
<1>3. CASE m_pending_notification_tid = NoThread
  <2>1. Handles(t, ResumeThread(Now, t))
    BY <1>2, <1>3 DEF MonitorSIGSTOP
  <2> QED BY <1>1, <1>2, <2>1, ResumedAgrees
<1>4. CASE m_pending_notification_tid # NoThread
  <2> DEFINE s == SetStopped(Now, t, m_pending_notification_tid = t)
             v == [s EXCEPT !.current = t]
             w == SignalIfAllThreadsStopped(v)
  <2>1. Handles(t, w)
    BY <1>2, <1>4 DEF MonitorSIGSTOP
  <2>2. /\ s \in Worlds /\ s.state = "running" /\ s.pending = m_pending_notification_tid
        /\ \A u \in Tids \ {t} : SameThread(Now, s, u)
        /\ s.threads[t] = "stopped" /\ s.cause[t] = (m_pending_notification_tid = t)
        /\ s.event[t] = "none" /\ s.kernel[t] = "trapped"
    <3>1. /\ Now.state = "running" /\ Now.kernel[t] = "trapped"
          /\ Now.pending = m_pending_notification_tid
      BY <1>2 DEF Now
    <3> QED BY <1>2, <3>1, SetStoppedMeans
  <2> HIDE DEF s
  <2>3. /\ v \in Worlds /\ v.state = s.state /\ v.pending = s.pending
        /\ \A u \in Tids : SameThread(s, v, u)
    BY <2>2 DEF Worlds, SameThread
  <2> HIDE DEF v
  <2>4. /\ w \in Worlds /\ \A u \in Tids : SameThread(v, w, u)
        /\ \/ /\ w.pending = m_pending_notification_tid /\ w.state = "running"
              /\ \E u \in Tids : w.threads[u] = "running"
           \/ /\ \A u \in Tids : w.threads[u] # "running"
              /\ w.pending = NoThread /\ w.state = "stopped"
              /\ w.current = m_pending_notification_tid
    <3>1. /\ w \in Worlds /\ \A u \in Tids : SameThread(v, w, u)
          /\ \/ w = v /\ \E u \in Tids : v.threads[u] = "running"
             \/ /\ \A u \in Tids : v.threads[u] # "running"
                /\ w.pending = NoThread /\ w.state = "stopped" /\ w.current = v.pending
      BY <1>4, <2>2, <2>3, SignalMeans
    <3> HIDE DEF w
    <3> QED BY <2>2, <2>3, <3>1 DEF SameThread
  <2> HIDE DEF w
  <2>5. /\ Settled(w, t) /\ w.cause[t] = (m_pending_notification_tid = t)
        /\ w.kernel[t] = "trapped"
        /\ \A u \in Tids \ {t} : SameThread(Now, w, u)
    BY <2>2, <2>3, <2>4 DEF Settled, SameThread
  <2>6. \A c \in Tids : ~Forking(t, c)
    BY <1>1 DEF Forking
  <2>7. ASSUME NEW u \in Tids, w.pending = u, w.threads[u] = "stopped" PROVE w.cause[u]
    <3>1. m_pending_notification_tid = u
      BY <2>4, <2>7, NativeAssumption
    <3>2. CASE u = t
      BY <2>5, <3>1, <3>2
    <3>3. CASE u # t
      BY <2>5, <2>7, <3>1, <3>3 DEF IInv, PendingCause, SameThread, Now
    <3> QED BY <3>2, <3>3
  <2>8. ASSUME w.state = "stopped" PROVE w.threads[w.current] = "none" \/ w.cause[w.current]
    <3>1. /\ w.current = m_pending_notification_tid /\ w.current \in Tids
          /\ w.threads[w.current] \in {"none", "stopped"}
      BY <1>4, <2>4, <2>8 DEF Worlds, IInv, TypeOK
    <3>2. CASE w.current = t
      BY <2>5, <3>1, <3>2
    <3>3. CASE w.current # t
      BY <2>5, <3>1, <3>3 DEF IInv, PendingCause, SameThread, Now
    <3> QED BY <3>2, <3>3
  <2> QED BY <1>4, <2>1, <2>4, <2>5, <2>6, <2>7, <2>8, HandlesAgrees
<1> QED BY <1>3, <1>4

(* MonitorCallback, before the process is killed.                           *)
LEMMA MonitorAgrees ==
  ASSUME IInv, TypeOK', ~dying, NEW t \in Tids, MonitorCallback(t)
  PROVE  IInv' /\ NamesCause
<1>1. ASSUME MonitorVanished(t) PROVE FALSE
  <2>1. handling = t /\ kernel[t] # "trapped"
    BY <1>1 DEF MonitorVanished, Handles, GetSignalInfo, PtraceStopped, Now
  <2> QED BY <2>1, HandledThread
<1>2. ASSUME MonitorExit(t) \/ MonitorIgnored(t) PROVE IInv' /\ NamesCause
  <2>1. /\ handling = t /\ t \in Tracked /\ event[t] \in {"exit", "ignored"}
        /\ Handles(t, ResumeThread(Now, t))
    BY <1>2 DEF MonitorExit, MonitorIgnored, Monitors, Handles
  <2> QED BY <2>1, ResumedAgrees
<1> QED BY <1>1, <1>2, UnknownAgrees, CloneAgrees, TrapAgrees, SIGSTOPAgrees
        DEF MonitorCallback

(* waitpid reports a stop.                                                  *)
LEMMA SigchldAgrees ==
  ASSUME IInv, TypeOK', ~dying, NEW t \in Tids, SigchldHandler(t)
  PROVE  IInv' /\ NamesCause
<1>1. /\ kernel[t] = "waiting" /\ kernel' = [kernel EXCEPT ![t] = "trapped"]
      /\ handling = NoThread /\ handling' = t /\ m_state # "exited" /\ t # NoThread
      /\ UNCHANGED <<event, newborn, m_threads, cause, m_state, m_pending_notification_tid, dying>>
  BY NativeAssumption DEF SigchldHandler, Serving, kernelVars
<1>2. m_state = "running"
  BY <1>1 DEF IInv, TypeOK, StopsAreComplete
<1>3. HandlingAgrees' /\ StopsAreComplete'
  BY <1>1, <1>2 DEF IInv, TypeOK, HandlingAgrees, StopsAreComplete
<1>4. ASSUME NEW u \in Tids PROVE ThreadAgrees(u)'
  <2>1. \A p \in Tids : Forking(p, u) => Forking(p, u)'
    BY <1>1 DEF IInv, TypeOK, Forking
  <2>2. ThreadAgrees(u) /\ kernel'[t] = "trapped" /\ (u # t => kernel'[u] = kernel[u])
    BY <1>1 DEF IInv, TypeOK
  <2>3. CASE u = t
    BY <1>1, <2>1, <2>2, <2>3 DEF ThreadAgrees
  <2>4. CASE u # t
    BY <1>1, <2>1, <2>2, <2>4, NativeAssumption DEF ThreadAgrees
  <2> QED BY <2>3, <2>4
<1>5. CloneNamed' /\ PendingCause'
  BY <1>1 DEF IInv, CloneNamed, PendingCause
<1>6. ~LastRunnerExits => SomeoneRuns'
  <2>1. \A u \in Tids : Leaving(u)' => Leaving(u)
    BY <1>1 DEF IInv, TypeOK, Leaving
  <2> QED BY <1>1, <2>1 DEF IInv, SomeoneRuns
<1> QED BY <1>1, <1>2, <1>3, <1>4, <1>5, <1>6 DEF IInv, NamesCause

(* waitpid reports an exit: the stop that is under way does not wait for    *)
(* the thread any more.                                                     *)
LEMMA ThreadExitedAgrees ==
  ASSUME IInv, TypeOK', ~dying, NEW t \in Tids, ThreadExited(t)
  PROVE  IInv' /\ NamesCause
<1> DEFINE v == [Now EXCEPT !.kernel[t] = "gone"]
           r == StopTrackingThread(v, t)
           w == [r EXCEPT !.state = IF t = Main THEN "exited" ELSE @]
<1>1. /\ kernel[t] = "zombie" /\ handling = NoThread /\ handling' = NoThread
      /\ m_state # "exited" /\ Becomes(w) /\ dying' = dying
  BY DEF ThreadExited, Serving, kernelVars
<1>2. m_threads[t] = "running" /\ m_state = "running" /\ Now \in Worlds
  BY <1>1, NowIsAWorld DEF IInv, TypeOK, ThreadAgrees, StopsAreComplete
<1>3. /\ v \in Worlds /\ v.kernel[t] = "gone" /\ v.state = m_state
      /\ v.pending = m_pending_notification_tid
      /\ \A u \in Tids \ {t} : SameThread(Now, v, u)
      /\ v.event = event /\ v.newborn = newborn
  BY <1>2 DEF Worlds, KernelStates, SameThread, Now
<1> HIDE DEF v
<1>4. /\ r \in Worlds /\ r.threads[t] = "none" /\ r.kernel[t] = "gone"
      /\ r.event[t] = event[t] /\ r.newborn[t] = newborn[t]
      /\ \A u \in Tids \ {t} : SameThread(v, r, u)
      /\ \/ /\ r.pending = v.pending /\ r.state = v.state
            /\ v.pending = NoThread \/ \E u \in Tids \ {t} : v.threads[u] = "running"
         \/ /\ \A u \in Tids \ {t} : v.threads[u] # "running"
            /\ v.pending # NoThread /\ r.current = v.pending
            /\ r.pending = NoThread /\ r.state = "stopped"
  BY <1>3, StopTrackingMeans
<1> HIDE DEF r
<1>5. /\ w \in Worlds /\ w.pending = r.pending /\ w.state \in {r.state, "exited"}
      /\ w.kernel = r.kernel /\ w.event = r.event /\ w.newborn = r.newborn
      /\ w.threads = r.threads /\ w.cause = r.cause /\ w.current = r.current
      /\ t = Main => w.state = "exited"
  BY <1>4 DEF Worlds
<1> HIDE DEF w
<1>6. /\ m_threads'[t] = "none" /\ kernel'[t] = "gone"
      /\ event'[t] = event[t] /\ newborn'[t] = newborn[t]
      /\ \A u \in Tids \ {t} :
           /\ kernel'[u] = kernel[u] /\ event'[u] = event[u] /\ newborn'[u] = newborn[u]
           /\ m_threads'[u] = m_threads[u] /\ cause'[u] = cause[u]
      /\ \/ /\ m_pending_notification_tid' = m_pending_notification_tid
            /\ m_state' \in {"running", "exited"}
            /\ \/ m_pending_notification_tid = NoThread
               \/ \E u \in Tids : m_threads'[u] = "running"
         \/ /\ \A u \in Tids : m_threads'[u] # "running"
            /\ m_pending_notification_tid # NoThread
            /\ m_pending_notification_tid' = NoThread
            /\ m_current_thread_id' = m_pending_notification_tid
            /\ m_state' \in {"stopped", "exited"}
      /\ t = Main => m_state' = "exited"
  BY <1>1, <1>2, <1>3, <1>4, <1>5 DEF Becomes, SameThread, Now
<1>7. ASSUME NEW u \in Tids PROVE ThreadAgrees(u)'
  <2>1. \A p \in Tids : Forking(p, u) => Forking(p, u)'
    BY <1>1, <1>6 DEF Forking
  <2> QED BY <1>1, <1>6, <2>1, NativeAssumption DEF IInv, ThreadAgrees
<1>8. HandlingAgrees' /\ CloneNamed'
  BY <1>1, <1>6 DEF IInv, HandlingAgrees, CloneNamed
<1>9. StopsAreComplete'
  <2> SUFFICES ASSUME m_state' = "stopped", NEW u \in Tids
               PROVE  kernel'[u] \in {"none", "trapped", "gone"}
    BY DEF StopsAreComplete
  <2>1. \A x \in Tids : m_threads'[x] # "running"
    BY <1>6
  <2>2. m_threads'[u] \in {"none", "stopped"}
    BY <2>1 DEF TypeOK
  <2> QED BY <1>1, <1>7, <2>1, <2>2, NativeAssumption DEF ThreadAgrees, Forking
<1>10. PendingCause'
  BY <1>6, NativeAssumption DEF IInv, PendingCause
<1>11. ASSUME ~LastRunnerExits PROVE SomeoneRuns'
  <2>1. \/ m_threads[Main] = "running" \/ m_pending_notification_tid # NoThread
    BY <1>1, <1>2, <1>11 DEF IInv, SomeoneRuns, Leaving
  <2>2. \/ m_state' = "exited" \/ \A u \in Tids : m_threads'[u] # "running"
        \/ m_threads'[Main] = "running" \/ m_pending_notification_tid' # NoThread
    BY <1>6, <2>1, NativeAssumption
  <2>3. m_state' = "running" => \E u \in Tids : m_threads'[u] = "running"
    BY <1>6, <2>1, NativeAssumption
  <2> QED BY <2>2, <2>3 DEF SomeoneRuns, Leaving
<1>12. NamesCause
  <2> SUFFICES ASSUME m_state' = "stopped"
               PROVE  m_threads'[m_current_thread_id'] = "none" \/ cause'[m_current_thread_id']
    BY DEF NamesCause
  <2> DEFINE p == m_pending_notification_tid
  <2>1. m_current_thread_id' = p /\ p \in Tids /\ m_threads'[p] \in {"none", "stopped"}
    BY <1>6 DEF IInv, TypeOK
  <2> QED BY <1>6, <2>1 DEF IInv, PendingCause
<1> QED BY <1>7, <1>8, <1>9, <1>10, <1>11, <1>12 DEF IInv

(* The client resumes some threads: all of them were in a handled stop.     *)
LEMMA ResumeAgrees ==
  ASSUME IInv, TypeOK', ~dying, NEW chosen \in (SUBSET Tracked) \ {{}}, Resume(chosen)
  PROVE  IInv' /\ NamesCause
<1> DEFINE w == ResumeThreads(Now, chosen)
<1>1. /\ handling = NoThread /\ handling' = NoThread /\ m_state = "stopped"
      /\ Becomes(w) /\ dying' = dying
      /\ chosen \in SUBSET Tids /\ Now \in Worlds
  BY NowIsAWorld DEF IInv, Resume, Serving, kernelVars, Tracked
<1>2. \A u \in Tids : /\ kernel[u] \in {"none", "trapped", "gone"} /\ u # NoThread
                      /\ u \in chosen => m_threads[u] # "none"
  BY NativeAssumption DEF IInv, StopsAreComplete, Tracked, Resume
<1>3. \A u \in chosen : PtraceStopped(Now, u) /\ Now.event[u] = "none"
  BY <1>1, <1>2 DEF IInv, TypeOK, ThreadAgrees, PtraceStopped, Now
<1>4. PICK x \in chosen : TRUE
  OBVIOUS
<1>5. /\ w \in Worlds /\ w.pending = Now.pending /\ w.state = "running"
      /\ \A u \in Tids \ chosen : SameThread(Now, w, u)
      /\ \A u \in chosen : /\ w.threads[u] = "running" /\ w.event[u] = "none"
                           /\ w.kernel[u] = "running"
  BY <1>1, <1>3, <1>4, ResumeThreadsMeans
<1> HIDE DEF w
<1>6. /\ m_state' = "running" /\ m_pending_notification_tid' = m_pending_notification_tid
      /\ \A u \in chosen : /\ m_threads'[u] = "running" /\ event'[u] = "none"
                           /\ kernel'[u] = "running"
      /\ \A u \in Tids \ chosen :
           /\ kernel'[u] = kernel[u] /\ event'[u] = event[u] /\ newborn'[u] = newborn[u]
           /\ m_threads'[u] = m_threads[u] /\ cause'[u] = cause[u]
  BY <1>1, <1>5 DEF Becomes, SameThread, Now
<1>7. \A u \in Tids : ThreadAgrees(u)'
  BY <1>1, <1>2, <1>6 DEF IInv, ThreadAgrees
<1>8. HandlingAgrees' /\ CloneNamed' /\ StopsAreComplete' /\ PendingCause'
  BY <1>1, <1>6 DEF IInv, HandlingAgrees, CloneNamed, StopsAreComplete, PendingCause
<1>9. SomeoneRuns'
  <2>1. \A u \in Tids : ~Leaving(u)'
    BY <1>1, <1>2, <1>6 DEF IInv, ThreadAgrees, Leaving
  <2> QED BY <1>1, <1>4, <1>6, <2>1 DEF SomeoneRuns
<1> QED BY <1>6, <1>7, <1>8, <1>9 DEF IInv, NamesCause

(* ^C begins a stop, or ends one at once if nothing runs.                   *)
LEMMA InterruptAgrees ==
  ASSUME IInv, TypeOK', ~dying, NEW t \in Tids, Interrupt(t)
  PROVE  IInv' /\ NamesCause
<1> DEFINE w == StopRunningThreads(Now, t)
<1>1. /\ handling = NoThread /\ handling' = NoThread /\ Becomes(w) /\ dying' = dying
      /\ m_threads[t] = "running" \/ \A u \in Tids : m_threads[u] # "running"
      /\ Now \in Worlds
  BY NowIsAWorld DEF IInv, Interrupt, Serving, kernelVars, Runs, Now
<1>2. /\ w \in Worlds /\ \A u \in Tids : SameThread(Now, w, u)
      /\ \/ /\ w.pending = t /\ w.state = Now.state
            /\ \E u \in Tids : Now.threads[u] = "running"
         \/ /\ \A u \in Tids : Now.threads[u] # "running"
            /\ w.pending = NoThread /\ w.state = "stopped"
  BY <1>1, StopRunningMeans
<1> HIDE DEF w
<1>3. /\ \A u \in Tids :
           /\ kernel'[u] = kernel[u] /\ event'[u] = event[u] /\ newborn'[u] = newborn[u]
           /\ m_threads'[u] = m_threads[u] /\ cause'[u] = cause[u]
      /\ \/ /\ m_pending_notification_tid' = t /\ m_state' = m_state
            /\ m_threads[t] = "running"
         \/ /\ \A u \in Tids : m_threads[u] # "running"
            /\ m_pending_notification_tid' = NoThread /\ m_state' = "stopped"
  BY <1>1, <1>2 DEF Becomes, SameThread, Now
<1>4. ASSUME NEW u \in Tids PROVE ThreadAgrees(u)'
  <2>1. \A p \in Tids : Forking(p, u) => Forking(p, u)'
    BY <1>3 DEF Forking
  <2> QED BY <1>1, <1>3, <2>1 DEF IInv, ThreadAgrees
<1>5. HandlingAgrees' /\ CloneNamed'
  BY <1>1, <1>3 DEF IInv, HandlingAgrees, CloneNamed
<1>6. StopsAreComplete'
  <2>1. CASE \A u \in Tids : m_threads[u] # "running"
    <3>1. \A u \in Tids : m_threads[u] \in {"none", "stopped"} /\ u # NoThread
      BY <2>1, NativeAssumption DEF IInv, TypeOK
    <3> QED BY <1>1, <1>3, <2>1, <3>1 DEF IInv, ThreadAgrees, Forking, StopsAreComplete
  <2>2. CASE m_state' = m_state
    BY <1>1, <1>3, <2>2 DEF IInv, StopsAreComplete
  <2> QED BY <1>3, <2>1, <2>2
<1>7. PendingCause'
  BY <1>3, NativeAssumption DEF IInv, PendingCause
<1>8. ASSUME ~LastRunnerExits PROVE SomeoneRuns'
  BY <1>3, <1>8, NativeAssumption DEF SomeoneRuns, Leaving
<1>9. NamesCause
  BY <1>1, <1>3 DEF NamesCause, IInv, SomeoneRuns
<1> QED BY <1>4, <1>5, <1>6, <1>7, <1>8, <1>9 DEF IInv

(* A step of one thread in the kernel that lldb-server has not heard of.    *)
LEMMA KernelStepAgrees ==
  ASSUME IInv, TypeOK', ~dying, NEW t \in Tids, NEW e \in Events, e = "clone" => event[t] = e,
         kernel[t] = "running" /\ e = "exit" => LastRunnerExits \/ m_threads[Main] = "running",
         \/ kernel[t] = "running" /\ kernel' = [kernel EXCEPT ![t] = "waiting"]
         \/ kernel[t] = "exiting" /\ kernel' = [kernel EXCEPT ![t] = "zombie"],
         event' = [event EXCEPT ![t] = e],
         sigstop' \in [Tids -> BOOLEAN], events' \in 0 .. MaxEvents,
         UNCHANGED <<newborn, dying, m_threads, cause, m_state, m_pending_notification_tid,
                     m_current_thread_id, handling, resumes, interrupts>>
  PROVE  IInv' /\ NamesCause
<1>1. /\ \A u \in Tids \ {t} : kernel'[u] = kernel[u] /\ event'[u] = event[u]
      /\ kernel'[t] \in {"waiting", "zombie"} /\ (event'[t] = "clone" => event[t] = "clone")
  BY DEF IInv, TypeOK
<1>2. m_threads[t] = "running" /\ handling # t /\ m_state # "stopped"
  <2>1. ThreadAgrees(t) /\ kernel[t] \in {"running", "exiting"}
    BY DEF IInv
  <2> QED BY <2>1, NativeAssumption
          DEF IInv, TypeOK, ThreadAgrees, HandlingAgrees, StopsAreComplete
<1>3. ASSUME NEW u \in Tids PROVE ThreadAgrees(u)'
  <2>1. \A p \in Tids : Forking(p, u) => Forking(p, u)'
    BY <1>1 DEF Forking
  <2>2. ThreadAgrees(u)
    BY DEF IInv
  <2>3. CASE u = t
    BY <1>1, <1>2, <2>3 DEF ThreadAgrees
  <2>4. CASE u # t
    BY <1>1, <2>1, <2>2, <2>4 DEF ThreadAgrees
  <2> QED BY <2>3, <2>4
<1>4. HandlingAgrees' /\ CloneNamed' /\ StopsAreComplete' /\ PendingCause'
  BY <1>1, <1>2 DEF IInv, TypeOK, HandlingAgrees, CloneNamed, StopsAreComplete, PendingCause
<1>5. ASSUME ~LastRunnerExits PROVE SomeoneRuns'
  <2>1. SomeoneRuns
    BY <1>5 DEF IInv
  <2>2. ASSUME NEW u \in Tids, Leaving(u)', ~Leaving(u) PROVE m_threads[Main] = "running"
    <3>1. u = t
      BY <1>1, <2>2 DEF Leaving
    <3>2. kernel[t] = "running" /\ e = "exit"
      BY <2>2, <3>1 DEF IInv, TypeOK, Leaving
    <3> QED BY <1>5, <3>2
  <2> QED BY <2>1, <2>2 DEF SomeoneRuns
<1> QED BY <1>2, <1>3, <1>4, <1>5 DEF IInv, NamesCause

(* The kernel and the inferior, but for a clone and the end of the process. *)
LEMMA KernelAgrees ==
  ASSUME IInv, TypeOK', ~dying, NEW t \in Tids
  PROVE  /\ \A e \in Causes : ThreadReports(t, e) => IInv' /\ NamesCause
         /\ SigstopStops(t) => IInv' /\ NamesCause
         /\ ThreadDies(t) => IInv' /\ NamesCause
<1>1. ASSUME NEW e \in Causes, ThreadReports(t, e) PROVE IInv' /\ NamesCause
  <2>1. e \in Events \ {"clone"} /\ sigstop' \in [Tids -> BOOLEAN] /\ events' \in 0 .. MaxEvents
    BY <1>1, NativeAssumption DEF ThreadReports, IInv, TypeOK, Events
  <2>2. e = "exit" => LastRunnerExits \/ m_threads[Main] = "running"
    BY <1>1 DEF ThreadReports
  <2> QED BY <1>1, <2>1, <2>2, KernelStepAgrees DEF ThreadReports, Reports, clientVars
<1>2. ASSUME SigstopStops(t) PROVE IInv' /\ NamesCause
  <2>1. /\ "sigstop" \in Events \ {"clone"}
        /\ sigstop' \in [Tids -> BOOLEAN] /\ events' \in 0 .. MaxEvents
    BY <1>2 DEF SigstopStops, IInv, TypeOK, Events
  <2> QED BY <1>2, <2>1, KernelStepAgrees DEF SigstopStops, Reports, clientVars
<1>3. ASSUME ThreadDies(t) PROVE IInv' /\ NamesCause
  <2>1. /\ event[t] \in Events /\ event' = [event EXCEPT ![t] = event[t]]
        /\ sigstop' \in [Tids -> BOOLEAN] /\ events' \in 0 .. MaxEvents
    BY <1>3 DEF ThreadDies, IInv, TypeOK, Events, kernelVars
  <2> QED BY <1>3, <2>1, KernelStepAgrees DEF ThreadDies, kernelVars, clientVars
<1> QED BY <1>1, <1>2, <1>3

(* A clone: the child is held, and the parent's stop names it.              *)
LEMMA ClonesAgrees ==
  ASSUME IInv, TypeOK', ~dying, NEW t \in Tids, NEW child \in Tids, ThreadClones(t, child)
  PROVE  IInv' /\ NamesCause
<1>1. /\ kernel[t] = "running" /\ kernel[child] = "none" /\ t # child
      /\ \A u \in Tids \ {t, child} :
           kernel'[u] = kernel[u] /\ event'[u] = event[u] /\ newborn'[u] = newborn[u]
      /\ kernel'[t] = "waiting" /\ event'[t] = "clone" /\ newborn'[t] = child
      /\ kernel'[child] = "waiting" /\ event'[child] = "new"
      /\ UNCHANGED <<m_threads, cause, m_state, m_pending_notification_tid, handling, dying>>
  BY DEF IInv, TypeOK, ThreadClones
<1>2. m_threads[t] = "running" /\ handling # t /\ handling # child /\ m_state # "stopped"
      /\ m_threads[child] = "none"
  <2>1. ThreadAgrees(t) /\ ThreadAgrees(child)
    BY DEF IInv
  <2> QED BY <1>1, <2>1, NativeAssumption
          DEF IInv, TypeOK, ThreadAgrees, HandlingAgrees, StopsAreComplete
<1>3. ASSUME NEW u \in Tids PROVE ThreadAgrees(u)'
  <2>1. \A p \in Tids : Forking(p, u) => Forking(p, u)'
    BY <1>1 DEF Forking
  <2>2. ThreadAgrees(u)
    BY DEF IInv
  <2>3. CASE u = t
    BY <1>1, <1>2, <2>3 DEF ThreadAgrees
  <2>4. CASE u = child
    <3>1. Forking(t, child)'
      BY <1>1, <1>2 DEF Forking
    <3> QED BY <1>1, <1>2, <2>4, <3>1 DEF ThreadAgrees
  <2>5. CASE u \notin {t, child}
    BY <1>1, <2>1, <2>2, <2>5 DEF ThreadAgrees
  <2> QED BY <2>3, <2>4, <2>5
<1>4. HandlingAgrees' /\ CloneNamed' /\ StopsAreComplete' /\ PendingCause'
  BY <1>1, <1>2 DEF IInv, TypeOK, HandlingAgrees, CloneNamed, StopsAreComplete, PendingCause
<1>5. ~LastRunnerExits => SomeoneRuns'
  <2>1. \A u \in Tids : Leaving(u)' => Leaving(u)
    BY <1>1, <1>2 DEF Leaving
  <2> QED BY <1>1, <2>1 DEF IInv, SomeoneRuns
<1> QED BY <1>1, <1>2, <1>3, <1>4, <1>5 DEF IInv, NamesCause

---------------------------------------------------------------------------
(* The theorems *)

(* The initial states satisfy the invariant.                                *)
LEMMA InitAgrees == Init => IInv
<1> SUFFICES ASSUME Init PROVE IInv
  OBVIOUS
<1>1. TypeOK
  <2>1. PICK S \in SUBSET Tids :
          /\ kernel = [t \in Tids |-> IF t \in S THEN "trapped" ELSE "none"]
          /\ m_threads = [t \in Tids |-> IF t \in S THEN "stopped" ELSE "none"]
          /\ cause = [t \in Tids |-> t \in S]
    BY DEF Init
  <2>2. /\ kernel \in [Tids -> KernelStates] /\ cause \in [Tids -> BOOLEAN]
        /\ m_threads \in [Tids -> {"none", "stopped", "running"}]
    BY <2>1 DEF KernelStates
  <2>3. /\ event \in [Tids -> Events] /\ newborn \in [Tids -> Tids \union {NoThread}]
        /\ sigstop \in [Tids -> BOOLEAN]
    BY DEF Init, Events
  <2>4. /\ m_state = "stopped" /\ m_current_thread_id \in Tids \union {NoThread}
        /\ m_pending_notification_tid \in Tids \union {NoThread}
        /\ handling \in Tids \union {NoThread}
        /\ events \in 0 .. MaxEvents
        /\ resumes \in 0 .. MaxResumes /\ interrupts \in 0 .. MaxInterrupts
    BY NativeAssumption DEF Init
  <2>5. dying \in BOOLEAN
    BY DEF Init
  <2> QED BY <2>2, <2>3, <2>4, <2>5 DEF TypeOK, Events
<1>2. \A t \in Tids : t # NoThread /\ ThreadAgrees(t)
  BY NativeAssumption DEF Init, ThreadAgrees
<1>3. \A t \in Tids : kernel[t] \in {"none", "trapped"} /\ event[t] = "none"
  BY DEF Init
<1>4. SomeoneRuns
  BY <1>3 DEF Init, SomeoneRuns, Leaving
<1> QED BY <1>1, <1>2, <1>3, <1>4
        DEF Init, IInv, HandlingAgrees, CloneNamed, StopsAreComplete, PendingCause

(* Every step preserves it, and names a cause with each stop.               *)
LEMMA StepAgrees == IInv /\ [Next]_vars => IInv' /\ (~dying => NamesCause)
<1> SUFFICES ASSUME IInv, [Next]_vars PROVE IInv' /\ (~dying => NamesCause)
  OBVIOUS
<1>1. TypeOK'
  BY TypeStep DEF IInv
<1>2. CASE dying
  <2>1. dying'
    BY <1>2 DEF Next, Server, vars, kernelVars, Resume, Interrupt, SigchldHandler, ThreadExited,
         MonitorCallback, MonitorVanished, MonitorUnknown, MonitorClone, MonitorExit, MonitorTrap,
         MonitorIgnored, MonitorSIGSTOP, Handles, ThreadReports, ThreadClones, SigstopStops,
         ThreadDies, ProcessDies
  <2> QED BY <1>1, <1>2, <2>1 DEF IInv
<1>3. CASE ~dying
  <2>1. ASSUME NEW stopping \in SUBSET Tids, ProcessDies(stopping) PROVE IInv' /\ NamesCause
    BY <1>1, <2>1 DEF ProcessDies, IInv, NamesCause
  <2>2. CASE UNCHANGED vars
    <3>1. /\ \A t \in Tids : ThreadAgrees(t) <=> ThreadAgrees(t)'
          /\ CloneNamed' <=> CloneNamed
          /\ HandlingAgrees' <=> HandlingAgrees
          /\ StopsAreComplete' <=> StopsAreComplete
          /\ PendingCause' <=> PendingCause
      BY <2>2 DEF ThreadAgrees, Forking, HandlingAgrees, CloneNamed, StopsAreComplete,
           PendingCause, vars, kernelVars, serverVars
    <3>2. SomeoneRuns' <=> SomeoneRuns
      BY <2>2 DEF SomeoneRuns, Leaving, vars, serverVars
    <3>3. NamesCause /\ dying' = dying
      BY <2>2 DEF NamesCause, vars, serverVars, kernelVars
    <3> QED BY <1>1, <3>1, <3>2, <3>3 DEF IInv
  <2> QED BY <1>1, <1>3, <2>1, <2>2, ResumeAgrees, InterruptAgrees, SigchldAgrees,
             ThreadExitedAgrees, MonitorAgrees, KernelAgrees, ClonesAgrees DEF Next, Server
<1> QED BY <1>2, <1>3

(* The variables keep their types (the fields of NativeProcessLinux and     *)
(* NativeThreadLinux).                                                      *)
THEOREM TypesCorrect == Spec => []TypeOK
<1>1. Init => TypeOK
  BY InitAgrees DEF IInv
<1> QED BY <1>1, TypeStep, PTL DEF Spec

(* The inductive invariant.                                                 *)
LEMMA Invariance == Spec => []IInv
BY InitAgrees, StepAgrees, PTL DEF Spec

(* What lldb-server believes of its threads is true until the process is    *)
(* killed (ResumeThread, MonitorSignal).                                    *)
THEOREM BeliefsAreTrue == Spec => []StatesAgree
<1>1. IInv => StatesAgree
  BY DEF IInv, TypeOK, ThreadAgrees, StatesAgree, Tracked
<1> QED BY <1>1, Invariance, PTL

(* A stop that the client hears of is a stop of every thread, even of one   *)
(* that lldb-server has not heard of (SignalIfAllThreadsStopped).           *)
THEOREM ReportedStopsAreComplete == Spec => []StopsAreComplete
<1>1. IInv => StopsAreComplete
  BY DEF IInv, StopsAreComplete
<1> QED BY <1>1, Invariance, PTL

(* If threads exit only while the leader runs, a stop is reported for a     *)
(* thread with a reason of its own (SignalIfAllThreadsStopped).             *)
THEOREM ReportedStopsNameCause ==
  ASSUME ~LastRunnerExits
  PROVE  Spec => StopNamesCause
<1>1. IInv /\ [Next]_vars =>
        [m_state = "running" /\ m_state' = "stopped" /\ ~dying =>
           m_threads'[m_current_thread_id'] = "none" \/ cause'[m_current_thread_id']]_vars
  BY StepAgrees DEF NamesCause
<1> QED BY <1>1, Invariance, PTL DEF Spec, StopNamesCause
=============================================================================
