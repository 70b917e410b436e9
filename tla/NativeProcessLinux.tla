------------------------- MODULE NativeProcessLinux -------------------------
(***************************************************************************)
(* How lldb-server stops and resumes the threads of an inferior            *)
(* (source/Plugins/Process/Linux/NativeProcessLinux.cpp).  One thread      *)
(* stops for a cause of its own; the others are sent SIGSTOP, and the      *)
(* client hears of the stop when all of them have stopped, while threads   *)
(* trap, are created and exit in any order, and signals of an earlier stop *)
(* are still under way.                                                    *)
(*                                                                         *)
(* The kernel and the inferior are the environment.  lldb-server has one   *)
(* thread: a packet, or one wait status, is handled at a time.  Left out:  *)
(* exec, detaching, and stepping with software breakpoints; Running and    *)
(* Stepping are one state here.                                            *)
(***************************************************************************)
EXTENDS Integers

CONSTANTS
  Tids, Main,          \* thread ids; the thread group leader
  NoThread,            \* LLDB_INVALID_THREAD_ID
  Causes,              \* what a running thread may report: "trap", a stop with a
                       \* cause of its own; "ignored", a signal in
                       \* m_signals_to_ignore and the like; "clone"; "exit"
  LeaderExits,         \* the leader may exit before the other threads
  LastRunnerExits,     \* a thread may exit when the leader is not running
  MaxEvents, MaxResumes, MaxInterrupts  \* bounds

ASSUME NativeAssumption ==
  /\ Main \in Tids /\ NoThread \notin Tids
  /\ Causes \subseteq {"trap", "ignored", "clone", "exit"}
  /\ LeaderExits \in BOOLEAN /\ LastRunnerExits \in BOOLEAN
  /\ MaxEvents \in Nat /\ MaxResumes \in Nat /\ MaxInterrupts \in Nat

VARIABLES
  kernel,     \* what each thread does, as the kernel knows
  event,      \* why it has stopped
  newborn,    \* the thread it has created (PTRACE_GETEVENTMSG)
  sigstop,    \* a SIGSTOP of lldb-server is pending
  dying,      \* SIGKILL or exit_group
  m_threads,  \* m_state of each thread that is tracked, or "none"
  cause,      \* it has a stop reason (m_stop_info)
  m_state, m_pending_notification_tid, m_current_thread_id,
  handling,   \* the thread whose wait status is being handled
  events, resumes, interrupts  \* counters for the bounds

kernelVars == <<dying, events>>
serverVars == <<kernel, event, newborn, sigstop, m_threads, cause, m_state, m_pending_notification_tid,
                m_current_thread_id>>
clientVars == <<resumes, interrupts>>
vars == <<kernelVars, serverVars, handling, clientVars>>

(* waiting: in a ptrace stop that waitpid has yet to report; trapped: in    *)
(* one that it has reported; zombie: dead and not yet reaped.               *)
KernelStates ==
  {"none", "running", "waiting", "trapped", "exiting", "zombie", "gone"}

TypeOK ==
  /\ kernel \in [Tids -> KernelStates]
  /\ event \in [Tids -> {"none", "trap", "ignored", "clone", "exit", "new", "sigstop"}]
  /\ newborn \in [Tids -> Tids \union {NoThread}]
  /\ sigstop \in [Tids -> BOOLEAN]
  /\ dying \in BOOLEAN
  /\ m_threads \in [Tids -> {"none", "stopped", "running"}]
  /\ cause \in [Tids -> BOOLEAN]
  /\ m_state \in {"stopped", "running", "exited"}
  /\ {m_pending_notification_tid, m_current_thread_id, handling}
       \subseteq (Tids \union {NoThread})
  /\ events \in 0 .. MaxEvents
  /\ resumes \in 0 .. MaxResumes /\ interrupts \in 0 .. MaxInterrupts

(* The constructor, for a process that was launched or attached to: every   *)
(* thread has stopped with SIGSTOP.                                         *)
Init ==
  /\ \E S \in SUBSET Tids :
       /\ Main \in S
       /\ kernel = [t \in Tids |-> IF t \in S THEN "trapped" ELSE "none"]
       /\ m_threads = [t \in Tids |-> IF t \in S THEN "stopped" ELSE "none"]
       /\ cause = [t \in Tids |-> t \in S]
  /\ event = [t \in Tids |-> "none"]
  /\ newborn = [t \in Tids |-> NoThread]
  /\ sigstop = [t \in Tids |-> FALSE]
  /\ dying = FALSE
  /\ m_state = "stopped" /\ m_current_thread_id = Main
  /\ m_pending_notification_tid = NoThread /\ handling = NoThread
  /\ events = 0 /\ resumes = 0 /\ interrupts = 0

---------------------------------------------------------------------------
(* The functions of NativeProcessLinux and NativeThreadLinux, on what they  *)
(* may change: w is that part of the state when the function is called, and *)
(* the value is what it leaves.                                             *)

Now ==
  [kernel |-> kernel, event |-> event, newborn |-> newborn, sigstop |-> sigstop,
   threads |-> m_threads, cause |-> cause, state |-> m_state, pending |-> m_pending_notification_tid,
   current |-> m_current_thread_id]

Becomes(w) ==
  /\ kernel' = w.kernel /\ event' = w.event /\ newborn' = w.newborn
  /\ sigstop' = w.sigstop
  /\ m_threads' = w.threads /\ cause' = w.cause
  /\ m_state' = w.state
  /\ m_pending_notification_tid' = w.pending
  /\ m_current_thread_id' = w.current

Runs(w, t) == w.threads[t] = "running"
PtraceStopped(w, t) == w.kernel[t] \in {"waiting", "trapped"}

(* ResumeThread with Resume or SingleStep, for every thread of S; ptrace    *)
(* fails for one that has been killed.                                      *)
ResumeThreads(w, S) ==
  [w EXCEPT !.threads = [t \in Tids |-> IF t \in S THEN "running" ELSE @[t]],
            !.cause = [t \in Tids |-> t \notin S /\ @[t]],
            !.event = [t \in Tids |-> IF t \in S THEN "none" ELSE @[t]],
            !.newborn = [t \in Tids |-> IF t \in S THEN NoThread ELSE @[t]],
            !.kernel = [t \in Tids |-> IF t \notin S \/ ~PtraceStopped(w, t) THEN @[t]
                                       ELSE IF w.event[t] = "exit" THEN "exiting" ELSE "running"],
            !.state = IF \E t \in S : PtraceStopped(w, t) THEN "running" ELSE @]

ResumeThread(w, t) == ResumeThreads(w, {t})

(* SetStoppedBySignal and the like, or SetStoppedWithNoReason.              *)
SetStopped(w, t, reason) ==
  [w EXCEPT !.threads[t] = "stopped", !.cause[t] = reason, !.event[t] = "none"]

SignalIfAllThreadsStopped(w) ==
  IF w.pending = NoThread \/ \E t \in Tids : Runs(w, t)
    THEN w
    ELSE [w EXCEPT !.current = w.pending, !.state = "stopped", !.pending = NoThread]

(* Mutant: the threads are marked as stopped before they are.               *)
StopRunningThreads_Marks(w, t) ==
  SignalIfAllThreadsStopped(
    [w EXCEPT !.pending = t,
              !.sigstop = [u \in Tids |-> @[u] \/ Runs(w, u)],
              !.threads = [u \in Tids |-> IF Runs(w, u) THEN "stopped" ELSE @[u]]])

(* RequestStop for every thread that runs.                                  *)
StopRunningThreads(w, t) ==
  SignalIfAllThreadsStopped(
    [w EXCEPT !.pending = t,
              !.sigstop = [u \in Tids |-> @[u] \/ Runs(w, u)]])

(* Mutant: a new thread is not part of a stop that is under way.            *)
ThreadWasCreated_Late(w, t) == w

ThreadWasCreated(w, t) ==
  IF w.pending # NoThread /\ Runs(w, t) THEN [w EXCEPT !.sigstop[t] = TRUE] ELSE w

(* The first thread becomes the current one.                                *)
AddThread(w, t) ==
  IF \A u \in Tids : w.threads[u] = "none" THEN [w EXCEPT !.current = t] ELSE w

TrackNewThread(w, t) == ThreadWasCreated(ResumeThread(AddThread(w, t), t), t)

(* Mutant: the thread is marked as exited instead.                          *)
StopTrackingThread_Exited(w, t) ==
  SignalIfAllThreadsStopped([w EXCEPT !.threads[t] = "exited", !.cause[t] = FALSE])

StopTrackingThread(w, t) ==
  SignalIfAllThreadsStopped([w EXCEPT !.threads[t] = "none", !.cause[t] = FALSE])

(* Mutant: the thread will report itself.                                   *)
WaitForNewThread_Skips(w, t) == w

(* A blocking waitpid, for a thread that is not tracked yet; it may have    *)
(* come and gone.                                                           *)
WaitForNewThread(w, t) ==
  IF w.threads[t] # "none" THEN w
  ELSE IF w.kernel[t] = "waiting" THEN TrackNewThread(w, t)
  ELSE [w EXCEPT !.kernel[t] = "gone"]

---------------------------------------------------------------------------
(* Packets of the client *)

Serving == handling = NoThread /\ m_state # "exited"
Tracked == {t \in Tids : m_threads[t] # "none"}

(* c and vCont, which the client sends when it knows of a stop; threads     *)
(* without an action stay as they are.                                      *)
Resume(chosen) ==
  /\ Serving /\ m_state = "stopped" /\ resumes < MaxResumes
  /\ Becomes(ResumeThreads(Now, chosen))
  /\ resumes' = resumes + 1
  /\ UNCHANGED <<kernelVars, handling, interrupts>>

(* ^C: a thread that runs, or else one that has stopped, stands for the     *)
(* cause (the first of m_threads in the code, any one here).                *)
Interrupt(t) ==
  /\ Serving /\ interrupts < MaxInterrupts
  /\ t \in Tracked
  /\ Runs(Now, t) \/ \A u \in Tids : ~Runs(Now, u)
  /\ Becomes(StopRunningThreads(Now, t))
  /\ interrupts' = interrupts + 1
  /\ UNCHANGED <<kernelVars, handling, resumes>>

---------------------------------------------------------------------------
(* Wait statuses: SigchldHandler and MonitorCallback *)

(* waitpid reports a stop.                                                  *)
SigchldHandler(t) ==
  /\ Serving /\ kernel[t] = "waiting"
  /\ kernel' = [kernel EXCEPT ![t] = "trapped"]
  /\ handling' = t
  /\ UNCHANGED <<event, newborn, sigstop, m_threads, cause, m_state, m_pending_notification_tid,
                 m_current_thread_id, kernelVars, clientVars>>

(* waitpid reports an exit; the leader's is the exit of the process.        *)
ThreadExited(t) ==
  /\ Serving /\ kernel[t] = "zombie"
  /\ LET w == StopTrackingThread([Now EXCEPT !.kernel[t] = "gone"], t)
     IN  Becomes([w EXCEPT !.state = IF t = Main THEN "exited" ELSE @])
  /\ UNCHANGED <<kernelVars, handling, clientVars>>

(* The stop of t is handled and leaves w.                                   *)
Handles(t, w) ==
  /\ handling = t /\ handling' = NoThread
  /\ Becomes(w)
  /\ UNCHANGED <<kernelVars, clientVars>>

(* PTRACE_GETSIGINFO: the thread may have been killed since waitpid.        *)
GetSignalInfo(t) == PtraceStopped(Now, t)

MonitorVanished(t) ==
  /\ ~GetSignalInfo(t)
  /\ Handles(t, IF t \notin Tracked THEN Now
                ELSE LET w == StopTrackingThread(Now, t)
                     IN  [w EXCEPT !.state = IF t = Main THEN "exited" ELSE @])

MonitorUnknown(t) ==
  /\ GetSignalInfo(t) /\ t \notin Tracked
  /\ Handles(t, TrackNewThread(Now, t))

Monitors(t, e) == GetSignalInfo(t) /\ t \in Tracked /\ event[t] = e

MonitorClone(t) ==
  /\ Monitors(t, "clone")
  /\ kernel[newborn[t]] \in {"waiting", "zombie", "gone"} \/ newborn[t] \in Tracked
  /\ Handles(t, ResumeThread(WaitForNewThread(Now, newborn[t]), t))

(* Mutant: a thread that is marked as stopped is left alone.                *)
MonitorExit_Stays(t) ==
  /\ Monitors(t, "exit")
  /\ Handles(t, IF Runs(Now, t) THEN ResumeThread(Now, t) ELSE Now)

(* PTRACE_EVENT_EXIT, which may also come after SIGKILL.                    *)
MonitorExit(t) ==
  /\ Monitors(t, "exit")
  /\ Handles(t, ResumeThread(Now, t))

(* MonitorTrace, MonitorBreakpoint, MonitorWatchpoint, and MonitorSignal    *)
(* for a signal that the client wants to hear of.                           *)
MonitorTrap(t) ==
  /\ Monitors(t, "trap")
  /\ Handles(t, StopRunningThreads(SetStopped(Now, t, TRUE), t))

(* A group stop, an unknown SIGTRAP or a signal in m_signals_to_ignore.     *)
MonitorIgnored(t) ==
  /\ Monitors(t, "ignored")
  /\ Handles(t, ResumeThread(Now, t))

(* Mutant: an old SIGSTOP stops the thread.                                 *)
MonitorSIGSTOP_Old(t) ==
  /\ Monitors(t, "sigstop")
  /\ Handles(t, SignalIfAllThreadsStopped(
       [SetStopped(Now, t, m_pending_notification_tid = t) EXCEPT !.current = t]))

(* The SIGSTOP of lldb-server: part of the stop that is under way, or left  *)
(* over from an earlier one.                                                *)
MonitorSIGSTOP(t) ==
  /\ Monitors(t, "sigstop")
  /\ Handles(t,
       IF ~Runs(Now, t) THEN SignalIfAllThreadsStopped(Now)
       ELSE IF m_pending_notification_tid # NoThread
         THEN SignalIfAllThreadsStopped(
                [SetStopped(Now, t, m_pending_notification_tid = t) EXCEPT !.current = t])
       ELSE ResumeThread(Now, t))

MonitorCallback(t) ==
  \/ MonitorVanished(t) \/ MonitorUnknown(t) \/ MonitorClone(t) \/ MonitorExit(t)
  \/ MonitorTrap(t) \/ MonitorIgnored(t) \/ MonitorSIGSTOP(t)

---------------------------------------------------------------------------
(* The kernel and the inferior *)

Reports(t, e) ==
  /\ kernel[t] = "running"
  /\ event' = [event EXCEPT ![t] = e]

(* A thread stops for a reason of its own.                                  *)
ThreadReports(t, e) ==
  /\ e \in Causes \ {"clone"} /\ events < MaxEvents
  /\ e = "exit" => /\ t # Main \/ LeaderExits
                   /\ m_threads[Main] = "running" \/ LastRunnerExits
  /\ Reports(t, e)
  /\ kernel' = [kernel EXCEPT ![t] = "waiting"]
  /\ events' = events + 1
  /\ UNCHANGED <<newborn, dying, sigstop, m_threads, cause, m_state,
                 m_pending_notification_tid, m_current_thread_id, handling, clientVars>>

(* Both the parent and the child stop, and either may be reported first.    *)
ThreadClones(t, child) ==
  /\ "clone" \in Causes /\ events < MaxEvents
  /\ kernel[t] = "running" /\ kernel[child] = "none"
  /\ event' = [event EXCEPT ![t] = "clone", ![child] = "new"]
  /\ kernel' = [kernel EXCEPT ![t] = "waiting", ![child] = "waiting"]
  /\ newborn' = [newborn EXCEPT ![t] = child]
  /\ events' = events + 1
  /\ UNCHANGED <<dying, sigstop, m_threads, cause, m_state, m_pending_notification_tid,
                 m_current_thread_id, handling, clientVars>>

SigstopStops(t) ==
  /\ sigstop[t]
  /\ Reports(t, "sigstop")
  /\ kernel' = [kernel EXCEPT ![t] = "waiting"]
  /\ sigstop' = [sigstop EXCEPT ![t] = FALSE]
  /\ UNCHANGED <<newborn, dying, events, m_threads, cause, m_state,
                 m_pending_notification_tid, m_current_thread_id, handling, clientVars>>

(* The leader is reaped after all the other threads.                        *)
ThreadDies(t) ==
  /\ kernel[t] = "exiting"
  /\ t = Main => \A u \in Tids \ {Main} : kernel[u] \in {"none", "gone"}
  /\ kernel' = [kernel EXCEPT ![t] = "zombie"]
  /\ UNCHANGED <<event, newborn, sigstop, m_threads, cause, m_state, m_pending_notification_tid,
                 m_current_thread_id, kernelVars, handling, clientVars>>

(* SIGKILL or exit_group, whatever the threads are doing; some of them stop *)
(* once more, for PTRACE_EVENT_EXIT.                                        *)
ProcessDies(stopping) ==
  /\ ~dying /\ dying' = TRUE
  /\ LET live == {t \in Tids : kernel[t] \in {"running", "waiting", "trapped"}}
     IN  /\ stopping \subseteq live
         /\ kernel' = [t \in Tids |-> IF t \in stopping THEN "waiting"
                                      ELSE IF t \in live THEN "exiting" ELSE kernel[t]]
         /\ event' = [t \in Tids |-> IF t \in stopping THEN "exit" ELSE "none"]
         /\ newborn' = [t \in Tids |-> NoThread]
         /\ sigstop' = [t \in Tids |-> FALSE]
  /\ UNCHANGED <<events, m_threads, cause, m_state,
                 m_pending_notification_tid, m_current_thread_id, handling, clientVars>>

---------------------------------------------------------------------------
Server == \E t \in Tids : SigchldHandler(t) \/ ThreadExited(t) \/ MonitorCallback(t)

Next ==
  \/ \E chosen \in (SUBSET Tracked) \ {{}} : Resume(chosen)
  \/ \E t \in Tids : Interrupt(t)
  \/ Server
  \/ \E t \in Tids : \/ \E e \in Causes : ThreadReports(t, e)
                     \/ \E child \in Tids : ThreadClones(t, child)
                     \/ SigstopStops(t) \/ ThreadDies(t)
  \/ \E stopping \in SUBSET Tids : ProcessDies(stopping)

(* lldb-server is scheduled, and the kernel delivers SIGSTOP and buries the *)
(* dead.  The client and the inferior do what they like.                    *)
Fairness ==
  /\ WF_vars(Server)
  /\ \A t \in Tids : WF_vars(SigstopStops(t)) /\ WF_vars(ThreadDies(t))

Spec == Init /\ [][Next]_vars /\ Fairness

---------------------------------------------------------------------------
(* Properties *)

(* What lldb-server believes of a thread is true: it is marked as stopped   *)
(* exactly if it is in a stop that has been handled.  ResumeThread and the  *)
(* SIGSTOP branch of MonitorSignal (lines 817-824, 1964-1966) rely on it.   *)
StatesAgree ==
  ~dying => \A t \in Tracked :
              m_threads[t] = "stopped" <=> kernel[t] = "trapped" /\ handling # t

(* The client is told of a stop when no thread of the inferior runs any     *)
(* more, whether lldb-server has heard of the thread or not                 *)
(* (StopRunningThreads, SignalIfAllThreadsStopped, WaitForNewThread).       *)
StopsAreComplete ==
  m_state = "stopped" /\ ~dying =>
    \A t \in Tids : kernel[t] \in {"none", "trapped", "gone"}

(* The thread that the stop is reported for has a reason of its own, and is *)
(* not one that was only stopped for the others, unless it has exited       *)
(* meanwhile (SignalIfAllThreadsStopped, MonitorSignal lines 833-838).  It  *)
(* needs LastRunnerExits to be false.                                       *)
StopNamesCause ==
  [][m_state = "running" /\ m_state' = "stopped" /\ ~dying =>
       m_threads'[m_current_thread_id'] = "none" \/ cause'[m_current_thread_id']]_vars

(* A stop that has begun comes to its end, whatever threads are created,    *)
(* trap and exit in between (StopTrackingThread, ThreadWasCreated).  Only   *)
(* the leader may not be the first to exit: with LeaderExits it becomes a   *)
(* zombie that is marked as running, and the stop waits for it for ever.    *)
StopCompletes ==
  m_pending_notification_tid # NoThread ~>
    m_pending_notification_tid = NoThread \/ m_state = "exited"

(* The exit is reported, whatever lldb-server was doing when the process    *)
(* was killed (MonitorCallback, and MonitorSIGTRAP lines 651-661).          *)
ExitReported == dying ~> m_state = "exited"
=============================================================================
