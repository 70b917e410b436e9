------------------------------ MODULE Process ------------------------------
(***************************************************************************)
(* How Process (source/Target/Process.cpp) runs and stops the inferior.    *)
(*                                                                         *)
(* The plugin changes m_private_state and tells the private state thread,  *)
(* which decides what the public hears.  Whoever removes a public event    *)
(* from a queue, the debugger's event handler or a hijacking API call,     *)
(* makes it the public state and runs the stop's actions (DoOnRemoval).    *)
(* m_public_run_lock keeps clients away from an inferior that runs.        *)
(*                                                                         *)
(* Threads: "api", the calls that hold the target's API mutex; "handler",  *)
(* the debugger's event handler; "pst", the private state thread; the      *)
(* plugin's AsyncThread with the inferior; a client that looks at the      *)
(* stopped process; and async interrupts.                                  *)
(*                                                                         *)
(* Running and Stepping are one state here, and so are Stopped, Crashed    *)
(* and Suspended; Detach, launching and attaching are left out.            *)
(*                                                                         *)
(* The code does not keep all that it promises.  void, a history variable  *)
(* that no guard reads, notes the promises that one of the steps listed    *)
(* under Lapses has broken; the properties speak of the others.            *)
(***************************************************************************)
EXTENDS Integers, Sequences

CONSTANTS
  Calls,          \* the calls clients make
  Continues,      \* how a stop may go on by itself: "silent" and "reported"
                  \* in ShouldBroadcastEvent, "action" in DoOnRemoval
  ResumeFaults,   \* what may go wrong in the PrivateResume of an API call
  ContinueFaults, \* and in the PrivateResume that continues a stop
  HaltMayFail,    \* writing the interrupt may fail
  MaxCalls, MaxStops, MaxLooks  \* bounds: calls, unrequested stops, looks

ASSUME ProcessAssumption ==
  /\ Calls \subseteq {"Resume", "ResumeSynchronous", "Halt", "Destroy", "Interrupt",
                      "Exit"}
  /\ Continues \subseteq {"silent", "reported", "action"}
  /\ ResumeFaults \subseteq {"error", "timeout", "fake"}
  /\ ContinueFaults \subseteq {"error", "timeout", "fake"}
  /\ HaltMayFail \in BOOLEAN
  /\ MaxCalls \in Nat /\ MaxStops \in Nat /\ MaxLooks \in Nat

VARIABLES
  m_private_state, m_public_state, m_last_broadcast_state,
  m_running,           \* of m_public_run_lock
  looker,              \* the client: idle, locked (the read end), inside (and the API mutex)
  private_queue,       \* of the private state thread's listener
  public_queue,        \* of the debugger's listener
  hijack,              \* the API call that hijacks the public events, or "none"
  hijack_queue,
  thread,              \* what each thread is at, and the event it handles
  call,                \* the API call that is under way, or "none"
  interrupt_requested, \* local to RunPrivateStateThread
  async,               \* AsyncThread: idle, lock (announced the run, waits for the
                       \* ContinueLock), running, stopped (has the stop reply), dead
  continues,           \* requests of DoResume that it has not come to
  connected,           \* m_gdb_comm is connected
  halting,             \* the inferior has been told to stop
  joined,              \* m_private_state_thread has been reset
  calls, stops, looks, \* counters for the bounds
  void                 \* promises that do not hold any more

inferiorVars == <<async, continues, connected, halting, stops>>
privateVars == <<m_private_state, private_queue>>
publicVars == <<m_public_state, m_running, public_queue, hijack_queue>>
pstVars == <<m_last_broadcast_state, interrupt_requested>>
clientVars == <<looker, looks, void>>
callVars == <<call, hijack, joined, calls>>
vars == <<inferiorVars, privateVars, publicVars, pstVars, clientVars, callVars, thread>>

States == {"stopped", "running", "exited"}
Event == [state : States \union {"interrupt"},
          restarted : BOOLEAN, interrupted : BOOLEAN,
          again : BOOLEAN]  \* history: Halt has broadcast it a second time
NewEvent(s) ==
  [state |-> s, restarted |-> FALSE, interrupted |-> FALSE, again |-> FALSE]
NoEvent ==
  [state |-> "none", restarted |-> FALSE, interrupted |-> FALSE, again |-> FALSE]

Threads == {"api", "handler", "pst"}
Pcs ==
  [api |-> {"idle", "hijack", "resume", "undo", "interrupt", "enter", "wait", "unlock",
            "act", "released", "restore", "again", "kill", "stopasync", "join", "forward",
            "finish"},
   handler |-> {"idle", "unlock", "act"},
   pst |-> {"idle", "broadcast", "exiting", "dead"}]

TypeOK ==
  /\ {m_private_state, m_public_state, m_last_broadcast_state} \subseteq States
  /\ m_running \in BOOLEAN
  /\ looker \in {"idle", "locked", "inside"}
  /\ private_queue \in Seq(Event)
  /\ public_queue \in Seq(Event)
  /\ hijack_queue \in Seq(Event)
  /\ {hijack, call} \subseteq (Calls \union {"none"})
  /\ DOMAIN thread = Threads
  /\ \A t \in Threads : thread[t] \in [pc : Pcs[t], event : Event \union {NoEvent}]
  /\ async \in {"idle", "lock", "running", "stopped", "dead"}
  /\ continues \in Nat /\ connected \in BOOLEAN
  /\ interrupt_requested \in BOOLEAN /\ halting \in BOOLEAN /\ joined \in BOOLEAN
  /\ void \subseteq {"run lock", "interrupt"}
  /\ calls \in 0 .. MaxCalls /\ stops \in 0 .. MaxStops /\ looks \in 0 .. MaxLooks

(* The end of Launch: the process has stopped at its entry, as was asked,   *)
(* and the stop has been reported.                                          *)
Init ==
  /\ m_private_state = "stopped" /\ m_public_state = "stopped"
  /\ m_last_broadcast_state = "stopped"
  /\ m_running = FALSE /\ looker = "idle"
  /\ private_queue = <<>> /\ public_queue = <<>> /\ hijack_queue = <<>>
  /\ hijack = "none" /\ call = "none"
  /\ thread = [t \in Threads |-> [pc |-> "idle", event |-> NoEvent]]
  /\ async = "idle" /\ continues = 0 /\ connected = TRUE
  /\ interrupt_requested = FALSE /\ halting = FALSE /\ joined = FALSE
  /\ calls = 0 /\ stops = 0 /\ looks = 0 /\ void = {}

At(t, pc) == thread[t].pc = pc
Goto(t, pc) == thread' = [thread EXCEPT ![t].pc = pc]
GotoWith(t, pc, e) == thread' = [thread EXCEPT ![t] = [pc |-> pc, event |-> e]]
Held(t) == thread[t].event

PrivateStateThreadIsValid == m_private_state # "exited" /\ ~joined

(* StateIsStoppedState with must_exist false.                               *)
StateIsStoppedState(s) == s \in {"stopped", "exited"}

(* BroadcastEvent: a hijacker gets what the public listener does not.       *)
BroadcastEvent(e) ==
  IF hijack = "none"
    THEN public_queue' = Append(public_queue, e) /\ UNCHANGED hijack_queue
    ELSE hijack_queue' = Append(hijack_queue, e) /\ UNCHANGED public_queue

(* SetPrivateState asks only whether the state is a new one.                *)
SetPrivateState(s) ==
  /\ m_private_state' = s
  /\ private_queue' = IF m_private_state = s THEN private_queue
                      ELSE Append(private_queue, NewEvent(s))

(* The first caller sets the status; DidExit disconnects.                   *)
SetExitStatus == SetPrivateState("exited") /\ connected' = FALSE /\ halting' = FALSE

(* DoResume hands the run to AsyncThread, which announces it, sends the     *)
(* packet and tells.  "timeout": it has not told within 5 s, and comes to   *)
(* the request later; so it does when it is busy with an earlier one, or    *)
(* the connection is gone.  "error": the request is not even made, or       *)
(* nobody is left to take it.  "fake": no thread has to run, so a start and *)
(* a stop are pretended.                                                    *)
ResumeOutcomes(faults) ==
  {IF async = "dead" THEN "error"
   ELSE IF m_private_state = "stopped" /\ async = "idle" /\ connected THEN "ok"
   ELSE "timeout"}
  \union (faults \ ((IF async = "dead" THEN {"timeout"} ELSE {}) \union
                    (IF m_private_state = "stopped" /\ stops < MaxStops THEN {} ELSE {"fake"})))

(* The caller of PrivateResume has left queue of the private events.        *)
PrivateResume(outcome, queue) ==
  /\ m_private_state' = IF outcome = "ok" THEN "running" ELSE m_private_state
  /\ async' = IF outcome = "ok" THEN "running" ELSE async
  /\ continues' = IF outcome = "timeout" THEN continues + 1 ELSE continues
  /\ private_queue' =
       queue \o (CASE outcome = "ok" -> <<NewEvent("running")>>
                   [] outcome = "fake" -> <<NewEvent("running"), NewEvent("stopped")>>
                   [] OTHER -> <<>>)
  /\ stops' = IF outcome = "fake" THEN stops + 1 ELSE stops
  /\ UNCHANGED <<connected, halting>>

(* ProcessRunLock: SetStopped waits for the readers.                        *)
SetStopped == looker = "idle" /\ m_running' = FALSE

SendAsyncInterrupt ==
  IF PrivateStateThreadIsValid
    THEN /\ private_queue' = Append(private_queue, NewEvent("interrupt"))
         /\ UNCHANGED <<public_queue, hijack_queue>>
    ELSE BroadcastEvent(NewEvent("interrupt")) /\ UNCHANGED private_queue

---------------------------------------------------------------------------
(* Lapses: the steps after which a promise is void *)

VoidIf(lapse, promises) == void' = IF lapse THEN void \union promises ELSE void

Final(e) == e.state = "stopped" /\ ~e.restarted

(* Resume and ResumeSynchronous release the lock because DoResume timed     *)
(* out, but AsyncThread still has the request to run; or the private state  *)
(* thread, which has ended, never hears of the stop that was pretended.     *)
LateResume(outcome) ==
  outcome = "timeout" \/ (outcome = "fake" /\ At("pst", "dead"))

(* AsyncThread takes a request after the exit and announces a run.          *)
RunsUnconnected == ~connected

(* A call hijacks the events while the handler has a stop to remove: one    *)
(* that Halt has broadcast again (SetPublicState then takes it for the end  *)
(* of a later run), or any if the call is Halt (SetPublicState then keeps   *)
(* the lock, or hears of the events in the wrong order).                    *)
HijacksOverStop ==
  \E i \in 1 .. Len(public_queue) :
    public_queue[i].state = "stopped" /\ (public_queue[i].again \/ call = "Halt")

(* Halt has given up, and the start or the stop that came late goes with    *)
(* its queue.                                                               *)
DropsEvent ==
  /\ call = "Halt"
  /\ \E i \in 1 .. Len(hijack_queue) :
       hijack_queue[i].state = "running" \/ Final(hijack_queue[i])

(* Halt broadcasts its stop again before the handler has come to the start  *)
(* of the run that the stop ended.                                          *)
OvertakesRunning ==
  /\ Held("api").state = "stopped"
  /\ \/ m_public_state = "running"
     \/ \E i \in 1 .. Len(public_queue) : public_queue[i].state = "running"

(* The actions of a stop that has released the lock make the inferior run,  *)
(* or fail to.                                                              *)
ActionResumes(t, outcome) ==
  t = "handler" \/ call = "ResumeSynchronous" \/ ~m_running \/ outcome = "error"

(* The stop was not reported, and yet nobody continues the process.         *)
ContinueFails(outcome) == outcome = "error" /\ m_private_state = "stopped"

(* The interrupt was accepted but not passed on: the packet that runs the   *)
(* inferior has not been sent, or writing the interrupt failed.             *)
HaltFails == ~halting' /\ (async \in {"lock", "running"} \/ continues > 0)

---------------------------------------------------------------------------
(* The inferior and its plugin: AsyncThread *)

(* A request to run that DoResume did not wait for.                         *)
AsyncThreadContinues ==
  /\ async = "idle" /\ continues > 0
  /\ continues' = continues - 1 /\ async' = "lock"
  /\ SetPrivateState("running")
  /\ VoidIf(RunsUnconnected, {"run lock"})
  /\ UNCHANGED <<connected, halting, stops, publicVars, pstVars, looker, looks, callVars,
                 thread>>

(* ContinueLock::lock: no thread uses the connection, the packet is sent.   *)
ContinueLockSuccess ==
  /\ async = "lock" /\ connected
  /\ async' = "running"
  /\ UNCHANGED <<continues, connected, halting, stops, privateVars, publicVars, pstVars,
                 clientVars, callVars, thread>>

(* It stops by itself, or because it has been told to: the continue call    *)
(* returns...                                                               *)
InferiorStops ==
  /\ async = "running" /\ connected
  /\ \/ halting /\ UNCHANGED stops
     \/ ~halting /\ stops < MaxStops /\ stops' = stops + 1
  /\ halting' = FALSE
  /\ async' = "stopped"
  /\ UNCHANGED <<continues, connected, privateVars, publicVars, pstVars, clientVars,
                 callVars, thread>>

(* ...and AsyncThread announces the stop, even if the process has exited    *)
(* since.                                                                   *)
AsyncThreadStops ==
  /\ async = "stopped"
  /\ async' = "idle"
  /\ SetPrivateState("stopped")
  /\ UNCHANGED <<continues, connected, halting, stops, publicVars, pstVars, clientVars,
                 callVars, thread>>

(* The continue call returns with the exit, and AsyncThread ends...         *)
InferiorExits ==
  /\ "Exit" \in Calls
  /\ async = "running" /\ connected
  /\ async' = "dead"
  /\ SetExitStatus
  /\ UNCHANGED <<continues, stops, publicVars, pstVars, clientVars, callVars, thread>>

(* ...or with a lost connection.                                            *)
AsyncThreadFails ==
  /\ async \in {"lock", "running"} /\ ~connected
  /\ async' = "idle"
  /\ SetExitStatus
  /\ UNCHANGED <<continues, stops, publicVars, pstVars, clientVars, callVars, thread>>

(* MonitorDebugserverProcess, on a thread of its own.                       *)
DebugserverDies ==
  /\ "Exit" \in Calls
  /\ m_public_state # "exited" /\ m_private_state # "exited"
  /\ SetExitStatus
  /\ UNCHANGED <<async, continues, stops, publicVars, pstVars, clientVars, callVars, thread>>

---------------------------------------------------------------------------
(* A client that looks at the stopped process (SBProcess::ReadMemory and    *)
(* the like): the read end of the run lock, then the API mutex.             *)

ReadTryLock ==
  /\ looker = "idle" /\ ~m_running /\ looks < MaxLooks
  /\ looker' = "locked" /\ looks' = looks + 1
  /\ UNCHANGED <<void, inferiorVars, privateVars, publicVars, pstVars, callVars, thread>>

LockAPIMutex ==
  /\ looker = "locked" /\ call = "none"
  /\ looker' = "inside"
  /\ UNCHANGED <<looks, void, inferiorVars, privateVars, publicVars, pstVars, callVars, thread>>

ReadUnlock ==
  /\ looker = "inside"
  /\ looker' = "idle"
  /\ UNCHANGED <<looks, void, inferiorVars, privateVars, publicVars, pstVars, callVars, thread>>

---------------------------------------------------------------------------
(* Removing a public event from a queue: ProcessEventData::DoOnRemoval *)

StateChangedIsExternallyHijacked == hijack \in {"Halt", "Destroy"}

(* Mutant: a stop that was restarted releases the lock too.                 *)
Unlocks_IgnoresRestart(e) ==
  /\ ~StateChangedIsExternallyHijacked
  /\ ~StateIsStoppedState(m_public_state) /\ StateIsStoppedState(e.state)

(* SetPublicState releases the run lock when the state becomes a stopped    *)
(* one and the process has not been restarted.                              *)
Unlocks(e) ==
  /\ ~StateChangedIsExternallyHijacked
  /\ ~StateIsStoppedState(m_public_state) /\ StateIsStoppedState(e.state)
  /\ ~e.restarted

(* SetPublicState, up to the release of the run lock.  An interrupt that    *)
(* was broadcast in public carries no state.                                *)
SetPublicState(t, e) ==
  IF e.state = "interrupt"
    THEN /\ IF t = "api" THEN GotoWith(t, "restore", NoEvent) ELSE UNCHANGED thread
         /\ UNCHANGED m_public_state
    ELSE /\ m_public_state' = e.state
         /\ GotoWith(t, IF Unlocks(e) THEN "unlock" ELSE "act", e)

HandlerRemoves ==
  /\ At("handler", "idle") /\ public_queue # <<>>
  /\ public_queue' = Tail(public_queue)
  /\ SetPublicState("handler", Head(public_queue))
  /\ UNCHANGED <<m_running, hijack_queue, inferiorVars, privateVars, pstVars, clientVars,
                 callVars>>

CallRemoves ==
  /\ At("api", "wait") /\ hijack_queue # <<>>
  /\ hijack_queue' = Tail(hijack_queue)
  /\ SetPublicState("api", Head(hijack_queue))
  /\ UNCHANGED <<m_running, public_queue, inferiorVars, privateVars, pstVars, clientVars,
                 callVars>>

SetPublicStateUnlocks(t) ==
  /\ At(t, "unlock")
  /\ SetStopped
  /\ Goto(t, "act")
  /\ UNCHANGED <<m_public_state, public_queue, hijack_queue, inferiorVars, privateVars,
                 pstVars, clientVars, callVars>>

(* Mutant: the event handler waits for a stop as the calls do.              *)
AfterRemoval_Waits(t, e) ==
  GotoWith(t, IF e.state = "running" \/ e.restarted THEN "wait" ELSE "idle", e)

(* Where the thread goes with the event: WaitForProcessToStop keeps waiting *)
(* through running states and stops that were restarted.                    *)
AfterRemoval(t, e) ==
  IF t = "handler" THEN GotoWith(t, "idle", NoEvent)
  ELSE GotoWith(t, IF e.state = "running" \/ e.restarted THEN "wait" ELSE "released", e)

(* The stop infos' actions and the stop hooks, which may continue.  Not for *)
(* a stop that was asked for.                                               *)
PerformActions(t) ==
  /\ At(t, "act")
  /\ LET e == Held(t)
     IN  \/ /\ AfterRemoval(t, e)
            /\ UNCHANGED <<privateVars, inferiorVars, void>>
         \/ /\ "action" \in Continues
            /\ e.state = "stopped" /\ ~e.restarted /\ ~e.interrupted
            /\ \E outcome \in ResumeOutcomes(ContinueFaults) :
                 /\ PrivateResume(outcome, private_queue)
                 /\ VoidIf(ActionResumes(t, outcome), {"run lock"})
            /\ AfterRemoval(t, [e EXCEPT !.restarted = TRUE])
  /\ UNCHANGED <<publicVars, pstVars, looker, looks, callVars>>

---------------------------------------------------------------------------
(* API calls *)

(* The call gets the API mutex.                                             *)
Enter(c) ==
  /\ c \in Calls /\ call = "none" /\ looker # "inside" /\ calls < MaxCalls
  /\ call' = c /\ calls' = calls + 1

Return == call' = "none" /\ UNCHANGED <<hijack, joined, calls>>

(* Resume and ResumeSynchronous: TrySetRunning fails if a client looks.     *)
Resume(c) ==
  /\ c \in {"Resume", "ResumeSynchronous"}
  /\ Enter(c)
  /\ ~m_running /\ looker = "idle" /\ m_running' = TRUE
  /\ Goto("api", IF c = "Resume" THEN "resume" ELSE "hijack")
  /\ UNCHANGED <<hijack, joined, m_public_state, public_queue, hijack_queue, inferiorVars,
                 privateVars, pstVars, clientVars>>

Halt ==
  /\ Enter("Halt")
  /\ m_public_state = "running"
  /\ Goto("api", "hijack")
  /\ UNCHANGED <<hijack, joined, publicVars, inferiorVars, privateVars, pstVars,
                 clientVars>>

(* Destroy, which first stops a process that runs (StopForDestroyOrDetach). *)
Destroy ==
  /\ Enter("Destroy")
  /\ ~joined
  /\ Goto("api", IF "running" \in {m_public_state, m_private_state} THEN "hijack"
                 ELSE "kill")
  /\ UNCHANGED <<hijack, joined, publicVars, inferiorVars, privateVars, pstVars,
                 clientVars>>

HijackProcessEvents ==
  /\ At("api", "hijack")
  /\ hijack' = call
  /\ Goto("api", IF call = "ResumeSynchronous" THEN "resume" ELSE "interrupt")
  /\ VoidIf(HijacksOverStop, {"run lock"})
  /\ UNCHANGED <<call, joined, calls, publicVars, inferiorVars, privateVars, pstVars,
                 looker, looks>>

CallResumes ==
  /\ At("api", "resume")
  /\ \E outcome \in ResumeOutcomes(ResumeFaults) :
       /\ PrivateResume(outcome, private_queue)
       /\ VoidIf(LateResume(outcome), {"run lock"})
       /\ CASE outcome \in {"error", "timeout"} -> Goto("api", "undo") /\ UNCHANGED callVars
            [] outcome \in {"ok", "fake"} /\ call = "Resume" -> Goto("api", "idle") /\ Return
            [] OTHER -> Goto("api", "enter") /\ UNCHANGED callVars
  /\ UNCHANGED <<publicVars, pstVars, looker, looks>>

(* Mutant: a resume that failed does not undo the running state change.     *)
CallUndoes_KeepsLock ==
  /\ At("api", "undo")
  /\ IF call = "Resume" THEN Goto("api", "idle") /\ Return
                        ELSE Goto("api", "restore") /\ UNCHANGED callVars
  /\ UNCHANGED <<publicVars, inferiorVars, privateVars, pstVars, clientVars>>

(* The resume failed: "undo running state change".                          *)
CallUndoes ==
  /\ At("api", "undo")
  /\ SetStopped
  /\ IF call = "Resume" THEN Goto("api", "idle") /\ Return
                        ELSE Goto("api", "restore") /\ UNCHANGED callVars
  /\ UNCHANGED <<m_public_state, public_queue, hijack_queue, inferiorVars, privateVars,
                 pstVars, clientVars>>

CallInterrupts ==
  /\ At("api", "interrupt")
  /\ SendAsyncInterrupt
  /\ Goto("api", "enter")
  /\ UNCHANGED <<m_public_state, m_running, m_private_state, inferiorVars, pstVars,
                 clientVars, callVars>>

(* WaitForProcessToStop: no event follows an exit that is public already.   *)
CallEntersWait ==
  /\ At("api", "enter")
  /\ Goto("api", IF m_public_state = "exited" THEN "restore" ELSE "wait")
  /\ UNCHANGED <<publicVars, inferiorVars, privateVars, pstVars, clientVars, callVars>>

(* Mutant: StopForDestroyOrDetach waits without a timeout.                  *)
CallTimesOut_HaltOnly ==
  /\ At("api", "wait") /\ hijack_queue = <<>>
  /\ call = "Halt"
  /\ GotoWith("api", "restore", NoEvent)
  /\ UNCHANGED <<publicVars, inferiorVars, privateVars, pstVars, clientVars, callVars>>

(* Halt and StopForDestroyOrDetach wait for 10 s.                           *)
CallTimesOut ==
  /\ At("api", "wait") /\ hijack_queue = <<>>
  /\ call \in {"Halt", "Destroy"}
  /\ GotoWith("api", "restore", IF call = "Halt" THEN NoEvent ELSE Held("api"))
  /\ UNCHANGED <<publicVars, inferiorVars, privateVars, pstVars, clientVars, callVars>>

WaitReleasesLock ==
  /\ At("api", "released")
  /\ SetStopped
  /\ Goto("api", "restore")
  /\ UNCHANGED <<m_public_state, public_queue, hijack_queue, inferiorVars, privateVars,
                 pstVars, clientVars, callVars>>

(* RestoreProcessEvents: what the hijacking listener still has is lost with *)
(* it.  StopForDestroyOrDetach keeps its event if the process has exited.   *)
CallRestores ==
  /\ At("api", "restore")
  /\ hijack' = "none" /\ hijack_queue' = <<>>
  /\ CASE call = "Halt" /\ Held("api") # NoEvent ->
            Goto("api", "again") /\ UNCHANGED call
       [] call = "Destroy" ->
            /\ GotoWith("api", "kill", IF m_private_state = "exited" THEN Held("api")
                                       ELSE NoEvent)
            /\ UNCHANGED call
       [] OTHER -> GotoWith("api", "idle", NoEvent) /\ call' = "none"
  /\ VoidIf(DropsEvent, {"run lock"})
  /\ UNCHANGED <<joined, calls, m_public_state, m_running, public_queue, inferiorVars,
                 privateVars, pstVars, looker, looks>>

(* Halt passes the event it took on to the public listener.                 *)
HaltBroadcasts ==
  /\ At("api", "again")
  /\ BroadcastEvent([Held("api") EXCEPT !.again = TRUE])
  /\ GotoWith("api", "idle", NoEvent) /\ Return
  /\ VoidIf(OvertakesRunning, {"run lock"})
  /\ UNCHANGED <<m_public_state, m_running, inferiorVars, privateVars, pstVars, looker,
                 looks>>

(* DoDestroy sends the kill packet, and sets the exit status if nobody      *)
(* has.  The private state thread finds the exit in its queue before the    *)
(* control event that StopPrivateStateThread sends, and ends with it.       *)
DoDestroy ==
  /\ At("api", "kill")
  /\ SetExitStatus
  /\ Goto("api", "stopasync")
  /\ UNCHANGED <<async, continues, stops, publicVars, pstVars, clientVars, callVars>>

(* StopAsyncThread waits until AsyncThread finds the event that tells it to *)
(* exit; requests behind it are lost.                                       *)
StopAsyncThread ==
  /\ At("api", "stopasync") /\ async \in {"idle", "dead"}
  /\ async' = "dead" /\ continues' = 0
  /\ Goto("api", "join")
  /\ UNCHANGED <<connected, halting, stops, privateVars, publicVars, pstVars, clientVars,
                 callVars>>

DestroyJoins ==
  /\ At("api", "join") /\ At("pst", "dead")
  /\ joined' = TRUE
  /\ Goto("api", "forward")
  /\ UNCHANGED <<call, hijack, calls, publicVars, inferiorVars, privateVars, pstVars,
                 clientVars>>

DestroyForwards ==
  /\ At("api", "forward")
  /\ IF Held("api") = NoEvent THEN UNCHANGED <<public_queue, hijack_queue>>
                              ELSE BroadcastEvent(Held("api"))
  /\ GotoWith("api", "finish", NoEvent)
  /\ UNCHANGED <<m_public_state, m_running, inferiorVars, privateVars, pstVars,
                 clientVars, callVars>>

DestroyReturns ==
  /\ At("api", "finish")
  /\ SetStopped
  /\ Goto("api", "idle") /\ Return
  /\ UNCHANGED <<m_public_state, public_queue, hijack_queue, inferiorVars, privateVars,
                 pstVars, clientVars>>

(* SBProcess::SendAsyncInterrupt, which does not take the API mutex; ^C in  *)
(* the process' I/O handler is the same when the public state is running.   *)
AsyncInterrupt ==
  /\ "Interrupt" \in Calls /\ calls < MaxCalls /\ calls' = calls + 1
  /\ SendAsyncInterrupt
  /\ UNCHANGED <<m_public_state, m_running, m_private_state, inferiorVars, pstVars,
                 clientVars, call, hijack, joined, thread>>

---------------------------------------------------------------------------
(* The private state thread: RunPrivateStateThread *)

(* The thread takes the next event off its queue.                           *)
Takes(state) ==
  /\ At("pst", "idle") /\ private_queue # <<>> /\ Head(private_queue).state = state

(* ShouldBroadcastEvent returned true: BroadcastEvent is the next step.     *)
Broadcasts(e) ==
  /\ m_last_broadcast_state' = e.state
  /\ GotoWith("pst", "broadcast", e)

Suppresses == UNCHANGED <<m_last_broadcast_state, thread>>

(* An interrupt is for a process that the public believes to be running.    *)
TakesInterrupt ==
  /\ Takes("interrupt")
  /\ private_queue' = Tail(private_queue)
  /\ IF m_last_broadcast_state = "running"
       THEN /\ interrupt_requested' = TRUE
            /\ \/ halting' = (async = "running" /\ connected)
               \/ HaltMayFail /\ UNCHANGED halting
            /\ VoidIf(HaltFails, {"interrupt"})
       ELSE UNCHANGED <<interrupt_requested, halting, void>>
  /\ UNCHANGED <<m_last_broadcast_state, async, continues, connected, stops,
                 m_private_state, publicVars, looker, looks, callVars, thread>>

(* Mutant: any state event takes the interrupt request with it.             *)
TakesRunning_ClearsRequest ==
  /\ Takes("running")
  /\ private_queue' = Tail(private_queue)
  /\ interrupt_requested' = FALSE
  /\ IF m_last_broadcast_state = "running" THEN Suppresses
                                           ELSE Broadcasts(Head(private_queue))
  /\ UNCHANGED <<m_private_state, publicVars, inferiorVars, clientVars, callVars>>

(* Running after running is not reported again.                             *)
TakesRunning ==
  /\ Takes("running")
  /\ private_queue' = Tail(private_queue)
  /\ IF m_last_broadcast_state = "running" THEN Suppresses
                                           ELSE Broadcasts(Head(private_queue))
  /\ UNCHANGED <<m_private_state, interrupt_requested, publicVars, inferiorVars,
                 clientVars, callVars>>

(* A stop that answers an interrupt is reported and stays.                  *)
TakesInterruptedStop ==
  /\ Takes("stopped") /\ interrupt_requested
  /\ private_queue' = Tail(private_queue)
  /\ Broadcasts([Head(private_queue) EXCEPT !.interrupted = TRUE])
  /\ interrupt_requested' = FALSE
  /\ UNCHANGED <<m_private_state, publicVars, inferiorVars, clientVars, callVars>>

(* The thread plans want to stop.                                           *)
TakesStop ==
  /\ Takes("stopped") /\ ~interrupt_requested
  /\ private_queue' = Tail(private_queue)
  /\ Broadcasts(Head(private_queue))
  /\ UNCHANGED <<m_private_state, interrupt_requested, publicVars, inferiorVars,
                 clientVars, callVars>>

(* The thread plans want to go on: the stop is reported as restarted or not *)
(* at all.  The status of PrivateResume is dropped.                         *)
TakesStopAndResumes ==
  /\ Takes("stopped") /\ ~interrupt_requested
  /\ \E outcome \in ResumeOutcomes(ContinueFaults) :
       /\ PrivateResume(outcome, Tail(private_queue))
       /\ VoidIf(ContinueFails(outcome), {"run lock", "interrupt"})
  /\ \/ "silent" \in Continues /\ Suppresses
     \/ "reported" \in Continues /\ Broadcasts([Head(private_queue) EXCEPT !.restarted = TRUE])
  /\ UNCHANGED <<interrupt_requested, publicVars, looker, looks, callVars>>

TakesExit ==
  /\ Takes("exited")
  /\ private_queue' = Tail(private_queue)
  /\ Broadcasts(Head(private_queue))
  /\ UNCHANGED <<m_private_state, interrupt_requested, publicVars, inferiorVars,
                 clientVars, callVars>>

(* Mutant: the thread goes on after the exit.                               *)
BroadcastsPublicly_GoesOn ==
  /\ At("pst", "broadcast")
  /\ BroadcastEvent(Held("pst"))
  /\ GotoWith("pst", "idle", NoEvent)
  /\ UNCHANGED <<m_public_state, m_running, inferiorVars, privateVars, pstVars,
                 clientVars, callVars>>

(* The end of HandlePrivateEvent; the thread ends with the process.         *)
BroadcastsPublicly ==
  /\ At("pst", "broadcast")
  /\ BroadcastEvent(Held("pst"))
  /\ GotoWith("pst", IF Held("pst").state = "exited" THEN "exiting" ELSE "idle", NoEvent)
  /\ UNCHANGED <<m_public_state, m_running, inferiorVars, privateVars, pstVars,
                 clientVars, callVars>>

PrivateStateThreadEnds ==
  /\ At("pst", "exiting")
  /\ SetStopped
  /\ Goto("pst", "dead")
  /\ UNCHANGED <<m_public_state, public_queue, hijack_queue, inferiorVars, privateVars,
                 pstVars, clientVars, callVars>>

---------------------------------------------------------------------------
AsyncThread ==
  AsyncThreadContinues \/ ContinueLockSuccess \/ AsyncThreadStops \/ AsyncThreadFails

CallSteps ==
  \/ HijackProcessEvents \/ CallResumes \/ CallUndoes \/ CallInterrupts
  \/ CallEntersWait \/ CallRemoves \/ SetPublicStateUnlocks("api")
  \/ PerformActions("api") \/ CallTimesOut \/ WaitReleasesLock \/ CallRestores
  \/ HaltBroadcasts \/ DoDestroy \/ StopAsyncThread \/ DestroyJoins \/ DestroyForwards
  \/ DestroyReturns

HandlerSteps ==
  HandlerRemoves \/ SetPublicStateUnlocks("handler") \/ PerformActions("handler")

RunPrivateStateThread ==
  \/ TakesInterrupt \/ TakesRunning \/ TakesInterruptedStop
  \/ TakesStop \/ TakesStopAndResumes \/ TakesExit \/ BroadcastsPublicly
  \/ PrivateStateThreadEnds

Next ==
  \/ \E c \in Calls : Resume(c)
  \/ Halt \/ Destroy \/ AsyncInterrupt
  \/ CallSteps \/ HandlerSteps \/ RunPrivateStateThread
  \/ AsyncThread \/ InferiorStops \/ InferiorExits \/ DebugserverDies
  \/ ReadTryLock \/ LockAPIMutex \/ ReadUnlock

(* The debugger's threads are scheduled; an inferior that was told to stop  *)
(* stops.  Nobody has to make a call, and the inferior may run for ever.    *)
Fairness ==
  /\ WF_vars(CallSteps) /\ WF_vars(HandlerSteps) /\ WF_vars(RunPrivateStateThread)
  /\ WF_vars(AsyncThread)
  /\ WF_vars(LockAPIMutex) /\ WF_vars(ReadUnlock)
  /\ WF_vars(halting /\ InferiorStops)

Spec == Init /\ [][Next]_vars /\ Fairness

---------------------------------------------------------------------------
(* Properties *)

(* As long as none of the lapses has occurred, Process keeps the contract   *)
(* of the run lock: only the holder of m_public_run_lock makes the inferior *)
(* run, and the lock is never released under a running inferior             *)
(* (SetPublicState, Resume, DoOnRemoval and RunPrivateStateThread between   *)
(* them).                                                                   *)
RunLock == INSTANCE StopAccess WITH
  inferior <- m_private_state, access <- ~m_running, looking <- looker # "idle",
  broken <- "run lock" \in void

KeepsRunLock == RunLock!Init /\ [][RunLock!Next]_RunLock!vars

(* Then the lock is also released once the inferior has stopped for good.   *)
ImplementsStopAccess == RunLock!Spec

(* "prevent access to its data while it is running" (ProcessRunLock.h,      *)
(* lines 29-31).                                                            *)
LookersSeeStopped == looker # "idle" => m_private_state # "running"

(* An interrupt that RunPrivateStateThread accepts (lines 4020-4037) and    *)
(* passes on is not lost among the stops that go on by themselves: the      *)
(* public hears of a stop or of the exit, unless the PrivateResume that     *)
(* continues a stop fails.                                                  *)
InterruptStops ==
  interrupt_requested ~> m_last_broadcast_state # "running" \/ "interrupt" \in void

(* The exit is reported once, whoever of the inferior, debugserver and      *)
(* Destroy comes first, even when AsyncThread announces an old stop behind  *)
(* the exit so that it is set again, and however often Halt and Destroy     *)
(* broadcast its event again (SetExitStatus, lines 1366-1371;               *)
(* RunPrivateStateThread, line 4079).                                       *)
ExitOnce ==
  LET exits(q) == {i \in 1 .. Len(q) : q[i].state = "exited"}
      reported == {<<"public", i>> : i \in exits(public_queue)}
                    \union {<<"hijack", i>> : i \in exits(hijack_queue)}
                    \union {<<"held", t>> : t \in {u \in Threads : Held(u).state = "exited"}}
  IN  \A i, j \in reported : i = j

(* The API mutex goes around: a call, or the private state thread that a    *)
(* call joins, waits in SetStopped for a client that has the read end of    *)
(* the run lock and waits for the API mutex.  Nobody gets out of this.      *)
WaitsForLooker ==
  /\ looker = "locked" /\ call # "none"
  /\ \/ thread["api"].pc \in {"undo", "unlock", "released", "finish"}
     \/ At("api", "join") /\ At("pst", "exiting")

(* Halt, Destroy and Resume return, however the plugin, the stop actions    *)
(* and the exit interfere, unless they end in WaitsForLooker;               *)
(* ResumeSynchronous waits for the inferior.                                *)
CallReturns ==
  call \in {"Halt", "Destroy", "Resume"} ~> call = "none" \/ WaitsForLooker
=============================================================================
