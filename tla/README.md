# A TLA+ verification of how LLDB runs, stops and looks at a process

LLDB is a debugger. Its hard part is not any one algorithm but the threads that
share a debugged process: a thread that resumes the inferior and waits for it,
threads that want to talk to the remote stub meanwhile, a private state thread
that turns stops into events, listeners that wait for those events, clients that
look at the stopped process, and lldb-server, which brings the threads of the
inferior to a halt one by one. This project models those mechanisms in TLA+,
checks them with TLC on small instances and proves the safety properties that
TLC checks with TLAPS for instances of any size.

## Inventory

| Component | State | Operations | Hard behaviour | What makes it correct |
|---|---|---|---|---|
| gdb-remote client (`Plugins/Process/gdb-remote/GDBRemoteClientBase`) | `m_async_count`, `m_is_running`, `m_should_stop`, `m_continue_packet`, `m_cv`, `m_async_mutex` | continue call; `Lock` and the calls made under it; `SendAsyncSignal`; `Interrupt` | ^C races the stop it asks for; one stream, many readers; notify_one; deadlines | one user of the connection, own answers, no lost wakeup, no resume under a request |
| Event system (`Core/Broadcaster`, `Core/Listener`) | listeners with masks, hijack stacks, event queues | broadcast (unique or not), start/stop listening, hijack/restore, wait, clear, destroy | broadcasts race subscriptions and each other; filtered waits on one condition variable | one order for all, no delivery after unsubscription, unique events unique, no lost wakeup |
| BroadcasterManager (`Core/Broadcaster`) | map from (class, bits) to listener, set of listeners | register, unregister, remove, check in, clear | partial removals over long sequences of calls | a bit has one owner; stopping works |
| Lock order of the event system | four kinds of mutex | all of the above | nesting in different orders | no cycle of waits |
| gdb-remote packets (`GDBRemoteCommunication`) | byte cache, packet queue, History ring | framing, acknowledgement, qEcho resynchronisation | partial and late packets | every packet delivered once, in order |
| ProcessGDBRemote async thread | its listener, last stop packet | continue, exit, interrupt | exit races destruction | one exit, no use after disconnect |
| Process state (`Target/Process`, `Host/common/ProcessRunLock`) | public and private state, run locks, private state thread, hijackers | Resume, Halt, Destroy, SetPrivateState, HandlePrivateEvent, SetPublicState, SetExitStatus | two queues of events, timeouts racing stops, stops that go on by themselves | nobody looks at a running inferior, the run lock comes back, an interrupt is not lost, one exit |
| Breakpoint sites (`Breakpoint/`) | owners, saved opcode, enabled flag | add/remove owner, enable/disable, memory read/write | a site shared by locations while the process changes memory | memory restored when the last owner goes |
| Thread plans (`Target/Thread*`, `ThreadPlan*`) | plan stack, completed and discarded stacks | push, pop, ShouldStop, discard | nested plans and restarts | base plan stays, masters are asked |
| Communication (`Core/Communication`) | byte cache, read thread, flags | read thread, synchronise, disconnect | callbacks, late data | no byte lost or doubled |
| NativeProcessLinux (lldb-server) | state of each thread, pending notification | wait statuses, stop all, resume, interrupt | traps, clones, exits, kills and old SIGSTOPs in any order | a stop is reported when all have stopped, names its cause and always comes; so does the exit |
| Memory cache (`Target/Memory`) | L1, L2, invalid ranges | read, flush, add invalid range | overlap and boundaries | never stale, never across an invalid range |
| IOHandler stack, MainLoop, TaskPool | stacks, callbacks, queue | push/pop, run, submit | callbacks that unregister | nothing run after removal |
| Symbols, DWARF, expressions, formatters, commands, SB API, tools | large data | parsing, formatting, dispatch | mostly sequential | outside these models |

How they interact: `ProcessGDBRemote::AsyncThread` calls the client's continue
call and reports its result with `SetPrivateState`, which broadcasts a private
event; the private state thread waits for it on a listener, decides, and
broadcasts the public event. Everybody else reaches the stub through the
client's `Lock`. Behind the connection lldb-server turns the wait statuses of
single threads into one stop reply. While the process is stopped clients take
the read end of the run lock and read memory, through the caches and around the
traps that breakpoints have left there.

## Plan

1. **Done.** `GDBRemoteClientBase`, `Broadcaster`, `BroadcasterManager`,
   `EventLocks`, with proofs for the first, third and fourth.
2. **Done.** `Process` and its contract `StopAccess`; `ProcessMemory` (breakpoint
   sites and memory cache); `NativeProcessLinux`.
3. **Done.** Proofs of every invariant that the passing runs check, and of the
   safety half of `ImplementsStopAccess`.
4. **Models to come**: the thread plan stack, whose answers `Process` chooses
   freely; the framing of `GDBRemoteCommunication`; `Communication`; `AllocatedMemoryCache`; then
   IOHandler, MainLoop and TaskPool.

## Modules

Each component has its module; `MC<module>` instantiates it for TLC, and
`<module>Proofs` holds its theorems. `Process` is composed with its abstract
specification `StopAccess`. The other modules meet at interfaces: the stub
of `GDBRemoteClientBase` is what `NativeProcessLinux` implements, the queues of
`Process` are what `Broadcaster` provides, and the stops of `ProcessMemory` are
those of `Process`.

### GDBRemoteClientBase

Models `GDBRemoteClientBase.{h,cpp}` in all-stop mode. Each critical section of
`m_mutex` is one step; the variables with an `m_` name are the members of the
class. `cpc` is where the continue thread is (before its lock, reading,
draining a second stop reply, deciding, notifying), `pc[t]` where an async
thread is in the constructor of `Lock`, in its call, or in `~Lock`. `m_cv` is the set `asleep`. `m_async_mutex` is
recursive in the code; no call modelled takes it twice.

| Action | Code |
|---|---|
| `SendContinuePacket`, `Read*`, `DrainExtraStopReply`, `ContinueNotify` | `SendContinuePacketAndWaitForResponse`, `ShouldStop` |
| `ContinueLock*`, `ContinueUnlock` | `ContinueLock::lock`, `unlock` |
| `Sync*`, `LockAsyncMutex` | `Lock::Lock`, `SyncWithContinueThread` |
| `SendRequest`, `ReadReply`, `ReplyFailed` | `SendPacketAndWaitForResponse`, `...WithOutputSupport`, and the outcome of `WaitForPacketNoLock` with its qEcho |
| `SendAsyncSignal`, `Interrupt` | the functions of those names |
| `ReleaseLock`, `ReleaseNotify`, `UnlockAsyncMutex` | `Lock::~Lock` |
| `DidExit` | what `AsyncThread` does when the call returned exited or invalid |

The stub, the inferior and the byte stream are the environment: two FIFO
channels that carry whole packets, a stub that runs, stops, answers or ignores
requests and exits, and a connection that may be lost at any moment.
Three constants describe stubs that exist: `EchoLateInterrupt` (a stopped stub
answers ^C with another stop reply, as the comment in `ShouldStop` describes),
`SpontaneousInt` (the inferior raises SIGINT itself), `EndlessOutput`.

A packet keeps only its kind, the thread it answers, and whether a stop
looks like an interrupt. Time is left out: a read may time out when nothing is in
the stream. `ReadTimeout` therefore does not tell an old interrupt from a
young one; in the code both end the call (line 62 by its deadline, line 74
because the failed read left the response empty).

### Broadcaster

Models `Broadcaster::BroadcasterImpl` and `Listener`. A broadcast
picks its listeners under `m_listeners_mutex` and keeps the mutex until all are
served; the look for a queued unique event and each insertion are separate steps
under the listener's `m_events_mutex`. Start and stop listening are two critical
sections, first the listener's record, then the broadcaster's. A wait is a
record that looks, sleeps and is woken; a timed wait may give up once it has
slept, even if it was notified just before. `Listener::Clear` and
`~Broadcaster` are one step each, although they visit their counterparts one by
one. Not modelled: the virtual `AddInitialEventsToListener` (empty in
`Broadcaster`), callbacks of `HandleBroadcastEvent`, `DoOnRemoval` of the event's
data (it runs after the event has left the queue and the mutex is released), and
filters by broadcaster name. The loops that skip or erase some entries of a list
(the choice of listeners, the events of a broadcaster that goes) are
one operator, `Keep`, written as a recursive function so that proofs can expand
it.

### BroadcasterManager

Each operation is one step under `m_manager_mutex`. `m_event_map` is a set of
entries whose (class, bits) is the key of the `std::map`. `RemoveListener(Listener *)` drops the result of its
`find_if` and erases the first element of `m_listeners`, an order of addresses:
the model erases any one.

### EventLocks

What each operation does to mutexes: the outer ones it takes in order, and the
chains it takes and releases while it holds them; `operation[t]` is the one that a
thread is in. All but `StopListeningForEventSpec` and `Listener::Clear`
(`Reversing`) keep to the order manager, broadcaster, listener, events, the
hierarchy that the comment in `StartListeningForEventSpec` asks for. Every
listener is taken to be subscribed to every broadcaster, which only adds waiting.

### StopAccess and Process

`StopAccess` is what the class comment of `ProcessRunLock` promises, as a
specification of four variables: whether the inferior runs, whether clients may
look, whether one does, and whether the contract has been broken. Only after a
claim, which is refused while somebody looks, does the inferior run; access is
granted again only when it does not run; and once it has stopped for good access
is granted (`WF(Grant)`). After a step that breaks the contract nothing is promised.

`Process` models the threads that share that lock.

| Thread | Actions | Code |
|---|---|---|
| API call, one at a time under the target's API mutex | `Resume`, `Halt`, `Destroy`, then `HijackProcessEvents`, `CallResumes`, `CallUndoes`, `CallInterrupts`, `CallEntersWait`, `CallRemoves`, `CallTimesOut`, `WaitReleasesLock`, `CallRestores`, `HaltBroadcasts`, `DoDestroy`, `StopAsyncThread`, `Destroy*` | `Resume`, `ResumeSynchronous`, `Halt`, `StopForDestroyOrDetach`, `Destroy`, `WaitForProcessToStop` |
| event handler | `HandlerRemoves`, `SetPublicStateUnlocks`, `PerformActions` | `ProcessEventData::DoOnRemoval`, `SetPublicState` |
| private state thread | `Takes*`, `BroadcastsPublicly`, `PrivateStateThreadEnds` | `RunPrivateStateThread`, `HandlePrivateEvent`, `ShouldBroadcastEvent` |
| client that looks | `ReadTryLock`, `LockAPIMutex`, `ReadUnlock` | `SBProcess::ReadMemory` and its like |
| anybody | `AsyncInterrupt` | `SBProcess::SendAsyncInterrupt` |
| the plugin's AsyncThread | `AsyncThreadContinues`, `ContinueLockSuccess`, `AsyncThreadStops`, `AsyncThreadFails` | `ProcessGDBRemote::AsyncThread` with `SetPrivateState` and `SetExitStatus` |
| inferior, debugserver | `InferiorStops`, `InferiorExits`, `DebugserverDies` | the return of the continue call, `MonitorDebugserverProcess` |

`thread[t]` is what a thread is at and the event it holds. Whether a stop is for
the user or goes on, silently, reported as restarted or by a stop action,
is a free choice: it stands for the thread plans, the stop infos and the
stop hooks. `PrivateResume` hands the run to AsyncThread and may succeed, fail,
fake a start and a stop, or time out; after a timeout AsyncThread still has the
request (`continues`), announces the run and waits for the `ContinueLock`
(`async = "lock"`). A stop is two steps, the return of the continue call and the
`SetPrivateState` behind it, which looks at nothing: Destroy or the death of
debugserver may set the exit in between, and the stop is then announced behind it.
`DebugserverDies` and `InferiorExits` belong to the constant "Exit". The
refinement mapping of `RunLock` is `inferior <- m_private_state`,
`access <- ~m_running`, `looking <- looker # "idle"`,
`broken <- "run lock" \in void`.

#### Lapses

The code does not always keep what it promises. Every call, fault and way to
continue is in the model, and `void` is a history variable, read by no guard, that
notes the promise that a step has broken. The properties of `Process` are
about behaviours in which their promise is not void. A lapse is a step after
which the code may fail its promise; it does not always do so (a Halt that
hijacks over a stop may still get away with it), and what follows it is not
judged any more. What the properties show is that there is no other way to fail.

| Lapse | Promise | What happens | Code (`Process.cpp`) |
|---|---|---|---|
| `LateResume` | run lock | DoResume times out, the lock is released, and AsyncThread makes the process run after all; or a pretended start and stop find the private state thread gone | 1616-1619, 1649-1652; `ProcessGDBRemote.cpp` 1481-1484 |
| `RunsUnconnected` | run lock | AsyncThread takes a request after the exit and sets Running over Exited | `ProcessGDBRemote.cpp` 3688-3689 |
| `HijacksOverStop` | run lock | a Halt hijacks while the handler still has a stop to remove, which then keeps the lock; or any call does while that stop is one that Halt broadcast again | 1582-1600 |
| `DropsEvent` | run lock | Halt gives up, and the start or stop that came late goes with its queue | 3346-3351 |
| `OvertakesRunning` | run lock | Halt broadcasts its stop again ahead of the start of the run it ended | 3353 |
| `ActionResumes` | run lock | the actions of a stop resume the process after the lock has been released | 4255-4260 |
| `ContinueFails` | run lock, interrupt | the PrivateResume that continues an unreported stop fails, and its status is dropped | 3686 |
| `HaltFails` | interrupt | an interrupt is accepted, but the run packet has not been sent yet or writing ^C fails | 4020-4037 |

Each is needed: with any one of them replaced by FALSE, TLC finds that the
properties fail. `LateResume`, `RunsUnconnected`, `HijacksOverStop`,
`OvertakesRunning` and `ActionResumes` break `KeepsRunLock` in the instance of
`process_run_lock`, the others `ImplementsStopAccess` or `InterruptStops` in that
of `process_calls`.

Running and Stepping are one state, and so are Stopped, Crashed and Suspended.
Left out: launching, attaching and Detach, pausing the private state thread,
secondary private state threads, `m_private_run_lock`, `NextEventAction`,
`m_force_next_event_delivery`, `m_resume_requested` and a `ShouldReportRun` that
says no. A fake stop counts against `MaxStops`.

### ProcessMemory

What reads and writes of a stopped process do to memory, to the breakpoint sites
and to the two caches. `program` is a history variable: the bytes the program
and the user have written, which is what reads have to show. Every action is one
call under the API mutex; `InferiorRuns` and `StepOver` are whole runs, from
resume to stop, with the cache cleared at the stop. `StepOver` leaves its site
disabled. Until `ReenableBreakpointSite` the private state thread reads memory, the
stub's memory is added to the cache, and breakpoints come and go; clients write,
and other threads run, only when the stop is public, before which
`ThreadList::ShouldStop` has had every plan enable its site again.

Two more history variables say where reads may be wrong. `hidden` has the bytes that
a step over stored in the very opcode it steps over: the site shows the old ones
until it is enabled again, and a cache that took them keeps them until the next
stop. `missed` has the chunks of the L1 cache that a `Flush` should have erased.

| Action or operator | Code |
|---|---|
| `CreateBreakpointSite`, `RemoveOwnerFromBreakpointSite` | the functions of `Process`, with `BreakpointSiteList` and the owners of `BreakpointSite` |
| `EnableBreakpointSite`, `EnableSoftwareBreakpoint`, `DisableBreakpointSite` | `ProcessGDBRemote::EnableBreakpointSite`, `Process::EnableSoftwareBreakpoint`, `DisableSoftwareBreakpoint` |
| `ReadMemory`, `ReadResult`, `InL1`, `Line` | `Process::ReadMemory`, `MemoryCache::Read`, `ReadMemoryFromInferior` |
| `WriteMemory`, `Flush`, `FindInRange` | `Process::WriteMemory`, `MemoryCache::Flush`, `BreakpointSiteList::FindInRange` |
| `AddL1CacheData` | memory in a stop reply, `ProcessGDBRemote::SetThreadStopInfo` |
| `StepOver`, `ReenableBreakpointSite` | `ThreadPlanStepOverBreakpoint::DoWillResume`, `ReenableBreakpointSite` |

A site that the stub places (Z0 or Z1) is of type "external": `m_hardware_index` is
never set, so `IsHardware` never tells it apart. Left out: reads and writes that
fail or are short, invalid ranges, a program that writes over a trap, and ranges
that begin inside a site (see below). The assertion in `WriteMemory` line 2441
ends the debugger; the model does not take that step.

### NativeProcessLinux

How lldb-server stops and resumes the threads of the inferior. `kernel[t]` is
what a thread really does, `m_threads[t]` what lldb-server believes.
lldb-server has one thread, so a packet (`Resume`, `Interrupt`) or a wait status
(`SigchldHandler`, then `MonitorCallback` and what it dispatches to) is handled
at a time; but the process can be killed between the `waitpid` and the
`PTRACE_GETSIGINFO`. The functions that call each other (`ResumeThread`,
`StopRunningThreads`, `SignalIfAllThreadsStopped`, `ThreadWasCreated`,
`StopTrackingThread`, `WaitForNewThread`) are operators from a state record to a
state record, and an action applies them to `Now`.

The kernel and the inferior are the environment: threads trap, get ignored
signals, clone, exit, take the SIGSTOP that is pending, and may all be killed. A
SIGSTOP stays pending while its thread is in another stop, and is delivered after
the next resume, whether the stop it was meant for is over or not.

A trap stands for a breakpoint, a watchpoint, the end of a step and a signal the
client wants to hear of. Left out: exec, Detach, software single stepping,
watchpoint registers, memory and register access, processor trace. Two constants
leave out what the code does not handle: with `LeaderExits` the leader may exit
first, remains as a zombie that stays marked as running, and a stop never
completes; with `LastRunnerExits` the only thread that runs may exit, and nobody
starts a stop.

## Runs

| Run | Instance | Result |
|---|---|---|
| `client_safety` | 2 async threads, requests, json requests, qRcmd and signals, 4 calls, 1 output packet, 3 packets in flight | the six safety properties hold (3.3 million states) |
| `client_live` | 2 async threads, fair threads, a stub that may hang | every async call returns and the continue thread is not left asleep in its lock |
| `event_delivery` | 1 broadcaster, 2 listeners, 2 threads | same order, delivery only to subscribers |
| `event_wait` | 1 listener, 3 threads, 2 bits, 3 events, 2 waits | unique events unique, no lost wakeup |
| `manager` | 2 listeners, 2 broadcasters of 2 classes, 3 bits, 6 operations | each bit has one owner and one receiver |
| `locks` | 3 threads, 2 listeners, 2 broadcasters, all operations | **violated**: a deadlock |
| `process_run_lock` | every call, fault and way to continue; 3 calls, 1 stop, 1 look | without a lapse the run lock is kept; the exit is reported once (4.3 million states) |
| `process_calls` | the same with 2 calls, and fairness | `Process` implements `StopAccess`, interrupts that were passed on stop the process, calls return (521,000 states) |
| `process_continue` | stop actions that continue, 1 look | **violated**: a client looks at a running inferior |
| `process_memory` | 8 bytes, lines of 2, two adjacent software sites of 2 bytes, 2 owners, overlapping long reads | traps where enabled sites are, reads show the program (114,000 states) |
| `memory_flush` | a long read inside a longer one | **violated**: a read returns bytes from before a write |
| `native_stop` | 3 threads, 2 events, 2 resumes, 1 interrupt, 1 kill | stops are complete, named and certain, exits reported (192,000 states) |

`client_safety` and the two theorems about the wire assume a stub that ignores ^C
once the inferior has stopped (`EchoLateInterrupt` false), as lldb-server does:
`NativeProcessLinux::Interrupt` finds no running thread and `SetState` reports nothing when the state stays
Stopped. It leaves out `Interrupt` and requests that refuse to
interrupt, which put nothing on the stream of their own: they are in
`client_live`, and the theorems cover every call and, but for those two, both
kinds of stub.

The three violated runs are disagreements between the code and what its comments
say; `PROJECT.json` quotes the lines.

* **locks.** One thread is in `StartListeningForEventSpec` and has the manager's
  mutex, another in `StopListeningForEventSpec` and has the listener's; each waits
  for the other's. The comment in the first function (`Listener.cpp` lines
  435-436) asks for the manager's mutex to be taken first. The theorem
  `DeadlocksAreReversals` shows that this function and `Listener::Clear` are
  in every deadlock of the event system.
* **process_continue.** `DoOnRemoval` makes the stop public, which releases the
  run lock, and then runs the stop's actions. If they decide to go on,
  `PrivateResume` resumes the process without taking the lock again. A client
  that took the read end in between looks at a running inferior, and
  others can join it.
* **memory_flush.** The L1 cache is ordered by the start of its chunks, and
  `Flush` ends at the first chunk that does not intersect the range. A chunk
  that starts earlier and reaches further is then kept. The same happens when
  the chunk before the write does not reach it: the loop ends there, and a chunk
  that starts inside the write is kept. `ReadsCurrent` in `process_memory` shows
  that overlapping chunks have no other consequence.

### What other constants show

These behaviours violate a property with other values of the constants, or were
met while the code was read. They are not runs of their own; the hazards in
`PROJECT.json` name them.

* *Client.* With `EchoLateInterrupt` a ^C that is written between the stop
  reply and the unlock makes the next request take a second stop reply for its
  answer (`ResponseMatchesRequest`). With `EndlessOutput` an interrupt's
  deadline, which is looked at when a read times out, is never looked at
  (`AsyncCallsReturn`). With `Ops = {"interrupt"}` an interrupt of one run
  cancels the next continue call (`LateInterruptHarmless`).
* *BroadcasterManager.* Unregistering some bits forgets the listener, and a later
  request to stop returns early (`StillStoppable`).
* *Process.* The lapses above. Besides, a `Halt` that reports success may
  leave the process running if a stop action continued it, although `Process.h` line
  1063 says that it will have stopped. An interrupt after a stop that was reported
  as restarted is ignored. An exit that reaches the hijacking listener after the
  call's stop is never public. When AsyncThread sets Stopped or Running over
  Exited, the next `SetExitStatus` sets the status again, although
  `ProcessGDBRemote.cpp` lines 2619-2620 say that "the first one sets the status".
  `CallReturns` excepts `WaitsForLooker`: a call, or the private state thread that
  `Destroy` joins, waits in `SetStopped` for a client that holds the read end of the run lock
  and waits for the API mutex.
* *Memory.* With `SiteTypes = {"external"}` bytes written over a site go to an
  opcode buffer that nobody writes back (`ReadsCurrent`). A range that begins
  inside a site and holds no other finds no site, so a write destroys half of
  the trap (`MemoryIntact`). `WriteMemory` returns 0 in some cases in which it
  wrote everything around its sites.
* *lldb-server.* On exec the loop that should "Remove all but the main thread"
  erases the main thread only. The `s` packet gives the other threads the action
  Stopped, which `NativeProcessLinux::Resume` declares unreachable. If the thread that
  `Interrupt` chose exits, the stop is reported for a thread that is gone;
  `StopNamesCause` allows for it.

### Bounds, and why they suffice

`MaxCalls`, `MaxEvents`, `MaxChanges`, `MaxWaits` and `MaxOps` bound how much
happens, `MaxOutput` and `MaxPending` the stream. Two async threads and the
continue thread are the smallest set with a thread that interrupts, one that
joins it and one that must not resume; four calls let a continue call be
followed by another while two async calls overlap. In `event_wait` two threads
sleep with different filters while the third broadcasts, the least that tells
notify_one from notify_all, and three events let a unique event find one
of its type behind another. Six manager operations are enough to register,
split, re-register and check in. Three threads in `locks` make cycles of length three
possible.

In `process_run_lock` three calls are a resume, a halt and another resume, which
is what the lapses around `Halt` take (their shortest traces have up to 33 states),
with a stop of the inferior's own and a client that looks at any point.
`process_calls` has one call less, because liveness costs more: a resume and an interrupt,
a `Halt` or a `Destroy`, with all the faults. With two stops instead of one,
`ImplementsStopAccess` and `InterruptStops` hold as well; that run takes longer
than is convenient. Eight bytes hold a gap, two sites that touch, and
a stack, so that writes end in a gap, in the middle of a site and at its end, and
reads span lines and sites and overlap each other; the program stores into the first
site, so that a step over it changes the opcode. The state space of that
instance is not cut by any bound on the number of calls. In `native_stop` three threads are one with a cause, one that has to be
stopped for it and one that is created or exits meanwhile; two events give every
pair of them a race, and two resumes let a SIGSTOP outlive its stop.

Symmetry over threads, listeners, bits, bytes and owners is used in safety runs
only. Deadlock checking is off where the bounded system stops: after
its calls are used up, or, in `client_*`, with a stub that says nothing more.

### Fairness

`FairSpec` assumes that the operating system schedules each client thread: a
step of the continue thread inside a call, or of an async thread inside a call,
that stays possible is taken (weak fairness of each thread). Mutexes are not
assumed to be handed over fairly, nobody is obliged to start a call, and
nothing is assumed of the stub or the inferior: they may hang, which is what the timeouts
are for.

`Process` assumes that the API call, the event handler, the private state thread,
AsyncThread and the client inside the lock are scheduled, and that an inferior that has been
told to stop does. Nobody has to make a call, the inferior may run for ever, and
`ResumeSynchronous`, which waits for it, is not among the calls that must return.

`NativeProcessLinux` assumes that lldb-server is scheduled, and that the kernel
delivers a pending SIGSTOP to a running thread and lets a thread that is exiting die.

## Proofs

* `GDBRemoteClientBaseProofs`, for any finite set of async threads and any
  bounds. The invariant `IInv` is `TypeOK`, `AsyncCountAccurate`, and three facts
  that make the exclusion inductive: `m_is_running` is true exactly in the phases
  of the continue thread that own the connection (`RunningPhase`); a thread that
  holds the `Lock` excludes those phases (`LockExcludesRun`); `m_async_mutex` is
  owned by the thread past it (`MutexOwned`). The count is what connects the two
  sides: a run packet needs `m_async_count = 0`, which by `AsyncCountAccurate`
  and the cardinality lemmas (`CountUp`, `CountDown`, `CountZero`) means that no
  thread is counted. `TypeCorrect`, `CountCorrect`, `ExclusionCorrect` and
  `ResumeCorrect` follow. `NoRequestWhileRunning` and `AnswersMatch` need a second
  invariant, `WInv`, about both channels: while the continue thread reads, the wire
  carries one run, as its packet, its output, or the one reply that ends it
  (`Resuming`); otherwise it carries the request of the one thread that waits for an
  answer, or the rest of that answer (`Conversation`), or nothing but interrupts that came
  too late. They hold of stubs with `~EchoLateInterrupt`; the other kind breaks both, as
  "What other constants show" says. `LostForGood` is why "the connection was given up"
  excuses a thread: it is never taken back.
* `BroadcasterManagerProofs`: `BitsExclusive` and `SignedUpOnce` for any
  listeners, classes and bits. `SignedUpOnce` needs in addition that a
  broadcaster that has not checked in sends nothing (`SilentBefore`).
* `EventLocksProofs`: `DeadlocksAreReversals`, for any threads, listeners and
  broadcasters and all operations. Mutexes are ranked manager 1, broadcaster 2,
  listener 3, events 4; a thread whose operation is not `Reversing` only wants
  mutexes above those it holds (`LockOrder`), so around a cycle of such threads
  ranks would climb for ever: the one that wants the highest rank waits for
  none of them.
* `BroadcasterProofs`, for any broadcasters, listeners, threads and bounds:
  `SameOrder`, `UniqueOnce`, `NoLostWakeup` and `DeliverySubscribed`. Neither of the
  first two is inductive alone. Two listeners see the same order because
  every queue has the events of a broadcaster in the order of their ids
  (`Ordered`), which a delivery keeps because what the queue already holds is
  older (`Older`); that is so because a broadcast keeps `m_listeners_mutex`, hence
  one is under way for each broadcaster, and because it serves each listener
  once (`EntriesOnce`). A unique event is not doubled because between the look
  (`peeked`) and the insertion nothing like it can arrive (`Lacks`): only a
  broadcast of the same broadcaster would bring it. Clearing and taking only
  remove: `KeepMeans` shows by well-founded induction on a least counterexample that
  `Keep` returns a subsequence, and subsequences keep all of the above.
* `ProcessProofs`, for all calls, faults, ways to continue and bounds, without
  further hypotheses. `TypesCorrect` and `ExitReportedOnce` rest on the fact that the
  exit is in at most one place, the public queues and the hands of each thread, and
  that the private state thread ends with it, however often it is set again.
  `RunLockKept` is the safety half of `ImplementsStopAccess`: every step is a step
  of `StopAccess`, or leaves its variables alone, until a lapse. `LookersNeverSeeRunning`
  follows. The invariant (`SideInv`, `LockInv`) follows the run of the inferior from
  the call that takes the lock to whoever releases it: until the process exits
  it is in at most one of its places (`LivePlaces`: AsyncThread, the queues, the hands
  of the threads), and the lock is held while it is in any. Each of the
  lapses is where a step would put it in two places, or in none.
* `ProcessMemoryProofs`, for any memory, sites, values and line size, says for
  which ranges the code is right. `MemoryStaysIntact` needs `WritesKept`: no
  write begins inside an opcode, or meets a trap of the stub. `TypesCorrect` needs
  `ReadsAligned`: no read or line begins inside an opcode of a site that lldb sets
  itself; and `ExpeditedApart`: what the stub sends along with a stop has no such opcode
  in it (debugserver sends stack memory, `ReadStackMemory` in `RNBRemote.cpp`;
  lldb-server sends none). The first two are always so where a trap is one byte, as on
  x86, and lldb sets it. `ReadsShowProgram` needs all three; how chunks
  overlap and what `Flush` finds of them is not restricted.
  The invariant is that a cached chunk that no flush has missed, or a
  line, shows the program but for `hidden` (`CacheShows`), and the lemmas are about
  ranges, lines (`DivMod`, `Multiples`) and what a write leaves of a trap.
  `process_memory` satisfies the three; the hazards name the lines
  where the code does not see to them.
* `NativeProcessLinuxProofs`, for any set of threads and any bounds:
  `StatesAgree`, `StopsAreComplete` and `StopNamesCause`. The invariant adds
  where a thread that is not tracked can be: nowhere, or held in its first stop
  until its parent's clone stop or its own is handled (`ThreadAgrees`, `Forking`), and
  that the thread a stop will be reported for has a cause as soon as it has
  stopped (`PendingCause`). It speaks of the time before the process is killed,
  after which the kernel contradicts all beliefs. `StopNamesCause` needs
  `~LastRunnerExits`, as its run does: then somebody is thought to run while the
  process is (`SomeoneRuns`), and the resume that would report an old stop cannot happen.

The proofs use the named assumptions on the constants in the modules they are
about (`ThreadsAssumption`, `BoundsAssumption`, `ManagerAssumption`, `NamesAssumption`,
`LimitsAssumption`, `ProcessAssumption`, `ProcessMemoryAssumption`, `NativeAssumption`);
TLC evaluates them in every run. The further hypotheses above are written
in the theorems.

Only model-checked: liveness (`AsyncCallsReturn`, `ContinueLockReturns`,
`CallReturns`, `InterruptStops`, `StopCompletes`, `ExitReported`, and the
fairness of `StopAccess`), which is outside the prover's reach.

## Not modelled

Non-stop mode (`SendvContPacket`), packet framing, the age of interrupts and all
other clocks, the contents of packets and events, what the sections above say
is left out of each module, and the components that the plan lists for later or
leaves out (`PROJECT.json` gives a reason for each). Most of the repository is the
latter: parsers of object files and debug information, instruction emulation,
expression evaluation on top of clang, formatters and commands are large,
sequential and full of data, and a small instance would show little of them.
