--------------------------- MODULE ProcessProofs ---------------------------
(***************************************************************************)
(* Proofs about Process for any calls, any faults and any bounds.          *)
(***************************************************************************)
EXTENDS Process, SequenceTheorems, TLAPS

---------------------------------------------------------------------------
(* Queues of events *)

Has(q, E) == \E i \in 1 .. Len(q) : q[i] \in E
One(q, E) == \A i, j \in 1 .. Len(q) : q[i] \in E /\ q[j] \in E => i = j

(* Nothing moves the process after a stop.                                  *)
LastStop(q) ==
  \A i, j \in 1 .. Len(q) :
    q[i].state = "stopped" /\ i < j => q[j].state \notin {"stopped", "running"}

(* What an event adds to a queue.                                           *)
LEMMA QueueAppend ==
  ASSUME NEW q \in Seq(Event), NEW e \in Event
  PROVE  /\ Append(q, e) \in Seq(Event)
         /\ \A E : Has(Append(q, e), E) <=> Has(q, E) \/ e \in E
         /\ \A E : One(q, E) /\ (e \in E => ~Has(q, E)) => One(Append(q, e), E)
<1>1. /\ Append(q, e) \in Seq(Event) /\ Len(Append(q, e)) = Len(q) + 1 /\ Len(q) \in Nat
      /\ \A i \in 1 .. Len(q) : Append(q, e)[i] = q[i]
      /\ Append(q, e)[Len(q) + 1] = e
  OBVIOUS
<1> DEFINE a == Append(q, e)
<1> HIDE DEF a
<1>2. /\ Len(a) = Len(q) + 1 /\ Len(q) \in Nat
      /\ \A i \in 1 .. Len(q) : a[i] = q[i]
      /\ a[Len(q) + 1] = e
  BY <1>1 DEF a
<1>3. \A E : Has(a, E) <=> Has(q, E) \/ e \in E
  BY <1>2 DEF Has
<1>4. \A E : One(q, E) /\ (e \in E => ~Has(q, E)) => One(a, E)
  BY <1>2 DEF Has, One
<1> QED BY <1>1, <1>3, <1>4 DEF a

(* What the first event takes from it.                                      *)
LEMMA QueueTail ==
  ASSUME NEW q \in Seq(Event), q # <<>>
  PROVE  /\ Tail(q) \in Seq(Event) /\ Head(q) \in Event
         /\ \A E : Has(Tail(q), E) => Has(q, E)
         /\ \A E : Head(q) \in E => Has(q, E)
         /\ \A E : One(q, E) => One(Tail(q), E) /\ (Head(q) \in E => ~Has(Tail(q), E))
<1>1. /\ Tail(q) \in Seq(Event) /\ Head(q) \in Event /\ Head(q) = q[1]
      /\ Len(q) \in Nat \ {0} /\ Len(Tail(q)) = Len(q) - 1
      /\ \A i \in 1 .. Len(q) - 1 : Tail(q)[i] = q[i + 1]
  OBVIOUS
<1> DEFINE t == Tail(q)
           h == Head(q)
<1> HIDE DEF t, h
<1>2. /\ h = q[1] /\ Len(q) \in Nat \ {0} /\ Len(t) = Len(q) - 1
      /\ \A i \in 1 .. Len(q) - 1 : t[i] = q[i + 1]
  BY <1>1 DEF t, h
<1>3. \A E : (Has(t, E) => Has(q, E)) /\ (h \in E => Has(q, E))
  BY <1>2 DEF Has
<1>4. ASSUME NEW E, One(q, E) PROVE One(t, E) /\ (h \in E => ~Has(t, E))
  <2>1. One(t, E)
    BY <1>2, <1>4 DEF One
  <2>2. h \in E => ~Has(t, E)
    BY <1>2, <1>4 DEF One, Has
  <2> QED BY <2>1, <2>2
<1> QED BY <1>1, <1>3, <1>4 DEF t, h

(* What holds of an empty queue.                                            *)
LEMMA QueueEmpty == /\ <<>> \in Seq(Event) /\ LastStop(<<>>)
                    /\ \A E : ~Has(<<>>, E) /\ One(<<>>, E)
BY DEF Has, One, LastStop

Exits == {e \in Event : e.state = "exited"}
Stops == {e \in Event : e.state = "stopped"}
Moves == {e \in Event : e.state \in {"stopped", "running"}}
Finals == {e \in Event : Final(e)}
Fresh == {e \in Finals : ~e.again}
Agains == {e \in Event : e.again}

(* The queue of the private state thread keeps the order.                   *)
LEMMA LastStopAppend ==
  ASSUME NEW q \in Seq(Event), NEW e \in Event, LastStop(q), e \in Moves => ~Has(q, Stops)
  PROVE  LastStop(Append(q, e))
<1> DEFINE a == Append(q, e)
<1>1. /\ Len(a) = Len(q) + 1 /\ Len(q) \in Nat
      /\ \A i \in 1 .. Len(q) : a[i] = q[i] /\ q[i] \in Event
      /\ a[Len(q) + 1] = e
  OBVIOUS
<1> HIDE DEF a
<1> SUFFICES ASSUME NEW i \in 1 .. Len(a), NEW j \in 1 .. Len(a), a[i].state = "stopped", i < j
             PROVE  a[j].state \notin {"stopped", "running"}
  BY DEF LastStop, a
<1>2. i \in 1 .. Len(q) /\ q[i].state = "stopped"
  BY <1>1
<1>3. Has(q, Stops)
  BY <1>1, <1>2 DEF Has, Stops
<1>4. CASE j \in 1 .. Len(q)
  BY <1>1, <1>2, <1>4 DEF LastStop
<1>5. CASE j = Len(q) + 1
  BY <1>1, <1>3, <1>5 DEF Moves
<1> QED BY <1>1, <1>4, <1>5

(* The rest of a queue ends as the queue does.                              *)
LEMMA LastStopTail ==
  ASSUME NEW q \in Seq(Event), q # <<>>, LastStop(q)
  PROVE  LastStop(Tail(q)) /\ (Head(q).state = "stopped" => ~Has(Tail(q), Moves))
<1> DEFINE t == Tail(q)
           h == Head(q)
<1>1. /\ h = q[1] /\ Len(q) \in Nat \ {0} /\ Len(t) = Len(q) - 1
      /\ \A i \in 1 .. Len(q) - 1 : t[i] = q[i + 1]
  OBVIOUS
<1> HIDE DEF t, h
<1>2. LastStop(t)
  BY <1>1 DEF LastStop
<1>3. h.state = "stopped" => ~Has(t, Moves)
  BY <1>1 DEF LastStop, Has, Moves
<1> QED BY <1>2, <1>3 DEF t, h

---------------------------------------------------------------------------
(* Types *)

ThreadOK ==
  /\ thread \in [Threads -> [pc : Pcs.api \union Pcs.handler \union Pcs.pst,
                             event : Event \union {NoEvent}]]
  /\ thread["api"].pc \in Pcs.api
  /\ thread["handler"].pc \in Pcs.handler
  /\ thread["pst"].pc \in Pcs.pst

(* Events held at the points where they are broadcast and nowhere else by   *)
(* the private state thread, and a call that has returned.                  *)
HeldOK ==
  /\ IF At("pst", "broadcast") THEN Held("pst") \in Event ELSE Held("pst") = NoEvent
  /\ At("api", "again") => Held("api") \in Event
  /\ call = "none" => At("api", "idle")

(* Events and their flags.                                                  *)
LEMMA NewEvents ==
  /\ \A s \in States \union {"interrupt"} : NewEvent(s) \in Event /\ NewEvent(s).state = s
  /\ \A e \in Event : /\ [e EXCEPT !.restarted = TRUE] \in Event
                      /\ [e EXCEPT !.interrupted = TRUE] \in Event
                      /\ [e EXCEPT !.again = TRUE] \in Event
                      /\ [e EXCEPT !.again = TRUE].state = e.state
                      /\ [e EXCEPT !.again = TRUE].again
                      /\ [e EXCEPT !.restarted = TRUE].state = e.state
                      /\ [e EXCEPT !.restarted = TRUE].restarted
                      /\ [e EXCEPT !.restarted = TRUE].again = e.again
                      /\ [e EXCEPT !.interrupted = TRUE].again = e.again
                      /\ [e EXCEPT !.interrupted = TRUE].state = e.state
                      /\ [e EXCEPT !.interrupted = TRUE].restarted = e.restarted
  /\ NoEvent \notin Event
  /\ \A s : ~NewEvent(s).restarted /\ ~NewEvent(s).again
BY DEF NewEvent, Event, States, NoEvent

(* A thread goes on, with the event it has or with another.                 *)
LEMMA GotoMeans ==
  ASSUME ThreadOK, NEW t \in Threads, NEW pc \in Pcs[t], Goto(t, pc)
  PROVE  /\ ThreadOK'
         /\ thread'[t].pc = pc /\ thread'[t].event = thread[t].event
         /\ \A u \in Threads \ {t} : thread'[u] = thread[u]
BY DEF ThreadOK, Threads, Pcs, Goto

(* A thread goes on with another event.                                     *)
LEMMA GotoWithMeans ==
  ASSUME ThreadOK, NEW t \in Threads, NEW pc \in Pcs[t], NEW e \in Event \union {NoEvent},
         GotoWith(t, pc, e)
  PROVE  /\ ThreadOK'
         /\ thread'[t].pc = pc /\ thread'[t].event = e
         /\ \A u \in Threads \ {t} : thread'[u] = thread[u]
BY DEF ThreadOK, Threads, Pcs, GotoWith

DataOK ==
  /\ m_private_state \in States /\ m_public_state \in States
  /\ m_last_broadcast_state \in States
  /\ m_running \in BOOLEAN /\ looker \in {"idle", "locked", "inside"}
  /\ private_queue \in Seq(Event) /\ public_queue \in Seq(Event) /\ hijack_queue \in Seq(Event)
  /\ hijack \in Calls \union {"none"} /\ call \in Calls \union {"none"}
  /\ async \in {"idle", "lock", "running", "stopped", "dead"}
  /\ continues \in Nat /\ connected \in BOOLEAN
  /\ interrupt_requested \in BOOLEAN /\ halting \in BOOLEAN /\ joined \in BOOLEAN
  /\ void \subseteq {"run lock", "interrupt"}
  /\ calls \in 0 .. MaxCalls /\ stops \in 0 .. MaxStops /\ looks \in 0 .. MaxLooks

---------------------------------------------------------------------------
(* The exit *)

Places == {"private", "public", "hijack"} \union Threads

(* Where an exit is on its way from the private state thread.               *)
ExitPlaces ==
  {p \in Places : \/ p = "public" /\ Has(public_queue, Exits)
                  \/ p = "hijack" /\ Has(hijack_queue, Exits)
                  \/ p \in Threads /\ Held(p) \in Exits}

AtMostOne(S) == \A p, q \in S : p = q

PstEnds == thread["pst"].pc \in {"exiting", "dead"}

(* One exit at most is on its way, and the private state thread broadcasts  *)
(* it last of all.                                                          *)
ExitInv ==
  /\ AtMostOne(ExitPlaces)
  /\ One(public_queue, Exits) /\ One(hijack_queue, Exits)
  /\ ExitPlaces # {} => "pst" \in ExitPlaces \/ PstEnds

IInv == DataOK /\ ThreadOK /\ HeldOK /\ ExitInv

(* Where the exit is, before and after a step.                              *)
LEMMA ExitMeans ==
  /\ "public" \in ExitPlaces <=> Has(public_queue, Exits)
  /\ "hijack" \in ExitPlaces <=> Has(hijack_queue, Exits)
  /\ \A t \in Threads : t \in ExitPlaces <=> thread[t].event \in Exits
  /\ "public" \in ExitPlaces' <=> Has(public_queue', Exits)
  /\ "hijack" \in ExitPlaces' <=> Has(hijack_queue', Exits)
  /\ \A t \in Threads : t \in ExitPlaces' <=> thread'[t].event \in Exits
  /\ ExitPlaces \subseteq {"public", "hijack", "api", "handler", "pst"}
  /\ ExitPlaces' \subseteq {"public", "hijack", "api", "handler", "pst"}
BY DEF ExitPlaces, Places, Threads, Held

(* An exit that leaves one place for another is still the only one.         *)
LEMMA ExitMoves ==
  ASSUME ExitInv, One(public_queue', Exits), One(hijack_queue', Exits),
         NEW a, NEW b,
         \A p \in ExitPlaces' : p # b => p \in ExitPlaces,
         b \in ExitPlaces' => b \in ExitPlaces \/ (a \in ExitPlaces /\ a \notin ExitPlaces'),
         \/ thread'["pst"] = thread["pst"]
         \/ ExitPlaces' # {} => "pst" \in ExitPlaces' \/ PstEnds'
  PROVE  ExitInv'
<1>1. AtMostOne(ExitPlaces)'
  BY DEF ExitInv, AtMostOne
<1>2. ExitPlaces' # {} => "pst" \in ExitPlaces' \/ PstEnds'
  <2>1. ExitPlaces' # {} => ExitPlaces # {}
    OBVIOUS
  <2>2. CASE thread'["pst"] = thread["pst"]
    BY <2>1, <2>2, ExitMeans DEF ExitInv, PstEnds, Threads
  <2> QED BY <2>2
<1> QED BY <1>1, <1>2 DEF ExitInv

(* Steps that leave the public queues and the events of the threads alone.  *)
LEMMA ExitStays ==
  ASSUME ExitInv, UNCHANGED <<public_queue, hijack_queue>>,
         \A t \in Threads : thread'[t].event \in Exits => thread[t].event \in Exits,
         thread'["pst"] = thread["pst"] \/ PstEnds'
  PROVE  ExitInv'
<1>1. \A p \in ExitPlaces' : p \in ExitPlaces
  BY ExitMeans DEF Threads
<1> QED BY <1>1, ExitMoves DEF ExitInv

(* What PrivateResume does, by its outcome.                                 *)
LEMMA ResumeMeans ==
  ASSUME DataOK, NEW faults \in {ResumeFaults, ContinueFaults},
         NEW outcome \in ResumeOutcomes(faults), NEW q \in Seq(Event),
         PrivateResume(outcome, q)
  PROVE  /\ m_private_state' \in States /\ private_queue' \in Seq(Event)
         /\ async' \in {"idle", "lock", "running", "stopped", "dead"} /\ continues' \in Nat
         /\ stops' \in 0 .. MaxStops /\ UNCHANGED <<connected, halting>>
         /\ \/ /\ outcome = "ok" /\ m_private_state = "stopped" /\ m_private_state' = "running"
               /\ async = "idle" /\ connected /\ async' = "running" /\ continues' = continues
               /\ private_queue' = Append(q, NewEvent("running"))
            \/ /\ outcome = "timeout" /\ continues' = continues + 1
               /\ UNCHANGED <<m_private_state, async>> /\ private_queue' = q
            \/ /\ outcome = "fake" /\ m_private_state = "stopped"
               /\ UNCHANGED <<m_private_state, async, continues>>
               /\ private_queue' = Append(Append(q, NewEvent("running")), NewEvent("stopped"))
            \/ /\ outcome = "error"
               /\ UNCHANGED <<m_private_state, async, continues>> /\ private_queue' = q
<1>1. /\ outcome \in {"ok", "timeout", "error", "fake"}
      /\ outcome = "ok" => m_private_state = "stopped" /\ async = "idle" /\ connected
      /\ outcome = "fake" => m_private_state = "stopped" /\ stops < MaxStops
  BY ProcessAssumption DEF ResumeOutcomes
<1>2. /\ NewEvent("running") \in Event /\ NewEvent("stopped") \in Event
      /\ stops \in 0 .. MaxStops /\ continues \in Nat
  BY NewEvents DEF States, DataOK
<1>3. CASE outcome = "ok"
  <2>1. /\ m_private_state' = "running" /\ stops' = stops /\ async' = "running"
        /\ continues' = continues /\ UNCHANGED <<connected, halting>>
        /\ private_queue' = Append(q, NewEvent("running"))
    BY <1>3 DEF PrivateResume
  <2> QED BY <1>1, <1>2, <1>3, <2>1, QueueAppend DEF DataOK, States
<1>4. CASE outcome = "fake"
  <2>1. /\ m_private_state' = m_private_state /\ stops' = stops + 1 /\ async' = async
        /\ continues' = continues /\ UNCHANGED <<connected, halting>>
        /\ private_queue' = q \o <<NewEvent("running"), NewEvent("stopped")>>
    BY <1>4 DEF PrivateResume
  <2>2. private_queue' = Append(Append(q, NewEvent("running")), NewEvent("stopped"))
    BY <1>2, <2>1
  <2>3. stops' \in 0 .. MaxStops
    BY <1>1, <1>2, <1>4, <2>1, ProcessAssumption
  <2>4. Append(q, NewEvent("running")) \in Seq(Event)
    BY <1>2, QueueAppend
  <2>5. private_queue' \in Seq(Event)
    BY <1>2, <2>2, <2>4, QueueAppend
  <2> QED BY <1>1, <1>4, <2>1, <2>2, <2>3, <2>5 DEF DataOK
<1>5. CASE outcome = "error"
  <2>1. /\ m_private_state' = m_private_state /\ private_queue' = q /\ stops' = stops
        /\ async' = async /\ continues' = continues /\ UNCHANGED <<connected, halting>>
    BY <1>5 DEF PrivateResume
  <2> QED BY <1>5, <2>1 DEF DataOK
<1>6. CASE outcome = "timeout"
  <2>1. /\ m_private_state' = m_private_state /\ private_queue' = q /\ stops' = stops
        /\ async' = async /\ continues' = continues + 1 /\ UNCHANGED <<connected, halting>>
    BY <1>6 DEF PrivateResume
  <2>2. continues' \in Nat
    BY <1>2, <2>1
  <2> QED BY <1>6, <2>1, <2>2 DEF DataOK
<1> QED BY <1>1, <1>3, <1>4, <1>5, <1>6

(* The promises that a lapse voids stay void.                               *)
LEMMA VoidMeans ==
  ASSUME DataOK, NEW lapse \in BOOLEAN, NEW promises \in SUBSET {"run lock", "interrupt"},
         VoidIf(lapse, promises)
  PROVE  /\ void' \subseteq {"run lock", "interrupt"} /\ void \subseteq void'
         /\ lapse => promises \subseteq void'
BY DEF VoidIf, DataOK

(* SetPrivateState by the plugin's threads.                                 *)
LEMMA StateMeans ==
  ASSUME DataOK, NEW s \in States, SetPrivateState(s)
  PROVE  /\ m_private_state' = s /\ private_queue' \in Seq(Event) /\ NewEvent(s) \in Event
         /\ private_queue' = IF m_private_state = s THEN private_queue
                             ELSE Append(private_queue, NewEvent(s))
<1>1. NewEvent(s) \in Event /\ private_queue \in Seq(Event)
  BY NewEvents DEF DataOK
<1>2. m_private_state' = s /\ private_queue' = IF m_private_state = s THEN private_queue
                                                ELSE Append(private_queue, NewEvent(s))
  BY DEF SetPrivateState
<1> QED BY <1>1, <1>2, QueueAppend

---------------------------------------------------------------------------
(* Types and the exit under every action *)

(* A thread that goes on with the event it has.                             *)
LEMMA GotoKeeps ==
  ASSUME IInv, NEW t \in Threads, NEW pc \in Pcs[t], Goto(t, pc), DataOK',
         UNCHANGED <<public_queue, hijack_queue>>, pc # "again",
         t = "pst" => At("pst", "exiting") /\ pc = "dead",
         IF t = "api" THEN call' = "none" => pc = "idle" ELSE call' = call
  PROVE  IInv'
<1>1. /\ ThreadOK'
      /\ thread'[t].pc = pc /\ thread'[t].event = thread[t].event
      /\ \A u \in Threads \ {t} : thread'[u] = thread[u]
  BY GotoMeans DEF IInv
<1>2. HeldOK'
  BY <1>1 DEF IInv, HeldOK, At, Held, Threads, ThreadOK, Pcs
<1>4. thread'["pst"] = thread["pst"] \/ PstEnds'
  BY <1>1 DEF PstEnds, Threads
<1>3. ExitInv'
  BY <1>1, <1>4, ExitStays DEF IInv
<1> QED BY <1>1, <1>2, <1>3 DEF IInv

(* A call counts against the bound.                                         *)
LEMMA EnterMeans ==
  ASSUME DataOK, NEW c, Enter(c)
  PROVE  call' = c /\ c \in Calls /\ c # "none" /\ calls' \in 0 .. MaxCalls
<1>1. calls \in 0 .. MaxCalls /\ MaxCalls \in Nat
  BY ProcessAssumption DEF DataOK
<1>2. calls < MaxCalls /\ calls' = calls + 1 /\ c \in Calls /\ call' = c
  BY DEF Enter
<1>3. c # "none"
  BY <1>2, ProcessAssumption
<1> QED BY <1>1, <1>2, <1>3

(* The steps of the calls that touch no queue.                              *)
LEMMA CallsKeep ==
  ASSUME IInv, (\E c \in Calls : Resume(c)) \/ Halt \/ Destroy \/ HijackProcessEvents
               \/ CallUndoes \/ CallEntersWait \/ WaitReleasesLock \/ DoDestroy \/ StopAsyncThread
               \/ DestroyJoins \/ DestroyReturns
  PROVE  IInv'
<1> USE DEF vars, inferiorVars, privateVars, publicVars, pstVars, clientVars, callVars
<1>1. /\ "api" \in Threads /\ Pcs["api"] = Pcs.api /\ DataOK /\ HeldOK
      /\ \A c \in Calls : c # "none"
  BY ProcessAssumption DEF Threads, Pcs, IInv
<1>2. ASSUME NEW c \in Calls, Resume(c) PROVE IInv'
  <2>1. DataOK' /\ call' # "none"
    BY <1>1, <1>2, EnterMeans DEF Resume, DataOK
  <2>2. PICK pc \in {"resume", "hijack"} : Goto("api", pc)
    BY <1>2 DEF Resume
  <2> QED BY <1>1, <1>2, <2>1, <2>2, GotoKeeps DEF Resume, Pcs
<1>3. ASSUME Halt PROVE IInv'
  <2>1. DataOK' /\ call' # "none"
    BY <1>1, <1>3, EnterMeans DEF Halt, DataOK
  <2> QED BY <1>1, <1>3, <2>1, GotoKeeps DEF Halt, Pcs
<1>4. ASSUME Destroy PROVE IInv'
  <2>1. DataOK' /\ call' # "none"
    BY <1>1, <1>4, EnterMeans DEF Destroy, DataOK
  <2>2. PICK pc \in {"kill", "hijack"} : Goto("api", pc)
    BY <1>4 DEF Destroy
  <2> QED BY <1>1, <1>4, <2>1, <2>2, GotoKeeps DEF Destroy, Pcs
<1>5. ASSUME HijackProcessEvents PROVE IInv'
  <2>3. void' \subseteq {"run lock", "interrupt"}
    BY <1>1, <1>5 DEF HijackProcessEvents, VoidIf, DataOK
  <2>1. DataOK' /\ call' # "none"
    BY <1>1, <1>5, <2>3 DEF HijackProcessEvents, DataOK, HeldOK, At
  <2>2. PICK pc \in {"resume", "interrupt"} : Goto("api", pc)
    BY <1>5 DEF HijackProcessEvents
  <2> QED BY <1>1, <1>5, <2>1, <2>2, GotoKeeps DEF HijackProcessEvents, Pcs
<1>6. ASSUME CallUndoes PROVE IInv'
  <2>1. DataOK' /\ call # "none"
    BY <1>1, <1>6 DEF CallUndoes, SetStopped, Return, DataOK, HeldOK, At
  <2>2. PICK pc \in {"idle", "restore"} : Goto("api", pc) /\ (call' = "none" => pc = "idle")
    BY <1>6, <2>1 DEF CallUndoes
  <2> QED BY <1>1, <1>6, <2>1, <2>2, GotoKeeps DEF CallUndoes, Pcs
<1>7. ASSUME CallEntersWait PROVE IInv'
  <2>1. DataOK' /\ call' # "none"
    BY <1>1, <1>7 DEF CallEntersWait, DataOK, HeldOK, At
  <2>2. PICK pc \in {"restore", "wait"} : Goto("api", pc)
    BY <1>7 DEF CallEntersWait
  <2> QED BY <1>1, <1>7, <2>1, <2>2, GotoKeeps DEF CallEntersWait, Pcs
<1>8. ASSUME WaitReleasesLock PROVE IInv'
  <2>1. DataOK' /\ call' # "none"
    BY <1>1, <1>8 DEF WaitReleasesLock, SetStopped, DataOK, HeldOK, At
  <2> QED BY <1>1, <1>8, <2>1, GotoKeeps DEF WaitReleasesLock, Pcs
<1>9. ASSUME DestroyJoins PROVE IInv'
  <2>1. DataOK' /\ call' # "none"
    BY <1>1, <1>9 DEF DestroyJoins, DataOK, HeldOK, At
  <2> QED BY <1>1, <1>9, <2>1, GotoKeeps DEF DestroyJoins, Pcs
<1>10. ASSUME DestroyReturns PROVE IInv'
  <2>1. DataOK'
    BY <1>1, <1>10 DEF DestroyReturns, SetStopped, Return, DataOK
  <2> QED BY <1>1, <1>10, <2>1, GotoKeeps DEF DestroyReturns, Pcs
<1>11. ASSUME DoDestroy PROVE IInv'
  <2>1. private_queue' \in Seq(Event)
    BY <1>1, <1>11, StateMeans DEF DoDestroy, SetExitStatus, States
  <2>2. DataOK' /\ call' # "none"
    BY <1>1, <1>11, <2>1 DEF DoDestroy, SetExitStatus, SetPrivateState, DataOK, HeldOK, At, States
  <2> QED BY <1>1, <1>11, <2>2, GotoKeeps DEF DoDestroy, Pcs
<1>12. ASSUME StopAsyncThread PROVE IInv'
  <2>1. DataOK' /\ call' # "none"
    BY <1>1, <1>12 DEF StopAsyncThread, DataOK, HeldOK, At
  <2> QED BY <1>1, <1>12, <2>1, GotoKeeps DEF StopAsyncThread, Pcs
<1> QED BY <1>2, <1>3, <1>4, <1>5, <1>6, <1>7, <1>8, <1>9, <1>10, <1>11, <1>12

(* Steps that keep every thread where it is.                                *)
LEMMA ThreadsStay ==
  ASSUME IInv, thread' = thread, call' = call, DataOK', ExitInv'
  PROVE  IInv'
BY DEF IInv, ThreadOK, HeldOK, At, Held

(* A broadcast to the public listener or to the hijacker.                   *)
LEMMA BroadcastMeans ==
  ASSUME DataOK, NEW e \in Event, BroadcastEvent(e)
  PROVE  /\ public_queue' \in Seq(Event) /\ hijack_queue' \in Seq(Event)
         /\ \A E : /\ One(public_queue, E) /\ (e \in E => ~Has(public_queue, E)) => One(public_queue', E)
                   /\ One(hijack_queue, E) /\ (e \in E => ~Has(hijack_queue, E)) => One(hijack_queue', E)
         /\ \E b \in {"public", "hijack"} : \A E :
              /\ Has(public_queue', E) => Has(public_queue, E) \/ (b = "public" /\ e \in E)
              /\ Has(hijack_queue', E) => Has(hijack_queue, E) \/ (b = "hijack" /\ e \in E)
<1>1. public_queue \in Seq(Event) /\ hijack_queue \in Seq(Event)
  BY DEF DataOK
<1>2. CASE hijack = "none"
  <2>1. public_queue' = Append(public_queue, e) /\ hijack_queue' = hijack_queue
    BY <1>2 DEF BroadcastEvent
  <2>2. /\ public_queue' \in Seq(Event)
        /\ \A E : Has(public_queue', E) => Has(public_queue, E) \/ e \in E
        /\ \A E : One(public_queue, E) /\ (e \in E => ~Has(public_queue, E)) => One(public_queue', E)
    BY <1>1, <2>1, QueueAppend
  <2> QED BY <1>1, <2>1, <2>2
<1>3. CASE hijack # "none"
  <2>1. hijack_queue' = Append(hijack_queue, e) /\ public_queue' = public_queue
    BY <1>3 DEF BroadcastEvent
  <2>2. /\ hijack_queue' \in Seq(Event)
        /\ \A E : Has(hijack_queue', E) => Has(hijack_queue, E) \/ e \in E
        /\ \A E : One(hijack_queue, E) /\ (e \in E => ~Has(hijack_queue, E)) => One(hijack_queue', E)
    BY <1>1, <2>1, QueueAppend
  <2> QED BY <1>1, <2>1, <2>2
<1> QED BY <1>2, <1>3

(* An exit that is broadcast has left the thread that held it.              *)
LEMMA ExitBroadcast ==
  ASSUME IInv, NEW e \in Event, BroadcastEvent(e), NEW t \in Threads,
         e \in Exits => thread[t].event \in Exits, thread'[t].event \notin Exits,
         \A u \in Threads \ {t} : thread'[u] = thread[u],
         t = "pst" => At("pst", "broadcast") /\ (e \in Exits => PstEnds')
  PROVE  ExitInv'
<1>1. PICK b \in {"public", "hijack"} :
        /\ Has(public_queue', Exits) => Has(public_queue, Exits) \/ (b = "public" /\ e \in Exits)
        /\ Has(hijack_queue', Exits) => Has(hijack_queue, Exits) \/ (b = "hijack" /\ e \in Exits)
  BY BroadcastMeans DEF IInv
<1>2. ExitInv /\ DataOK /\ t # b
  BY DEF IInv, Threads
<1>3. e \in Exits => ~Has(public_queue, Exits) /\ ~Has(hijack_queue, Exits)
  BY ExitMeans DEF IInv, ExitInv, AtMostOne, Threads
<1>4. One(public_queue', Exits) /\ One(hijack_queue', Exits)
  BY <1>2, <1>3, BroadcastMeans DEF ExitInv
<1>5. \A p \in ExitPlaces' : p # b => p \in ExitPlaces
  BY <1>1, ExitMeans DEF Threads
<1>6. b \in ExitPlaces' => b \in ExitPlaces \/ (t \in ExitPlaces /\ t \notin ExitPlaces')
  BY <1>1, <1>2, ExitMeans
<1>7. CASE t # "pst"
  <2>1. thread'["pst"] = thread["pst"]
    BY <1>7 DEF Threads
  <2> QED BY <1>2, <1>4, <1>5, <1>6, <2>1, ExitMoves
<1>8. CASE t = "pst"
  <2>1. e \notin Exits => ExitPlaces' = {}
    <3> SUFFICES ASSUME e \notin Exits, ExitPlaces' # {} PROVE FALSE
      OBVIOUS
    <3>1. ExitPlaces # {} /\ b \in ExitPlaces' => b \in ExitPlaces
      BY <1>1, <1>5, ExitMeans
    <3>2. ExitPlaces # {} /\ thread["pst"].pc = "broadcast"
      BY <1>1, <1>5, <1>8, ExitMeans DEF At
    <3>3. "pst" \in ExitPlaces
      BY <1>2, <3>2 DEF ExitInv, PstEnds
    <3>4. \E p \in ExitPlaces' : p # "pst" /\ p \in ExitPlaces
      BY <1>1, <1>5, <1>8, ExitMeans DEF Threads
    <3> QED BY <1>2, <3>3, <3>4 DEF ExitInv, AtMostOne
  <2> QED BY <1>2, <1>4, <1>5, <1>6, <1>8, <2>1, ExitMoves
<1> QED BY <1>7, <1>8

(* The plugin changes nothing but its own state and the private one.        *)
LEMMA InferiorKeeps ==
  ASSUME IInv, AsyncThread \/ InferiorStops \/ InferiorExits \/ DebugserverDies PROVE IInv'
<1> USE DEF vars, inferiorVars, privateVars, publicVars, pstVars, clientVars, callVars
<1>1. /\ DataOK /\ ExitInv /\ "stopped" \in States /\ "running" \in States /\ "exited" \in States
      /\ continues \in Nat /\ stops \in 0 .. MaxStops
  BY DEF IInv, States, DataOK
<1>2. UNCHANGED <<thread, call, public_queue, hijack_queue>>
  BY DEF AsyncThread, AsyncThreadContinues, ContinueLockSuccess, AsyncThreadStops,
         AsyncThreadFails, InferiorStops, InferiorExits, DebugserverDies
<1>3. DataOK'
  <2>1. CASE AsyncThreadContinues
    <3>1. private_queue' \in Seq(Event) /\ m_private_state' = "running"
      BY <1>1, <2>1, StateMeans DEF AsyncThreadContinues
    <3>2. void' \subseteq {"run lock", "interrupt"}
      BY <1>1, <2>1 DEF AsyncThreadContinues, VoidIf, DataOK
    <3>3. continues' \in Nat
      <4>1. continues > 0 /\ continues' = continues - 1
        BY <2>1 DEF AsyncThreadContinues
      <4> QED BY <1>1, <4>1
    <3> QED BY <1>1, <2>1, <3>1, <3>2, <3>3 DEF AsyncThreadContinues, DataOK
  <2>2. CASE AsyncThreadStops
    <3>1. private_queue' \in Seq(Event) /\ m_private_state' = "stopped"
      BY <1>1, <2>2, StateMeans DEF AsyncThreadStops
    <3> QED BY <1>1, <2>2, <3>1 DEF AsyncThreadStops, DataOK
  <2>3. CASE AsyncThreadFails \/ InferiorExits \/ DebugserverDies
    <3>1. SetExitStatus
      BY <2>3 DEF AsyncThreadFails, InferiorExits, DebugserverDies
    <3>2. private_queue' \in Seq(Event) /\ m_private_state' = "exited"
      BY <1>1, <3>1, StateMeans DEF SetExitStatus
    <3> QED BY <1>1, <2>3, <3>1, <3>2
         DEF AsyncThreadFails, InferiorExits, DebugserverDies, SetExitStatus, DataOK
  <2>4. CASE ContinueLockSuccess
    BY <1>1, <2>4 DEF ContinueLockSuccess, DataOK
  <2>5. CASE InferiorStops
    <3>1. stops' \in 0 .. MaxStops
      BY <1>1, <2>5, ProcessAssumption DEF InferiorStops
    <3> QED BY <1>1, <2>5, <3>1 DEF InferiorStops, DataOK
  <2> QED BY <2>1, <2>2, <2>3, <2>4, <2>5 DEF AsyncThread
<1>4. ExitInv'
  BY <1>1, <1>2, ExitStays
<1> QED BY <1>2, <1>3, <1>4, ThreadsStay

(* An interrupt is sent to the private state thread or to the public.       *)
LEMMA InterruptMeans ==
  ASSUME IInv, SendAsyncInterrupt, thread'["pst"] = thread["pst"],
         \A t \in Threads : thread'[t].event = thread[t].event
  PROVE  /\ private_queue' \in Seq(Event)
         /\ public_queue' \in Seq(Event) /\ hijack_queue' \in Seq(Event)
         /\ ExitInv'
<1>1. NewEvent("interrupt") \in Event /\ NewEvent("interrupt") \notin Exits /\ private_queue \in Seq(Event)
  BY NewEvents DEF IInv, DataOK, Exits
<1>2. CASE PrivateStateThreadIsValid
  <2>1. /\ private_queue' = Append(private_queue, NewEvent("interrupt"))
        /\ UNCHANGED <<public_queue, hijack_queue>>
    BY <1>2 DEF SendAsyncInterrupt
  <2>3. ExitInv'
    BY <2>1, ExitStays DEF IInv
  <2> QED BY <1>1, <2>1, <2>3, QueueAppend DEF IInv, DataOK
<1>3. CASE ~PrivateStateThreadIsValid
  <2>1. BroadcastEvent(NewEvent("interrupt")) /\ private_queue' = private_queue
    BY <1>3 DEF SendAsyncInterrupt
  <2>4. One(public_queue', Exits) /\ One(hijack_queue', Exits)
    BY <1>1, <2>1, BroadcastMeans DEF IInv, ExitInv
  <2>5. /\ Has(public_queue', Exits) => Has(public_queue, Exits)
        /\ Has(hijack_queue', Exits) => Has(hijack_queue, Exits)
    BY <1>1, <2>1, BroadcastMeans DEF IInv
  <2>6. \A p \in ExitPlaces' : p \in ExitPlaces
    BY <2>1, <2>5, ExitMeans DEF Threads
  <2>7. ExitInv'
    BY <2>4, <2>6, ExitMoves DEF IInv
  <2>8. public_queue' \in Seq(Event) /\ hijack_queue' \in Seq(Event)
    BY <1>1, <2>1, BroadcastMeans DEF IInv
  <2> QED BY <1>1, <2>1, <2>7, <2>8
<1> QED BY <1>2, <1>3

(* Clients that look, and interrupts.                                       *)
LEMMA ClientsKeep ==
  ASSUME IInv, ReadTryLock \/ LockAPIMutex \/ ReadUnlock \/ AsyncInterrupt \/ CallInterrupts PROVE IInv'
<1> USE DEF vars, inferiorVars, privateVars, publicVars, pstVars, clientVars, callVars
<1>1. DataOK /\ ExitInv /\ ThreadOK
  BY DEF IInv
<1>2. CASE ReadTryLock \/ LockAPIMutex \/ ReadUnlock
  <2>1. DataOK'
    <3>1. looks' \in 0 .. MaxLooks
      <4>1. looks \in 0 .. MaxLooks /\ MaxLooks \in Nat
        BY <1>1, ProcessAssumption DEF DataOK
      <4>2. (looks < MaxLooks /\ looks' = looks + 1) \/ looks' = looks
        BY <1>2 DEF ReadTryLock, LockAPIMutex, ReadUnlock
      <4> QED BY <4>1, <4>2
    <3> QED BY <1>1, <1>2, <3>1 DEF ReadTryLock, LockAPIMutex, ReadUnlock, DataOK
  <2>2. UNCHANGED <<public_queue, hijack_queue, thread, call>>
    BY <1>2 DEF ReadTryLock, LockAPIMutex, ReadUnlock
  <2>3. ExitInv'
    BY <1>1, <2>2, ExitStays
  <2> QED BY <2>1, <2>2, <2>3, ThreadsStay
<1>3. CASE AsyncInterrupt
  <2>1. /\ private_queue' \in Seq(Event) /\ public_queue' \in Seq(Event)
        /\ hijack_queue' \in Seq(Event) /\ ExitInv'
    BY <1>3, InterruptMeans DEF AsyncInterrupt
  <2>2. DataOK'
    <3>1. calls' \in 0 .. MaxCalls
      <4>1. calls \in 0 .. MaxCalls /\ MaxCalls \in Nat
        BY <1>1, ProcessAssumption DEF DataOK
      <4>2. calls < MaxCalls /\ calls' = calls + 1
        BY <1>3 DEF AsyncInterrupt
      <4> QED BY <4>1, <4>2
    <3> QED BY <1>1, <1>3, <2>1, <3>1 DEF AsyncInterrupt, DataOK
  <2> QED BY <1>3, <2>1, <2>2, ThreadsStay DEF AsyncInterrupt
<1>4. CASE CallInterrupts
  <2>1. "api" \in Threads /\ "enter" \in Pcs["api"] /\ Goto("api", "enter")
    BY <1>4 DEF CallInterrupts, Threads, Pcs
  <2>2. /\ ThreadOK' /\ thread'["api"].pc = "enter" /\ thread'["api"].event = thread["api"].event
        /\ \A u \in Threads \ {"api"} : thread'[u] = thread[u]
    BY <1>1, <2>1, GotoMeans
  <2>3. /\ private_queue' \in Seq(Event) /\ public_queue' \in Seq(Event)
        /\ hijack_queue' \in Seq(Event) /\ ExitInv'
    BY <1>4, <2>2, InterruptMeans DEF CallInterrupts, Threads
  <2>4. DataOK'
    BY <1>1, <1>4, <2>3 DEF CallInterrupts, DataOK
  <2>5. HeldOK'
    BY <1>4, <2>2 DEF IInv, HeldOK, CallInterrupts, At, Held, Threads
  <2> QED BY <2>2, <2>3, <2>4, <2>5 DEF IInv
<1> QED BY <1>2, <1>3, <1>4

(* An event that is removed goes from its queue to the thread, or nowhere.  *)
LEMMA RemovalKeeps ==
  ASSUME IInv, HandlerRemoves \/ CallRemoves PROVE IInv'
<1> USE DEF vars, inferiorVars, privateVars, publicVars, pstVars, clientVars, callVars
<1>1. /\ DataOK /\ ExitInv /\ ThreadOK /\ HeldOK /\ NoEvent \notin Exits
      /\ public_queue \in Seq(Event) /\ hijack_queue \in Seq(Event)
  BY NewEvents DEF IInv, DataOK, Exits
<1>2. \A e \in Event : e.state # "interrupt" => e.state \in States
  BY DEF Event
<1>3. CASE HandlerRemoves
  <2> DEFINE e == Head(public_queue)
  <2>1. /\ public_queue # <<>> /\ public_queue' = Tail(public_queue) /\ SetPublicState("handler", e)
        /\ At("handler", "idle")
        /\ UNCHANGED <<hijack_queue, call>>
    BY <1>3 DEF HandlerRemoves
  <2>2. /\ public_queue' \in Seq(Event) /\ e \in Event
        /\ Has(public_queue', Exits) => Has(public_queue, Exits)
        /\ e \in Exits => Has(public_queue, Exits)
        /\ One(public_queue', Exits) /\ (e \in Exits => ~Has(public_queue', Exits))
    BY <1>1, <2>1, QueueTail DEF ExitInv
  <2> HIDE DEF e
  <2>3. DataOK'
    BY <1>1, <1>2, <1>3, <2>1, <2>2 DEF HandlerRemoves, SetPublicState, DataOK
  <2>4. CASE e.state = "interrupt"
    <3>1. thread' = thread
      BY <2>1, <2>4 DEF SetPublicState
    <3>2. \A p \in ExitPlaces' : p \in ExitPlaces
      BY <2>1, <2>2, <3>1, ExitMeans DEF Threads
    <3>3. ExitInv'
      BY <1>1, <2>1, <2>2, <3>1, <3>2, ExitMoves DEF ExitInv
    <3> QED BY <2>1, <2>3, <3>1, <3>3, ThreadsStay
  <2>5. CASE e.state # "interrupt"
    <3>1. PICK pc \in {"unlock", "act"} : GotoWith("handler", pc, e)
      BY <2>1, <2>5 DEF SetPublicState
    <3>2. /\ ThreadOK' /\ thread'["handler"].pc = pc /\ thread'["handler"].event = e
          /\ \A u \in Threads \ {"handler"} : thread'[u] = thread[u]
      BY <1>1, <2>2, <3>1, GotoWithMeans DEF Threads, Pcs
    <3>3. \A p \in ExitPlaces' : p # "handler" => p \in ExitPlaces
      BY <2>1, <2>2, <3>2, ExitMeans DEF Threads
    <3>4. "handler" \in ExitPlaces' => "public" \in ExitPlaces /\ "public" \notin ExitPlaces'
      BY <2>2, <3>2, ExitMeans DEF Threads
    <3>7. thread'["pst"] = thread["pst"] /\ One(hijack_queue', Exits)
      BY <1>1, <2>1, <3>2 DEF Threads, ExitInv
    <3>5. ExitInv'
      BY <1>1, <2>2, <3>3, <3>4, <3>7, ExitMoves
    <3>6. HeldOK'
      BY <1>1, <2>1, <3>2 DEF HeldOK, At, Held, Threads
    <3> QED BY <2>3, <3>2, <3>5, <3>6 DEF IInv
  <2> QED BY <2>4, <2>5
<1>4. CASE CallRemoves
  <2> DEFINE e == Head(hijack_queue)
  <2>1. /\ hijack_queue # <<>> /\ hijack_queue' = Tail(hijack_queue) /\ SetPublicState("api", e)
        /\ At("api", "wait")
        /\ UNCHANGED <<public_queue, call>>
    BY <1>4 DEF CallRemoves
  <2>2. /\ hijack_queue' \in Seq(Event) /\ e \in Event
        /\ Has(hijack_queue', Exits) => Has(hijack_queue, Exits)
        /\ e \in Exits => Has(hijack_queue, Exits)
        /\ One(hijack_queue', Exits) /\ (e \in Exits => ~Has(hijack_queue', Exits))
    BY <1>1, <2>1, QueueTail DEF ExitInv
  <2> HIDE DEF e
  <2>3. DataOK'
    BY <1>1, <1>2, <1>4, <2>1, <2>2 DEF CallRemoves, SetPublicState, DataOK
  <2>4. PICK pc \in {"unlock", "act", "restore"}, f \in {e, NoEvent} : GotoWith("api", pc, f)
    BY <2>1 DEF SetPublicState
  <2>5. /\ ThreadOK' /\ thread'["api"].pc = pc /\ thread'["api"].event = f
        /\ \A u \in Threads \ {"api"} : thread'[u] = thread[u]
    BY <1>1, <2>2, <2>4, GotoWithMeans DEF Threads, Pcs
  <2>6. \A p \in ExitPlaces' : p # "api" => p \in ExitPlaces
    BY <2>1, <2>2, <2>5, ExitMeans DEF Threads
  <2>7. "api" \in ExitPlaces' => "hijack" \in ExitPlaces /\ "hijack" \notin ExitPlaces'
    BY <1>1, <2>2, <2>5, ExitMeans DEF Threads
  <2>8. ExitInv'
    BY <1>1, <2>1, <2>2, <2>5, <2>6, <2>7, ExitMoves DEF ExitInv, Threads
  <2>9. HeldOK'
    BY <1>1, <2>1, <2>5 DEF HeldOK, At, Held, Threads
  <2> QED BY <2>3, <2>5, <2>8, <2>9 DEF IInv
<1> QED BY <1>3, <1>4

(* The actions of a stop.                                                   *)
LEMMA ActionsKeep ==
  ASSUME IInv, NEW t \in {"api", "handler"}, SetPublicStateUnlocks(t) \/ PerformActions(t)
  PROVE  IInv'
<1> USE DEF vars, inferiorVars, privateVars, publicVars, pstVars, clientVars, callVars
<1>1. DataOK /\ ExitInv /\ ThreadOK /\ HeldOK /\ t \in Threads /\ NoEvent \notin Exits
  BY NewEvents DEF IInv, Threads, Exits
<1>2. CASE SetPublicStateUnlocks(t)
  <2>1. DataOK' /\ Goto(t, "act")
    BY <1>1, <1>2 DEF SetPublicStateUnlocks, SetStopped, DataOK
  <2>3. "act" \in Pcs[t]
    BY DEF Pcs
  <2>2. t = "api" => call # "none"
    BY <1>1, <1>2 DEF SetPublicStateUnlocks, HeldOK, At
  <2> QED BY <1>1, <1>2, <2>1, <2>2, <2>3, GotoKeeps DEF SetPublicStateUnlocks
<1>3. CASE PerformActions(t)
  <2> DEFINE e == Held(t)
  <2>1. PICK f \in {e, [e EXCEPT !.restarted = TRUE]} :
          /\ AfterRemoval(t, f) /\ (f # e => e.state = "stopped")
          /\ \/ UNCHANGED <<privateVars, inferiorVars, void>>
             \/ \E outcome \in ResumeOutcomes(ContinueFaults) :
                  /\ PrivateResume(outcome, private_queue)
                  /\ VoidIf(ActionResumes(t, outcome), {"run lock"})
    BY <1>3 DEF PerformActions
  <2>2. e \in Event \union {NoEvent} /\ (e \in Exits <=> thread[t].event \in Exits)
    BY <1>1 DEF Held, ThreadOK
  <2>3. f \in Event \union {NoEvent} /\ (f \in Exits => e \in Exits)
    <3> HIDE DEF e
    <3>1. CASE f = e
      BY <2>2, <3>1
    <3>2. CASE f # e
      <4>2. e.state = "stopped"
        BY <2>1, <3>2
      <4>1. e \in Event
        BY <2>2, <4>2 DEF NoEvent
      <4> QED BY <2>1, <3>2, <4>1, NewEvents DEF Exits
    <3> QED BY <3>1, <3>2
  <2> HIDE DEF e
  <2>5. DataOK'
    <3>1. CASE UNCHANGED <<privateVars, inferiorVars, void>>
      BY <1>1, <1>3, <3>1 DEF PerformActions, DataOK
    <3>2. ASSUME NEW outcome \in ResumeOutcomes(ContinueFaults), PrivateResume(outcome, private_queue),
                 VoidIf(ActionResumes(t, outcome), {"run lock"})
          PROVE  DataOK'
      <4>1. private_queue \in Seq(Event) /\ void' \subseteq {"run lock", "interrupt"}
        BY <1>1, <3>2 DEF DataOK, VoidIf
      <4>2. /\ m_private_state' \in States /\ private_queue' \in Seq(Event)
            /\ async' \in {"idle", "lock", "running", "stopped", "dead"} /\ continues' \in Nat
            /\ stops' \in 0 .. MaxStops /\ UNCHANGED <<connected, halting>>
        BY <1>1, <3>2, <4>1, ResumeMeans
      <4> QED BY <1>1, <1>3, <4>1, <4>2 DEF PerformActions, DataOK
    <3> QED BY <2>1, <3>1, <3>2
  <2>6. PICK pc \in Pcs[t], g \in {f, NoEvent} : /\ GotoWith(t, pc, g) /\ (pc # "idle" \/ t = "handler")
                                                /\ pc \in {"idle", "wait", "released"}
    <3>1. AfterRemoval(t, f)
      BY <2>1
    <3> HIDE DEF e
    <3> QED BY <1>1, <3>1 DEF AfterRemoval, Pcs
  <2>7. /\ ThreadOK' /\ thread'[t].pc = pc /\ thread'[t].event = g
        /\ \A u \in Threads \ {t} : thread'[u] = thread[u]
    BY <1>1, <2>3, <2>6, GotoWithMeans
  <2>8. ExitInv'
    BY <1>1, <1>3, <2>2, <2>3, <2>7, ExitStays DEF PerformActions, Threads
  <2>9. HeldOK'
    BY <1>1, <1>3, <2>6, <2>7 DEF PerformActions, HeldOK, At, Held, Threads
  <2> QED BY <2>5, <2>7, <2>8, <2>9 DEF IInv
<1> QED BY <1>2, <1>3

(* The calls that resume, give up waiting, or go on after it.               *)
LEMMA ReturnsKeep ==
  ASSUME IInv, CallResumes \/ CallTimesOut \/ CallRestores \/ HaltBroadcasts
               \/ DestroyForwards
  PROVE  IInv'
<1> USE DEF vars, inferiorVars, privateVars, publicVars, pstVars, clientVars, callVars
<1>1. /\ DataOK /\ ExitInv /\ ThreadOK /\ HeldOK /\ "api" \in Threads /\ NoEvent \notin Exits
      /\ private_queue \in Seq(Event)
      /\ Held("api") \in Event \union {NoEvent} /\ Held("api") = thread["api"].event
  BY NewEvents DEF IInv, DataOK, ExitInv, ThreadOK, Threads, Exits, Held
<1>2. CASE CallResumes
  <2>1. PICK outcome \in ResumeOutcomes(ResumeFaults) :
          /\ PrivateResume(outcome, private_queue)
          /\ VoidIf(LateResume(outcome), {"run lock"})
          /\ CASE outcome \in {"error", "timeout"} -> Goto("api", "undo") /\ UNCHANGED callVars
               [] outcome \in {"ok", "fake"} /\ call = "Resume" -> Goto("api", "idle") /\ Return
               [] OTHER -> Goto("api", "enter") /\ UNCHANGED callVars
    BY <1>2 DEF CallResumes
  <2>2. /\ m_private_state' \in States /\ private_queue' \in Seq(Event)
        /\ async' \in {"idle", "lock", "running", "stopped", "dead"} /\ continues' \in Nat
        /\ stops' \in 0 .. MaxStops /\ UNCHANGED <<connected, halting>>
        /\ outcome \in {"ok", "fake", "error", "timeout"}
    BY <1>1, <2>1, ResumeMeans
  <2>3. call # "none" /\ \A c \in Calls : c # "none"
    BY <1>1, <1>2, ProcessAssumption DEF CallResumes, HeldOK, At
  <2>4. PICK pc \in {"undo", "idle", "enter"} :
          /\ Goto("api", pc) /\ UNCHANGED <<hijack, joined, calls>> /\ call' \in {call, "none"}
          /\ call' = "none" => pc = "idle"
    BY <2>1, <2>2, <2>3 DEF Return
  <2>9. void' \subseteq {"run lock", "interrupt"}
    BY <1>1, <2>1 DEF VoidIf, DataOK
  <2>5. DataOK'
    BY <1>1, <1>2, <2>2, <2>4, <2>9 DEF CallResumes, DataOK
  <2>6. /\ ThreadOK' /\ thread'["api"].pc = pc /\ thread'["api"].event = thread["api"].event
        /\ \A u \in Threads \ {"api"} : thread'[u] = thread[u]
    BY <1>1, <2>4, GotoMeans DEF Pcs
  <2>7. HeldOK'
    BY <1>1, <2>4, <2>6 DEF HeldOK, At, Held, Threads
  <2>8. ExitInv'
    BY <1>1, <1>2, <2>6, ExitStays DEF CallResumes, Threads
  <2> QED BY <2>5, <2>6, <2>7, <2>8 DEF IInv
<1>3. CASE CallTimesOut
  <2>1. PICK f \in {NoEvent, Held("api")} : GotoWith("api", "restore", f)
    BY <1>3 DEF CallTimesOut
  <2>2. /\ ThreadOK' /\ thread'["api"].pc = "restore" /\ thread'["api"].event = f
        /\ \A u \in Threads \ {"api"} : thread'[u] = thread[u]
    BY <1>1, <2>1, GotoWithMeans DEF Pcs
  <2>3. DataOK'
    BY <1>1, <1>3 DEF CallTimesOut, DataOK
  <2>4. HeldOK'
    BY <1>1, <1>3, <2>2 DEF CallTimesOut, HeldOK, At, Held, Threads
  <2>5. ExitInv'
    BY <1>1, <1>3, <2>1, <2>2, ExitStays DEF CallTimesOut, Threads
  <2> QED BY <2>2, <2>3, <2>4, <2>5 DEF IInv
<1>4. CASE CallRestores
  <2>1. /\ call # "none" /\ (call = "Halt" => call # "Destroy")
        /\ hijack' = "none" /\ hijack_queue' = <<>>
        /\ UNCHANGED <<joined, calls, public_queue>>
        /\ void' \subseteq {"run lock", "interrupt"}
    BY <1>1, <1>4 DEF CallRestores, HeldOK, At, VoidIf, DataOK
  <2>2. PICK pc \in {"again", "kill", "idle"}, f \in {Held("api"), NoEvent} :
          /\ GotoWith("api", pc, f) \/ (Goto("api", pc) /\ f = Held("api"))
          /\ pc = "again" => f = Held("api") /\ f # NoEvent
          /\ call' \in {call, "none"} /\ (call' = "none" => pc = "idle")
    BY <1>4, <2>1 DEF CallRestores
  <2>3. /\ ThreadOK' /\ thread'["api"].pc = pc /\ thread'["api"].event = f
        /\ \A u \in Threads \ {"api"} : thread'[u] = thread[u]
    <3>1. pc \in Pcs["api"] /\ f \in Event \union {NoEvent}
      BY <1>1, <2>2 DEF Pcs
    <3>2. CASE GotoWith("api", pc, f)
      BY <1>1, <3>1, <3>2, GotoWithMeans
    <3>3. CASE Goto("api", pc) /\ f = Held("api")
      BY <1>1, <3>1, <3>3, GotoMeans
    <3> QED BY <2>2, <3>2, <3>3
  <2>4. DataOK'
    BY <1>1, <1>4, <2>1, <2>2, QueueEmpty DEF CallRestores, DataOK
  <2>5. HeldOK'
    BY <1>1, <2>2, <2>3 DEF HeldOK, At, Held, Threads
  <2>6. One(hijack_queue', Exits) /\ ~Has(hijack_queue', Exits)
    BY <2>1, QueueEmpty
  <2>7. \A p \in ExitPlaces' : p \in ExitPlaces
    BY <1>1, <2>1, <2>2, <2>3, <2>6, ExitMeans DEF Threads
  <2>8. ExitInv'
    BY <1>1, <2>1, <2>3, <2>6, <2>7, ExitMoves DEF ExitInv, Threads
  <2> QED BY <2>3, <2>4, <2>5, <2>8 DEF IInv
<1>5. CASE HaltBroadcasts
  <2> DEFINE e == [Held("api") EXCEPT !.again = TRUE]
  <2>1. /\ Held("api") \in Event /\ BroadcastEvent(e) /\ GotoWith("api", "idle", NoEvent)
        /\ call' = "none" /\ UNCHANGED <<hijack, joined, calls>>
        /\ void' \subseteq {"run lock", "interrupt"}
    BY <1>1, <1>5 DEF HaltBroadcasts, HeldOK, Return, VoidIf, DataOK
  <2>6. e \in Event /\ (e \in Exits => Held("api") \in Exits)
    BY <2>1, NewEvents DEF Exits
  <2> HIDE DEF e
  <2>2. /\ ThreadOK' /\ thread'["api"].pc = "idle" /\ thread'["api"].event = NoEvent
        /\ \A u \in Threads \ {"api"} : thread'[u] = thread[u]
    BY <1>1, <2>1, GotoWithMeans DEF Pcs
  <2>7. public_queue' \in Seq(Event) /\ hijack_queue' \in Seq(Event)
    BY <1>1, <2>1, <2>6, BroadcastMeans
  <2>3. DataOK'
    BY <1>1, <1>5, <2>1, <2>7 DEF HaltBroadcasts, DataOK
  <2>4. HeldOK'
    BY <1>1, <2>2 DEF HeldOK, At, Held, Threads
  <2>5. ExitInv'
    BY <1>1, <2>1, <2>2, <2>6, ExitBroadcast
  <2> QED BY <2>2, <2>3, <2>4, <2>5 DEF IInv
<1>6. CASE DestroyForwards
  <2>1. /\ GotoWith("api", "finish", NoEvent) /\ At("api", "forward")
        /\ call' = call
    BY <1>6 DEF DestroyForwards
  <2>2. /\ ThreadOK' /\ thread'["api"].pc = "finish" /\ thread'["api"].event = NoEvent
        /\ \A u \in Threads \ {"api"} : thread'[u] = thread[u]
    BY <1>1, <2>1, GotoWithMeans DEF Pcs
  <2>3. HeldOK'
    BY <1>1, <2>1, <2>2 DEF HeldOK, At, Held, Threads
  <2>4. CASE Held("api") = NoEvent
    <3>1. UNCHANGED <<public_queue, hijack_queue>>
      BY <1>6, <2>4 DEF DestroyForwards
    <3>2. DataOK'
      BY <1>1, <1>6, <3>1 DEF DestroyForwards, DataOK
    <3>3. ExitInv'
      BY <1>1, <2>2, <3>1, ExitStays DEF Threads
    <3> QED BY <2>2, <2>3, <3>2, <3>3 DEF IInv
  <2>5. CASE Held("api") # NoEvent
    <3>1. Held("api") \in Event /\ BroadcastEvent(Held("api"))
      BY <1>1, <1>6, <2>5 DEF DestroyForwards
    <3>2. DataOK'
      BY <1>1, <1>6, <3>1, BroadcastMeans DEF DestroyForwards, DataOK
    <3>3. ExitInv'
      BY <1>1, <2>1, <2>2, <3>1, ExitBroadcast
    <3> QED BY <2>2, <2>3, <3>2, <3>3 DEF IInv
  <2> QED BY <2>4, <2>5
<1> QED BY <1>2, <1>3, <1>4, <1>5, <1>6

(* The private state thread takes an event and forgets it, or keeps it to   *)
(* broadcast it.                                                            *)
LEMMA TakesKeeps ==
  ASSUME IInv, At("pst", "idle"), DataOK', UNCHANGED <<public_queue, hijack_queue, call>>,
         \/ thread' = thread
         \/ \E f \in Event : GotoWith("pst", "broadcast", f)
  PROVE  IInv'
<1>1. DataOK /\ ExitInv /\ ThreadOK /\ HeldOK /\ "pst" \in Threads
  BY DEF IInv, Threads
<1>2. ExitPlaces = {}
  <2>1. thread["pst"].event \notin Exits /\ ~PstEnds
    BY <1>1, NewEvents DEF HeldOK, At, Held, Exits, PstEnds
  <2> QED BY <1>1, <2>1, ExitMeans DEF ExitInv
<1>3. CASE thread' = thread
  <2>1. ExitInv'
    BY <1>1, <1>3, ExitStays
  <2> QED BY <1>3, <2>1, ThreadsStay
<1>4. ASSUME NEW f \in Event, GotoWith("pst", "broadcast", f) PROVE IInv'
  <2>1. /\ ThreadOK' /\ thread'["pst"].pc = "broadcast" /\ thread'["pst"].event = f
        /\ \A u \in Threads \ {"pst"} : thread'[u] = thread[u]
    BY <1>1, <1>4, GotoWithMeans DEF Pcs
  <2>2. HeldOK'
    BY <1>1, <2>1 DEF HeldOK, At, Held, Threads
  <2>3. \A p \in ExitPlaces' : p = "pst"
    BY <1>2, <2>1, ExitMeans DEF Threads
  <2>4. AtMostOne(ExitPlaces)' /\ (ExitPlaces' # {} => "pst" \in ExitPlaces')
    BY <2>3 DEF AtMostOne
  <2>5. ExitInv'
    BY <1>1, <2>4 DEF ExitInv
  <2> QED BY <2>1, <2>2, <2>5 DEF IInv
<1> QED BY <1>3, <1>4

(* The private state thread passes the exit on.                             *)
LEMMA PrivateThreadKeeps ==
  ASSUME IInv, RunPrivateStateThread PROVE IInv'
<1> USE DEF vars, inferiorVars, privateVars, publicVars, pstVars, clientVars, callVars
<1>1. /\ DataOK /\ ExitInv /\ ThreadOK /\ HeldOK /\ "pst" \in Threads /\ NoEvent \notin Exits
      /\ private_queue \in Seq(Event)
  BY NewEvents DEF IInv, DataOK, ExitInv, Threads, Exits
<1> DEFINE h == Head(private_queue)
           t == Tail(private_queue)
<1>2. ASSUME private_queue # <<>>
      PROVE  h \in Event /\ t \in Seq(Event) /\ h.state \in States \union {"interrupt"}
  BY <1>1, <1>2, QueueTail DEF Event
<1>3. CASE TakesInterrupt
  <2>1. Takes("interrupt") /\ private_queue' = t /\ thread' = thread
    BY <1>3 DEF TakesInterrupt
  <2>3. /\ halting' \in BOOLEAN /\ interrupt_requested' \in BOOLEAN
        /\ void' \subseteq {"run lock", "interrupt"}
    BY <1>1, <1>3 DEF TakesInterrupt, VoidIf, DataOK
  <2>2. DataOK'
    BY <1>1, <1>2, <1>3, <2>1, <2>3 DEF TakesInterrupt, Takes, DataOK
  <2> QED BY <1>3, <2>1, <2>2, TakesKeeps DEF TakesInterrupt, Takes
<1>4. CASE TakesRunning \/ TakesStop \/ TakesExit \/ TakesInterruptedStop
  <2>1. PICK s \in {"running", "stopped", "exited"} : Takes(s) /\ private_queue' = t
    BY <1>4 DEF TakesRunning, TakesStop, TakesExit, TakesInterruptedStop
  <2>2. PICK f \in {h, [h EXCEPT !.interrupted = TRUE]} :
          (thread' = thread /\ m_last_broadcast_state' = m_last_broadcast_state) \/ Broadcasts(f)
    BY <1>4 DEF TakesRunning, TakesStop, TakesExit, TakesInterruptedStop, Suppresses
  <2>3. private_queue # <<>> /\ h \in Event /\ h.state = s
    BY <1>2, <2>1 DEF Takes
  <2> HIDE DEF h
  <2>4. f \in Event /\ f.state = s
    BY <2>2, <2>3, NewEvents
  <2>5. DataOK'
    <3>1. m_last_broadcast_state' \in States
      BY <1>1, <2>2, <2>4 DEF Broadcasts, DataOK, States
    <3>2. interrupt_requested' \in BOOLEAN
      BY <1>1, <1>4 DEF TakesRunning, TakesStop, TakesExit, TakesInterruptedStop, DataOK
    <3>3. UNCHANGED <<m_private_state, publicVars, inferiorVars, clientVars, callVars>>
      BY <1>4 DEF TakesRunning, TakesStop, TakesExit, TakesInterruptedStop
    <3> QED BY <1>1, <1>2, <2>1, <2>3, <3>1, <3>2, <3>3 DEF DataOK
  <2>6. UNCHANGED <<public_queue, hijack_queue, call>>
    BY <1>4 DEF TakesRunning, TakesStop, TakesExit, TakesInterruptedStop
  <2>7. thread' = thread \/ GotoWith("pst", "broadcast", f)
    BY <2>2 DEF Broadcasts
  <2> QED BY <2>1, <2>4, <2>5, <2>6, <2>7, TakesKeeps DEF Takes
<1>5. CASE TakesStopAndResumes
  <2>1. /\ Takes("stopped")
        /\ \E outcome \in ResumeOutcomes(ContinueFaults) :
             /\ PrivateResume(outcome, t)
             /\ VoidIf(ContinueFails(outcome), {"run lock", "interrupt"})
        /\ UNCHANGED <<interrupt_requested, publicVars, looker, looks, callVars>>
        /\ Suppresses \/ Broadcasts([h EXCEPT !.restarted = TRUE])
    BY <1>5 DEF TakesStopAndResumes
  <2>2. private_queue # <<>> /\ h \in Event /\ h.state = "stopped" /\ t \in Seq(Event)
    BY <1>2, <2>1 DEF Takes
  <2>3. /\ m_private_state' \in States /\ private_queue' \in Seq(Event)
        /\ async' \in {"idle", "lock", "running", "stopped", "dead"} /\ continues' \in Nat
        /\ stops' \in 0 .. MaxStops /\ UNCHANGED <<connected, halting>>
    <3> HIDE DEF t
    <3> QED BY <1>1, <2>1, <2>2, ResumeMeans
  <2>8. void' \subseteq {"run lock", "interrupt"}
    BY <1>1, <2>1 DEF VoidIf, DataOK
  <2> DEFINE f == [h EXCEPT !.restarted = TRUE]
  <2>5. f \in Event /\ f.state = "stopped"
    BY <2>2, NewEvents
  <2> HIDE DEF f
  <2>6. /\ m_last_broadcast_state' \in States
        /\ thread' = thread \/ GotoWith("pst", "broadcast", f)
    BY <1>1, <2>1, <2>5 DEF Suppresses, Broadcasts, DataOK, States, f
  <2>7. DataOK'
    BY <1>1, <2>1, <2>3, <2>6, <2>8 DEF DataOK
  <2> QED BY <2>1, <2>5, <2>6, <2>7, TakesKeeps DEF Takes
<1>6. CASE BroadcastsPublicly
  <2>1. /\ At("pst", "broadcast") /\ Held("pst") \in Event /\ BroadcastEvent(Held("pst"))
        /\ Held("pst") = thread["pst"].event /\ call' = call
    BY <1>1, <1>6 DEF BroadcastsPublicly, HeldOK, Held
  <2>2. PICK pc \in {"exiting", "idle"} :
          GotoWith("pst", pc, NoEvent) /\ (Held("pst") \in Exits => pc = "exiting")
    BY <1>6 DEF BroadcastsPublicly, Exits
  <2>3. /\ ThreadOK' /\ thread'["pst"].pc = pc /\ thread'["pst"].event = NoEvent
        /\ \A u \in Threads \ {"pst"} : thread'[u] = thread[u]
    BY <1>1, <2>2, GotoWithMeans DEF Pcs
  <2>4. DataOK'
    <3>1. public_queue' \in Seq(Event) /\ hijack_queue' \in Seq(Event)
      BY <1>1, <2>1, BroadcastMeans
    <3> QED BY <1>1, <1>6, <3>1 DEF BroadcastsPublicly, DataOK
  <2>5. HeldOK'
    BY <1>1, <2>1, <2>3 DEF HeldOK, At, Held, Threads
  <2>6. ExitInv'
    BY <1>1, <2>1, <2>2, <2>3, ExitBroadcast DEF PstEnds
  <2> QED BY <2>3, <2>4, <2>5, <2>6 DEF IInv
<1>7. CASE PrivateStateThreadEnds
  <2>1. DataOK'
    BY <1>1, <1>7 DEF PrivateStateThreadEnds, SetStopped, DataOK
  <2> QED BY <1>1, <1>7, <2>1, GotoKeeps DEF PrivateStateThreadEnds, Pcs
<1> QED BY <1>3, <1>4, <1>5, <1>6, <1>7 DEF RunPrivateStateThread

(* Nothing has been reported yet.                                           *)
LEMMA InitOK == Init => IInv
<1> SUFFICES ASSUME Init PROVE IInv
  OBVIOUS
<1>1. DataOK
  <2>1. calls \in 0 .. MaxCalls /\ stops \in 0 .. MaxStops /\ looks \in 0 .. MaxLooks
    BY ProcessAssumption DEF Init
  <2>2. private_queue \in Seq(Event) /\ public_queue \in Seq(Event) /\ hijack_queue \in Seq(Event)
    BY QueueEmpty DEF Init
  <2>3. /\ m_running \in BOOLEAN /\ interrupt_requested \in BOOLEAN
        /\ halting \in BOOLEAN /\ joined \in BOOLEAN
    BY DEF Init
  <2> QED BY <2>1, <2>2, <2>3 DEF Init, DataOK, States
<1>2. ThreadOK /\ \A t \in Threads : thread[t].event = NoEvent /\ thread[t].pc = "idle"
  BY DEF Init, ThreadOK, Threads, Pcs
<1>3. HeldOK
  BY <1>2 DEF HeldOK, At, Held, Threads
<1>4. NoEvent \notin Exits
  BY NewEvents DEF Exits
<1>5. ~Has(public_queue, Exits) /\ ~Has(hijack_queue, Exits)
  BY QueueEmpty DEF Init
<1>6. ExitPlaces = {}
  BY <1>2, <1>4, <1>5 DEF ExitPlaces, Held
<1>7. ExitInv
  BY <1>6, QueueEmpty DEF Init, ExitInv, AtMostOne
<1> QED BY <1>1, <1>2, <1>3, <1>7 DEF IInv

(* Every step keeps the invariant.                                          *)
LEMMA NextOK == ASSUME IInv, [Next]_vars PROVE IInv'
<1>1. CASE UNCHANGED vars
  <2>1. /\ UNCHANGED <<public_queue, hijack_queue, thread, call>>
        /\ DataOK' /\ ExitInv /\ ThreadOK
    BY <1>1 DEF vars, inferiorVars, privateVars, publicVars, pstVars, clientVars, callVars,
                IInv, DataOK
  <2>2. ExitInv'
    BY <2>1, ExitStays
  <2> QED BY <2>1, <2>2, ThreadsStay
<1>2. CASE Next
  BY <1>2, CallsKeep, InferiorKeeps, ClientsKeep, RemovalKeeps, ActionsKeep, ReturnsKeep,
     PrivateThreadKeeps DEF Next, CallSteps, HandlerSteps
<1> QED BY <1>1, <1>2

(* The types of Process for any calls, faults and bounds; in particular     *)
(* Halt and Destroy never broadcast an event they do not have.              *)
THEOREM TypesCorrect == Spec => []TypeOK
<1>1. IInv => TypeOK
  <2> SUFFICES ASSUME IInv PROVE TypeOK
    OBVIOUS
  <2>1. DOMAIN thread = Threads /\ \A t \in Threads : thread[t] \in [pc : Pcs[t], event : Event \union {NoEvent}]
    BY DEF IInv, ThreadOK, Threads, Pcs
  <2> QED BY <2>1 DEF IInv, DataOK, TypeOK
<1> QED BY <1>1, InitOK, NextOK, PTL DEF Spec

(* The private state thread reports the exit at most once, and Halt and     *)
(* Destroy move the report but never copy it, however often SetExitStatus   *)
(* is called and whatever AsyncThread announces behind the exit.            *)
THEOREM ExitReportedOnce == Spec => []ExitOnce
<1>1. IInv => ExitOnce
  <2> SUFFICES ASSUME IInv PROVE ExitOnce
    OBVIOUS
  <2> DEFINE exits(q) == {i \in 1 .. Len(q) : q[i].state = "exited"}
             held == {u \in Threads : Held(u).state = "exited"}
             reported == {<<"public", i>> : i \in exits(public_queue)}
                           \union {<<"hijack", i>> : i \in exits(hijack_queue)}
                           \union {<<"held", t>> : t \in held}
  <2>1. ASSUME NEW q \in Seq(Event), One(q, Exits)
        PROVE  /\ \A i, j \in exits(q) : i = j
               /\ \A i \in exits(q) : Has(q, Exits)
    <3>1. \A i \in 1 .. Len(q) : q[i] \in Event
      BY <2>1
    <3> QED BY <2>1, <3>1 DEF One, Has, Exits
  <2>2. \A t \in held : t \in Threads /\ t \in ExitPlaces
    BY ExitMeans DEF IInv, ThreadOK, Held, NoEvent, Exits
  <2>3. /\ public_queue \in Seq(Event) /\ One(public_queue, Exits)
        /\ hijack_queue \in Seq(Event) /\ One(hijack_queue, Exits)
    BY DEF IInv, DataOK, ExitInv
  <2>4. /\ \A i, j \in exits(public_queue) : i = j
        /\ \A i \in exits(public_queue) : "public" \in ExitPlaces
        /\ \A i, j \in exits(hijack_queue) : i = j
        /\ \A i \in exits(hijack_queue) : "hijack" \in ExitPlaces
    BY <2>1, <2>3, ExitMeans
  <2> HIDE DEF exits, held
  <2>5. \A p, q \in ExitPlaces : p = q
    BY DEF IInv, ExitInv, AtMostOne
  <2>6. "public" \notin Threads /\ "hijack" \notin Threads
    BY DEF Threads
  <2>7. ASSUME NEW x \in reported
        PROVE  \/ /\ "public" \in ExitPlaces /\ \E i \in exits(public_queue) : x = <<"public", i>>
               \/ /\ "hijack" \in ExitPlaces /\ \E i \in exits(hijack_queue) : x = <<"hijack", i>>
               \/ \E t \in Threads : t \in ExitPlaces /\ x = <<"held", t>>
    BY <2>2, <2>4
  <2>8. \A x, y \in reported : x = y
    <3> HIDE DEF reported
    <3> QED BY <2>4, <2>5, <2>6, <2>7
  <2> QED BY <2>8 DEF ExitOnce, exits, held
<1> QED BY <1>1, InitOK, NextOK, PTL DEF Spec

---------------------------------------------------------------------------
(* The connection, and who hijacks the public events *)

(* As long as the plugin is connected, AsyncThread knows what the inferior  *)
(* does, and nothing of the exit has begun.                                 *)
ConnInv ==
  /\ m_private_state = "exited" => ~connected
  /\ connected => /\ async # "dead"
                  /\ (m_private_state = "running") = (async # "idle")
                  /\ ~Has(private_queue, Exits) /\ thread["pst"].event \notin Exits /\ ~PstEnds
                  /\ thread["api"].pc \notin {"stopasync", "join", "forward", "finish"}

(* The call at the points where it must have hijacked the events.           *)
Hijacks ==
  \/ thread["api"].pc \in {"interrupt", "enter", "wait", "unlock", "act"}
  \/ thread["api"].pc = "resume" /\ call # "Resume"

(* Only Halt broadcasts an event again, and in public.                      *)
AgainInv ==
  /\ ~Has(private_queue, Agains) /\ thread["pst"].event \notin Agains
  /\ thread["api"].pc = "again" => hijack = "none"
  /\ Hijacks => hijack # "none"

(* Where the threads go.                                                    *)
LEMMA ThreadsGo ==
  ASSUME ThreadOK
  PROVE  \A t \in Threads : \A pc :
           /\ Goto(t, pc) => /\ thread'[t].pc = pc /\ thread'[t].event = thread[t].event
                             /\ \A u \in Threads \ {t} : thread'[u] = thread[u]
           /\ \A e : GotoWith(t, pc, e) =>
                       /\ thread'[t].pc = pc /\ thread'[t].event = e
                       /\ \A u \in Threads \ {t} : thread'[u] = thread[u]
BY DEF ThreadOK, Goto, GotoWith

(* No exit is anywhere before the process has exited.                       *)
LEMMA NoExits ==
  ASSUME IInv, ConnInv, connected
  PROVE  /\ ~Has(private_queue, Exits) /\ ~Has(public_queue, Exits) /\ ~Has(hijack_queue, Exits)
         /\ \A t \in Threads : thread[t].event \notin Exits
<1>1. ExitPlaces = {}
  BY ExitMeans DEF IInv, ExitInv, ConnInv, Threads
<1> QED BY <1>1, ExitMeans DEF ConnInv

(* A step of a call, the handler or a client that does not concern the      *)
(* plugin or the private state thread.                                      *)
LEMMA SideStays ==
  ASSUME ConnInv, AgainInv, UNCHANGED <<m_private_state, private_queue, async, connected>>,
         thread'["pst"] = thread["pst"],
         thread'["api"].pc \in {"stopasync", "join", "forward", "finish"} =>
           thread["api"].pc \in {"stopasync", "join", "forward", "finish"},
         thread'["api"].pc = "again" => hijack' = "none",
         Hijacks' => hijack' # "none"
  PROVE  ConnInv' /\ AgainInv'
BY DEF ConnInv, AgainInv, PstEnds

(* What goes to the private state thread carries no exit and no repetition. *)
LEMMA AppendPrivate ==
  ASSUME DataOK, NEW q \in Seq(Event), NEW s \in {"running", "stopped", "interrupt"}
  PROVE  /\ Has(Append(q, NewEvent(s)), Exits) <=> Has(q, Exits)
         /\ Has(Append(q, NewEvent(s)), Agains) <=> Has(q, Agains)
         /\ Append(q, NewEvent(s)) \in Seq(Event)
<1>1. NewEvent(s) \in Event /\ NewEvent(s) \notin Exits /\ NewEvent(s) \notin Agains
  BY NewEvents DEF States, Exits, Agains
<1> QED BY <1>1, QueueAppend

(* PrivateResume keeps AsyncThread and the private state together.          *)
LEMMA ResumeSide ==
  ASSUME DataOK, ConnInv, NEW faults \in {ResumeFaults, ContinueFaults},
         NEW outcome \in ResumeOutcomes(faults), NEW q \in Seq(Event),
         PrivateResume(outcome, q), ~Has(q, Agains), connected => ~Has(q, Exits)
  PROVE  /\ m_private_state' = "exited" => ~connected'
         /\ connected' => /\ async' # "dead" /\ ~Has(private_queue', Exits)
                          /\ (m_private_state' = "running") = (async' # "idle")
         /\ ~Has(private_queue', Agains) /\ connected' = connected
<1> DEFINE r == Append(q, NewEvent("running"))
<1>1. /\ r \in Seq(Event) /\ (Has(r, Exits) <=> Has(q, Exits)) /\ (Has(r, Agains) <=> Has(q, Agains))
  BY AppendPrivate
<1> HIDE DEF r
<1>2. /\ Has(Append(r, NewEvent("stopped")), Exits) <=> Has(q, Exits)
      /\ Has(Append(r, NewEvent("stopped")), Agains) <=> Has(q, Agains)
  BY <1>1, AppendPrivate
<1>3. \/ /\ m_private_state' = "running" /\ async' = "running" /\ private_queue' = r
      \/ /\ UNCHANGED <<m_private_state, async>>
         /\ private_queue' = q \/ private_queue' = Append(r, NewEvent("stopped"))
  BY ResumeMeans DEF r
<1>4. connected' = connected
  BY ResumeMeans
<1>5. Has(private_queue', Exits) <=> Has(q, Exits)
  BY <1>1, <1>2, <1>3
<1>6. Has(private_queue', Agains) <=> Has(q, Agains)
  BY <1>1, <1>2, <1>3
<1>7. m_private_state' = "exited" => ~connected'
  BY <1>3, <1>4 DEF ConnInv
<1>8. connected' => async' # "dead" /\ (m_private_state' = "running") = (async' # "idle")
  BY <1>3, <1>4 DEF ConnInv
<1> QED BY <1>4, <1>5, <1>6, <1>7, <1>8

(* The calls that do not resume.                                            *)
LEMMA CallsSide ==
  ASSUME IInv, ConnInv, AgainInv,
         (\E c \in Calls : Resume(c)) \/ Halt \/ Destroy \/ HijackProcessEvents
         \/ CallUndoes \/ CallEntersWait \/ CallRemoves \/ SetPublicStateUnlocks("api")
         \/ CallTimesOut \/ WaitReleasesLock \/ CallRestores \/ HaltBroadcasts
         \/ DestroyJoins \/ DestroyForwards \/ DestroyReturns
  PROVE  ConnInv' /\ AgainInv'
<1> USE DEF vars, inferiorVars, privateVars, publicVars, pstVars, clientVars, callVars
<1>1. /\ ThreadOK /\ HeldOK /\ "api" \in Threads /\ "pst" \in Threads \ {"api"}
      /\ call \in Calls \union {"none"} /\ \A c \in Calls : c # "none"
  BY ProcessAssumption DEF IInv, Threads, DataOK
<1>2. /\ \A pc : Goto("api", pc) => thread'["api"].pc = pc /\ thread'["pst"] = thread["pst"]
      /\ \A pc, e : GotoWith("api", pc, e) =>
                      thread'["api"].pc = pc /\ thread'["pst"] = thread["pst"]
  BY <1>1, ThreadsGo
<1>3. CASE (\E c \in Calls : Resume(c)) \/ Halt \/ Destroy
  <2>1. PICK pc \in {"resume", "hijack", "kill"} :
          Goto("api", pc) /\ (pc = "resume" => call' = "Resume")
    BY <1>3 DEF Resume, Halt, Destroy, Enter
  <2>2. UNCHANGED <<m_private_state, private_queue, async, connected, hijack>>
    BY <1>3 DEF Resume, Halt, Destroy
  <2> QED BY <1>2, <2>1, <2>2, SideStays DEF Hijacks
<1>4. CASE HijackProcessEvents
  <2>1. /\ hijack' = call /\ call # "none" /\ call' = call
        /\ thread'["pst"] = thread["pst"] /\ thread'["api"].pc \in {"resume", "interrupt"}
        /\ UNCHANGED <<m_private_state, private_queue, async, connected>>
    BY <1>1, <1>2, <1>4 DEF HijackProcessEvents, HeldOK, At
  <2> QED BY <2>1, SideStays DEF Hijacks
<1>5. CASE CallUndoes \/ WaitReleasesLock \/ CallTimesOut
  <2>1. /\ thread'["pst"] = thread["pst"] /\ thread'["api"].pc \in {"idle", "restore"}
        /\ UNCHANGED <<m_private_state, private_queue, async, connected>>
    BY <1>2, <1>5 DEF CallUndoes, WaitReleasesLock, CallTimesOut
  <2> QED BY <2>1, SideStays DEF Hijacks
<1>6. CASE CallEntersWait \/ SetPublicStateUnlocks("api")
  <2>1. /\ thread'["pst"] = thread["pst"] /\ thread'["api"].pc \in {"restore", "wait", "act"}
        /\ UNCHANGED <<m_private_state, private_queue, async, connected, hijack>>
        /\ thread["api"].pc \in {"enter", "unlock"}
    BY <1>2, <1>6 DEF CallEntersWait, SetPublicStateUnlocks, At
  <2>2. hijack # "none"
    BY <2>1 DEF AgainInv, Hijacks
  <2> QED BY <2>1, <2>2, SideStays DEF Hijacks
<1>7. CASE CallRemoves
  <2>1. /\ thread'["pst"] = thread["pst"] /\ thread'["api"].pc \in {"restore", "unlock", "act"}
        /\ UNCHANGED <<m_private_state, private_queue, async, connected, hijack>>
        /\ thread["api"].pc = "wait"
    BY <1>2, <1>7 DEF CallRemoves, SetPublicState, At
  <2>2. hijack # "none"
    BY <2>1 DEF AgainInv, Hijacks
  <2> QED BY <2>1, <2>2, SideStays DEF Hijacks
<1>8. CASE CallRestores
  <2>1. /\ thread'["pst"] = thread["pst"] /\ thread'["api"].pc \in {"again", "kill", "idle"}
        /\ hijack' = "none" /\ UNCHANGED <<m_private_state, private_queue, async, connected>>
    BY <1>2, <1>8 DEF CallRestores
  <2> QED BY <2>1, SideStays DEF Hijacks
<1>9. CASE HaltBroadcasts \/ DestroyJoins \/ DestroyForwards \/ DestroyReturns
  <2>1. /\ thread'["pst"] = thread["pst"] /\ thread'["api"].pc \in {"idle", "forward", "finish"}
        /\ thread'["api"].pc # "idle" => thread["api"].pc \in {"join", "forward"}
        /\ UNCHANGED <<m_private_state, private_queue, async, connected>>
    BY <1>2, <1>9 DEF HaltBroadcasts, DestroyJoins, DestroyForwards, DestroyReturns, At
  <2> QED BY <2>1, SideStays DEF Hijacks
<1> QED BY <1>3, <1>4, <1>5, <1>6, <1>7, <1>8, <1>9

(* The handler, the clients and the interrupts.                             *)
LEMMA ClientsSide ==
  ASSUME IInv, ConnInv, AgainInv,
         HandlerRemoves \/ SetPublicStateUnlocks("handler")
         \/ ReadTryLock \/ LockAPIMutex \/ ReadUnlock \/ AsyncInterrupt \/ CallInterrupts
  PROVE  ConnInv' /\ AgainInv'
<1> USE DEF vars, inferiorVars, privateVars, publicVars, pstVars, clientVars, callVars
<1>1. /\ ThreadOK /\ DataOK /\ private_queue \in Seq(Event)
      /\ "handler" \in Threads /\ "api" \in Threads \ {"handler"} /\ "pst" \in Threads \ {"handler"}
      /\ "pst" \in Threads \ {"api"}
  BY DEF IInv, Threads, DataOK
<1>2. CASE HandlerRemoves \/ SetPublicStateUnlocks("handler")
           \/ ReadTryLock \/ LockAPIMutex \/ ReadUnlock
  <2>1. thread'["api"] = thread["api"] /\ thread'["pst"] = thread["pst"]
    BY <1>1, <1>2, ThreadsGo DEF HandlerRemoves, SetPublicState, SetPublicStateUnlocks,
                                 ReadTryLock, LockAPIMutex, ReadUnlock
  <2>2. UNCHANGED <<m_private_state, private_queue, async, connected, hijack, call>>
    BY <1>2 DEF HandlerRemoves, SetPublicStateUnlocks, ReadTryLock, LockAPIMutex, ReadUnlock
  <2> QED BY <2>1, <2>2, SideStays DEF Hijacks, AgainInv
<1>3. CASE AsyncInterrupt \/ CallInterrupts
  <2>1. /\ thread'["pst"] = thread["pst"]
        /\ thread'["api"].pc = thread["api"].pc \/ thread'["api"].pc = "enter"
        /\ thread'["api"].pc = "enter" => thread["api"].pc \in {"enter", "interrupt"}
    BY <1>1, <1>3, ThreadsGo DEF AsyncInterrupt, CallInterrupts, At
  <2>2. UNCHANGED <<m_private_state, async, connected, hijack, call>> /\ SendAsyncInterrupt
    BY <1>3 DEF AsyncInterrupt, CallInterrupts
  <2>3. \/ private_queue' = private_queue
        \/ private_queue' = Append(private_queue, NewEvent("interrupt"))
    BY <2>2 DEF SendAsyncInterrupt
  <2>4. /\ Has(private_queue', Exits) <=> Has(private_queue, Exits)
        /\ Has(private_queue', Agains) <=> Has(private_queue, Agains)
    <3>1. /\ Has(Append(private_queue, NewEvent("interrupt")), Exits) <=> Has(private_queue, Exits)
          /\ Has(Append(private_queue, NewEvent("interrupt")), Agains) <=> Has(private_queue, Agains)
      BY <1>1, AppendPrivate
    <3> QED BY <2>3, <3>1
  <2>5. ConnInv'
    BY <2>1, <2>2, <2>4 DEF ConnInv, PstEnds
  <2>6. Hijacks' => Hijacks
    BY <2>1, <2>2 DEF Hijacks
  <2>7. AgainInv'
    BY <2>1, <2>2, <2>4, <2>6 DEF AgainInv
  <2> QED BY <2>5, <2>7
<1> QED BY <1>2, <1>3

(* The steps that resume.                                                   *)
LEMMA ResumesSide ==
  ASSUME IInv, ConnInv, AgainInv,
         CallResumes \/ PerformActions("api") \/ PerformActions("handler")
  PROVE  ConnInv' /\ AgainInv'
<1> USE DEF vars, inferiorVars, privateVars, publicVars, pstVars, clientVars, callVars
<1>1. /\ ThreadOK /\ DataOK /\ private_queue \in Seq(Event) /\ ~Has(private_queue, Agains)
      /\ connected => ~Has(private_queue, Exits)
      /\ "handler" \in Threads /\ "api" \in Threads \ {"handler"} /\ "pst" \in Threads \ {"handler"}
      /\ "api" \in Threads /\ "pst" \in Threads \ {"api"}
  BY DEF IInv, Threads, DataOK, ConnInv, AgainInv
<1>2. \/ UNCHANGED <<m_private_state, private_queue, async, connected>>
      \/ \E faults \in {ResumeFaults, ContinueFaults} : \E outcome \in ResumeOutcomes(faults) :
           PrivateResume(outcome, private_queue)
  BY DEF CallResumes, PerformActions
<1>3. /\ m_private_state' = "exited" => ~connected'
      /\ connected' => /\ async' # "dead" /\ ~Has(private_queue', Exits)
                       /\ (m_private_state' = "running") = (async' # "idle")
      /\ ~Has(private_queue', Agains) /\ connected' = connected
  <2>1. CASE UNCHANGED <<m_private_state, private_queue, async, connected>>
    BY <1>1, <2>1 DEF ConnInv
  <2>2. CASE \E faults \in {ResumeFaults, ContinueFaults} : \E outcome \in ResumeOutcomes(faults) :
               PrivateResume(outcome, private_queue)
    BY <1>1, <2>2, ResumeSide
  <2> QED BY <1>2, <2>1, <2>2
<1>4. thread'["pst"] = thread["pst"] /\ hijack' = hijack
  BY <1>1, ThreadsGo DEF CallResumes, PerformActions, AfterRemoval, Return
<1>5. CASE CallResumes
  <2>1. PICK outcome \in ResumeOutcomes(ResumeFaults), pc \in {"undo", "idle", "enter"} :
          /\ Goto("api", pc)
          /\ pc = "enter" => outcome \notin {"error", "timeout"}
                             /\ ~(outcome \in {"ok", "fake"} /\ call = "Resume")
          /\ PrivateResume(outcome, private_queue)
    BY <1>5 DEF CallResumes
  <2>2. outcome \in {"ok", "fake", "error", "timeout"}
    BY <1>1, <2>1, ResumeMeans
  <2>3. pc = "enter" => Hijacks
    BY <1>5, <2>1, <2>2 DEF CallResumes, At, Hijacks
  <2>4. thread'["api"].pc = pc
    BY <1>1, <2>1, ThreadsGo
  <2> QED BY <1>3, <1>4, <2>3, <2>4 DEF ConnInv, AgainInv, Hijacks, PstEnds
<1>6. CASE PerformActions("api")
  <2>1. thread["api"].pc = "act" /\ thread'["api"].pc \in {"wait", "released"}
    BY <1>1, <1>6, ThreadsGo DEF PerformActions, AfterRemoval, At
  <2>2. hijack # "none"
    BY <2>1 DEF AgainInv, Hijacks
  <2> QED BY <1>3, <1>4, <2>1, <2>2 DEF ConnInv, AgainInv, Hijacks, PstEnds
<1>7. CASE PerformActions("handler")
  <2>1. thread'["api"] = thread["api"] /\ call' = call
    BY <1>1, <1>7, ThreadsGo DEF PerformActions, AfterRemoval
  <2> QED BY <1>3, <1>4, <2>1 DEF ConnInv, AgainInv, Hijacks, PstEnds
<1> QED BY <1>5, <1>6, <1>7

(* The private state thread and Destroy's end of it.                        *)
LEMMA PrivateThreadSide ==
  ASSUME IInv, ConnInv, AgainInv, RunPrivateStateThread \/ DoDestroy \/ StopAsyncThread
  PROVE  ConnInv' /\ AgainInv'
<1> USE DEF vars, inferiorVars, privateVars, publicVars, pstVars, clientVars, callVars
<1>1. /\ ThreadOK /\ DataOK /\ HeldOK /\ private_queue \in Seq(Event) /\ ~Has(private_queue, Agains)
      /\ connected => ~Has(private_queue, Exits)
      /\ "pst" \in Threads /\ "api" \in Threads \ {"pst"} /\ "pst" \in Threads \ {"api"}
      /\ "api" \in Threads /\ NoEvent \notin Exits /\ NoEvent \notin Agains
  BY NewEvents DEF IInv, Threads, DataOK, ConnInv, AgainInv, Exits, Agains
<1> DEFINE h == Head(private_queue)
           t == Tail(private_queue)
<1>2. ASSUME private_queue # <<>>
      PROVE  /\ h \in Event /\ t \in Seq(Event) /\ ~Has(t, Agains) /\ h \notin Agains
             /\ connected => ~Has(t, Exits) /\ h \notin Exits
             /\ \A f \in {h, [h EXCEPT !.interrupted = TRUE], [h EXCEPT !.restarted = TRUE]} :
                  f \notin Agains /\ (connected => f \notin Exits)
  <2>1. /\ h \in Event /\ t \in Seq(Event) /\ ~Has(t, Agains) /\ h \notin Agains
        /\ connected => ~Has(t, Exits) /\ h \notin Exits
    BY <1>1, <1>2, QueueTail
  <2> HIDE DEF h
  <2>2. \A f \in {h, [h EXCEPT !.interrupted = TRUE], [h EXCEPT !.restarted = TRUE]} :
          f \notin Agains /\ (connected => f \notin Exits)
    <3>1. \A f \in {[h EXCEPT !.interrupted = TRUE], [h EXCEPT !.restarted = TRUE]} :
            f.again = h.again /\ f.state = h.state
      BY <2>1, NewEvents
    <3>2. ~h.again /\ (connected => h.state # "exited")
      BY <2>1 DEF Agains, Exits
    <3>3. \A f \in {h, [h EXCEPT !.interrupted = TRUE], [h EXCEPT !.restarted = TRUE]} :
            ~f.again /\ (connected => f.state # "exited")
      BY <3>1, <3>2
    <3> QED BY <3>3 DEF Agains, Exits
  <2> QED BY <2>1, <2>2
<1> HIDE DEF h, t
<1>3. CASE TakesInterrupt \/ TakesRunning \/ TakesStop \/ TakesExit \/ TakesInterruptedStop
  <2>1. /\ private_queue # <<>> /\ private_queue' = t /\ At("pst", "idle")
        /\ UNCHANGED <<m_private_state, async, connected, hijack, call>>
    BY <1>3 DEF TakesInterrupt, TakesRunning, TakesStop, TakesExit, TakesInterruptedStop, Takes, t
  <2>2. PICK f \in {h, [h EXCEPT !.interrupted = TRUE]} :
          thread' = thread \/ GotoWith("pst", "broadcast", f)
    BY <1>3 DEF TakesInterrupt, TakesRunning, TakesStop, TakesExit, TakesInterruptedStop,
                Suppresses, Broadcasts, h
  <2>3. /\ thread'["api"] = thread["api"]
        /\ thread'["pst"] = thread["pst"]
           \/ (thread'["pst"].pc = "broadcast" /\ thread'["pst"].event = f)
    BY <1>1, <2>2, ThreadsGo
  <2> QED BY <1>2, <2>1, <2>3 DEF ConnInv, AgainInv, Hijacks, PstEnds
<1>4. CASE TakesStopAndResumes
  <2>1. /\ private_queue # <<>> /\ UNCHANGED <<hijack, call>>
        /\ \E outcome \in ResumeOutcomes(ContinueFaults) : PrivateResume(outcome, t)
        /\ thread' = thread \/ GotoWith("pst", "broadcast", [h EXCEPT !.restarted = TRUE])
    BY <1>4 DEF TakesStopAndResumes, Takes, Suppresses, Broadcasts, h, t
  <2>2. /\ thread'["api"] = thread["api"]
        /\ thread'["pst"] = thread["pst"]
           \/ (thread'["pst"].pc = "broadcast" /\ thread'["pst"].event = [h EXCEPT !.restarted = TRUE])
    BY <1>1, <2>1, ThreadsGo
  <2>3. /\ m_private_state' = "exited" => ~connected'
        /\ connected' => /\ async' # "dead" /\ ~Has(private_queue', Exits)
                         /\ (m_private_state' = "running") = (async' # "idle")
        /\ ~Has(private_queue', Agains) /\ connected' = connected
    BY <1>1, <1>2, <2>1, ResumeSide
  <2>4. thread'["pst"].event \notin Agains /\ (connected => thread'["pst"].event \notin Exits)
    BY <1>2, <2>1, <2>2 DEF ConnInv, AgainInv
  <2>5. ConnInv'
    BY <2>2, <2>3, <2>4 DEF ConnInv, PstEnds
  <2>6. AgainInv'
    BY <2>1, <2>2, <2>3, <2>4 DEF AgainInv, Hijacks
  <2> QED BY <2>5, <2>6
<1>5. CASE BroadcastsPublicly
  <2>1. /\ thread["pst"].pc = "broadcast" /\ thread["pst"].event \in Event
        /\ UNCHANGED <<m_private_state, private_queue, async, connected, hijack, call>>
    BY <1>1, <1>5 DEF BroadcastsPublicly, HeldOK, At, Held
  <2>2. PICK pc \in {"exiting", "idle"} :
          GotoWith("pst", pc, NoEvent) /\ (pc = "exiting" => thread["pst"].event.state = "exited")
    BY <1>5 DEF BroadcastsPublicly, Held
  <2>3. /\ thread'["pst"].pc = pc /\ thread'["pst"].event = NoEvent /\ thread'["api"] = thread["api"]
    BY <1>1, <2>2, ThreadsGo
  <2>4. connected => pc = "idle"
    BY <2>1, <2>2 DEF ConnInv, Exits
  <2> QED BY <1>1, <2>1, <2>3, <2>4 DEF ConnInv, AgainInv, Hijacks, PstEnds
<1>6. CASE PrivateStateThreadEnds
  <2>1. /\ thread["pst"].pc = "exiting" /\ thread'["pst"].event = thread["pst"].event
        /\ thread'["pst"].pc = "dead" /\ thread'["api"] = thread["api"]
        /\ UNCHANGED <<m_private_state, private_queue, async, connected, hijack, call>>
    BY <1>1, <1>6, ThreadsGo DEF PrivateStateThreadEnds, At
  <2> QED BY <2>1 DEF ConnInv, AgainInv, Hijacks, PstEnds
<1>7. CASE DoDestroy
  <2>1. /\ thread'["pst"] = thread["pst"] /\ thread'["api"].pc = "stopasync" /\ connected' = FALSE
        /\ SetPrivateState("exited")
    BY <1>1, <1>7, ThreadsGo DEF DoDestroy, SetExitStatus
  <2>2. ~Has(private_queue', Agains)
    <3>1. NewEvent("exited") \in Event /\ NewEvent("exited") \notin Agains
      BY NewEvents DEF States, Agains
    <3>2. private_queue' = private_queue \/ private_queue' = Append(private_queue, NewEvent("exited"))
      BY <2>1 DEF SetPrivateState
    <3>3. ~Has(Append(private_queue, NewEvent("exited")), Agains)
      BY <1>1, <3>1, QueueAppend
    <3> QED BY <1>1, <3>2, <3>3
  <2> QED BY <2>1, <2>2 DEF ConnInv, AgainInv, Hijacks
<1>8. CASE StopAsyncThread
  <2>1. /\ thread'["pst"] = thread["pst"] /\ thread'["api"].pc = "join" /\ thread["api"].pc = "stopasync"
        /\ UNCHANGED <<m_private_state, private_queue, connected>>
    BY <1>1, <1>8, ThreadsGo DEF StopAsyncThread, At
  <2> QED BY <2>1 DEF ConnInv, AgainInv, Hijacks
<1> QED BY <1>3, <1>4, <1>5, <1>6, <1>7, <1>8 DEF RunPrivateStateThread

(* The plugin.                                                              *)
LEMMA InferiorSide ==
  ASSUME IInv, ConnInv, AgainInv, AsyncThread \/ InferiorStops \/ InferiorExits \/ DebugserverDies
  PROVE  ConnInv' /\ AgainInv'
<1> USE DEF vars, inferiorVars, privateVars, publicVars, pstVars, clientVars, callVars
<1>1. /\ DataOK /\ private_queue \in Seq(Event) /\ ~Has(private_queue, Agains)
      /\ connected => ~Has(private_queue, Exits)
  BY DEF IInv, DataOK, ConnInv, AgainInv
<1>2. UNCHANGED <<thread, call, hijack>>
  BY DEF AsyncThread, AsyncThreadContinues, ContinueLockSuccess, AsyncThreadStops,
         AsyncThreadFails, InferiorStops, InferiorExits, DebugserverDies
<1>3. ASSUME NEW s \in States, SetPrivateState(s)
      PROVE  /\ ~Has(private_queue', Agains) /\ m_private_state' = s
             /\ connected /\ s # "exited" => ~Has(private_queue', Exits)
  <2>1. /\ NewEvent(s) \in Event /\ NewEvent(s) \notin Agains /\ m_private_state' = s
        /\ s # "exited" => NewEvent(s) \notin Exits
    BY <1>3, NewEvents DEF Agains, Exits, SetPrivateState
  <2>2. private_queue' = private_queue \/ private_queue' = Append(private_queue, NewEvent(s))
    BY <1>3 DEF SetPrivateState
  <2>3. /\ ~Has(Append(private_queue, NewEvent(s)), Agains)
        /\ connected /\ s # "exited" => ~Has(Append(private_queue, NewEvent(s)), Exits)
    BY <1>1, <2>1, QueueAppend
  <2> QED BY <1>1, <2>1, <2>2, <2>3
<1>4. "stopped" \in States /\ "running" \in States /\ "exited" \in States
  BY DEF States
<1>5. CASE AsyncThreadFails \/ InferiorExits \/ DebugserverDies
  <2>1. SetPrivateState("exited") /\ connected' = FALSE
    BY <1>5 DEF AsyncThreadFails, InferiorExits, DebugserverDies, SetExitStatus
  <2> QED BY <1>2, <1>3, <1>4, <2>1 DEF ConnInv, AgainInv, Hijacks
<1>6. CASE AsyncThreadContinues
  <2>1. SetPrivateState("running") /\ connected' = connected /\ async' = "lock"
    BY <1>6 DEF AsyncThreadContinues
  <2>2. /\ ~Has(private_queue', Agains) /\ m_private_state' = "running"
        /\ connected => ~Has(private_queue', Exits)
    BY <1>3, <1>4, <2>1
  <2> QED BY <1>2, <2>1, <2>2 DEF ConnInv, AgainInv, Hijacks, PstEnds
<1>7. CASE AsyncThreadStops
  <2>1. SetPrivateState("stopped") /\ connected' = connected /\ async' = "idle"
    BY <1>7 DEF AsyncThreadStops
  <2>2. /\ ~Has(private_queue', Agains) /\ m_private_state' = "stopped"
        /\ connected => ~Has(private_queue', Exits)
    BY <1>3, <1>4, <2>1
  <2> QED BY <1>2, <2>1, <2>2 DEF ConnInv, AgainInv, Hijacks, PstEnds
<1>8. CASE ContinueLockSuccess \/ InferiorStops
  <2>1. /\ UNCHANGED <<m_private_state, private_queue, connected>>
        /\ async \in {"lock", "running"} /\ async' \in {"running", "stopped"}
    BY <1>8 DEF ContinueLockSuccess, InferiorStops
  <2> QED BY <1>2, <2>1 DEF ConnInv, AgainInv, Hijacks, PstEnds
<1> QED BY <1>5, <1>6, <1>7, <1>8 DEF AsyncThread

SideInv == ConnInv /\ AgainInv

(* The process has been launched and is connected.                          *)
LEMMA SideInit == Init => SideInv
<1> SUFFICES ASSUME Init PROVE SideInv
  OBVIOUS
<1>1. /\ thread["api"] = [pc |-> "idle", event |-> NoEvent]
      /\ thread["pst"] = [pc |-> "idle", event |-> NoEvent]
  BY DEF Init, Threads
<1>2. NoEvent \notin Exits /\ NoEvent \notin Agains
  BY NewEvents DEF Exits, Agains
<1>3. ~Has(private_queue, Exits) /\ ~Has(private_queue, Agains)
  BY QueueEmpty DEF Init
<1> QED BY <1>1, <1>2, <1>3 DEF Init, SideInv, ConnInv, AgainInv, Hijacks, PstEnds

(* Every step keeps it.                                                     *)
LEMMA SideStep == ASSUME IInv, SideInv, [Next]_vars PROVE SideInv'
<1>1. CASE UNCHANGED vars
  BY <1>1 DEF vars, inferiorVars, privateVars, publicVars, pstVars, clientVars, callVars,
              SideInv, ConnInv, AgainInv, Hijacks, PstEnds
<1>2. CASE Next
  BY <1>2, CallsSide, ClientsSide, ResumesSide, PrivateThreadSide, InferiorSide
     DEF SideInv, Next, CallSteps, HandlerSteps
<1> QED BY <1>1, <1>2

---------------------------------------------------------------------------
(* The run lock *)

(* What the run of the inferior, since the lock was taken, depends on: the  *)
(* call that begins it, the inferior and its events in the private queue,   *)
(* or the final stop that is on its way to the release of the lock.         *)
CallIsLive ==
  \/ thread["api"].pc \in {"resume", "undo", "unlock", "released"}
  \/ At("api", "hijack") /\ call = "ResumeSynchronous"
  \/ At("api", "act") /\ Held("api") \in Finals

LivePlaces ==
  {p \in Places : \/ /\ p = "private"
                     /\ m_private_state = "running" \/ Has(private_queue, Moves) \/ continues > 0
                  \/ p = "pst" /\ Held(p) \in Finals
                  \/ p = "public" /\ Has(public_queue, Fresh)
                  \/ p = "hijack" /\ Has(hijack_queue, Finals)
                  \/ p = "handler" /\ At(p, "unlock")
                  \/ p = "api" /\ CallIsLive}

(* The lock is held as long as the run is anywhere; a call that waits may   *)
(* find it released by its own removal of the stop.                         *)
Locked ==
  \A p \in LivePlaces : m_running \/ (p = "api" /\ thread["api"].pc \in {"act", "released"})

(* A stop that Halt has broadcast again comes behind no start...            *)
AgainStops == {e \in Event : e.state = "stopped" /\ e.again}
Starts == {e \in Event : e.state = "running"}
InOrder(q) ==
  \A i \in 1 .. Len(q) : q[i] \in AgainStops => \A j \in 1 .. i : q[j] \notin Starts

(* ...and does not release the lock.                                        *)
StaleInv ==
  /\ InOrder(public_queue)
  /\ Has(public_queue, AgainStops) => m_public_state # "running" /\ hijack = "none"

(* A request that DoResume did not wait for is the only move there is.      *)
RequestInv ==
  continues > 0 => continues = 1 /\ m_private_state # "running" /\ ~Has(private_queue, Moves)

AliveInv ==
  /\ AtMostOne(LivePlaces) /\ Locked
  /\ One(public_queue, Fresh) /\ One(hijack_queue, Finals) /\ LastStop(private_queue)
  /\ m_private_state = "running" => ~Has(private_queue, Stops)
  /\ RequestInv /\ StaleInv
  /\ thread["api"].pc \in {"unlock", "act"} => thread["api"].event.state \in States

LockInv ==
  "run lock" \notin void => IF connected THEN AliveInv ELSE m_private_state # "running"

(* Where the run is...                                                      *)
LEMMA LiveMeans ==
  /\ "private" \in LivePlaces <=>
       m_private_state = "running" \/ Has(private_queue, Moves) \/ continues > 0
  /\ "pst" \in LivePlaces <=> thread["pst"].event \in Finals
  /\ "public" \in LivePlaces <=> Has(public_queue, Fresh)
  /\ "hijack" \in LivePlaces <=> Has(hijack_queue, Finals)
  /\ "handler" \in LivePlaces <=> thread["handler"].pc = "unlock"
  /\ "api" \in LivePlaces <=> CallIsLive
  /\ LivePlaces \subseteq {"private", "pst", "public", "hijack", "handler", "api"}
BY DEF LivePlaces, Places, Threads, Held, At

(* ...and where it is after a step.                                         *)
LEMMA LiveMeansNext ==
  /\ "private" \in LivePlaces' <=>
       m_private_state' = "running" \/ Has(private_queue', Moves) \/ continues' > 0
  /\ "pst" \in LivePlaces' <=> thread'["pst"].event \in Finals
  /\ "public" \in LivePlaces' <=> Has(public_queue', Fresh)
  /\ "hijack" \in LivePlaces' <=> Has(hijack_queue', Finals)
  /\ "handler" \in LivePlaces' <=> thread'["handler"].pc = "unlock"
  /\ "api" \in LivePlaces' <=> CallIsLive'
  /\ LivePlaces' \subseteq {"private", "pst", "public", "hijack", "handler", "api"}
BY DEF LivePlaces, Places, Threads, Held, At

(* The run leaves one place for another.                                    *)
LEMMA LiveMoves ==
  ASSUME AtMostOne(LivePlaces), Locked, m_running' = m_running, NEW a, NEW b,
         \A p \in LivePlaces' : p # b => p \in LivePlaces,
         b \in LivePlaces' => b \in LivePlaces \/ (a \in LivePlaces /\ a \notin LivePlaces'),
         b \in LivePlaces' /\ b \notin LivePlaces => m_running,
         "api" \in LivePlaces' => m_running \/ thread'["api"].pc \in {"act", "released"}
  PROVE  AtMostOne(LivePlaces') /\ Locked'
<1>1. AtMostOne(LivePlaces')
  BY DEF AtMostOne
<1>2. Locked'
  BY DEF Locked
<1> QED BY <1>1, <1>2

(* The release of the lock ends the run.                                    *)
LEMMA LiveEnds ==
  ASSUME \A p \in LivePlaces' : p = "api" /\ thread'["api"].pc \in {"act", "released"}
  PROVE  AtMostOne(LivePlaces') /\ Locked'
BY DEF AtMostOne, Locked

(* Steps that change nothing that the run depends on.                       *)
LEMMA LiveStays ==
  ASSUME AliveInv, UNCHANGED <<m_private_state, private_queue, public_queue, hijack_queue, continues,
                               thread, call, m_running, m_public_state, hijack>>
  PROVE  AliveInv'
<1>1. LivePlaces' = LivePlaces
  BY DEF LivePlaces, CallIsLive, At, Held
<1> QED BY <1>1 DEF AliveInv, Locked, AtMostOne, StaleInv, RequestInv

(* What a broadcast or a removal does to the order of the public events.    *)
LEMMA OrderKept ==
  ASSUME NEW q \in Seq(Event), InOrder(q)
  PROVE  /\ \A e \in Event : (e \in AgainStops => ~Has(q, Starts)) => InOrder(Append(q, e))
         /\ q # <<>> => /\ InOrder(Tail(q))
                        /\ Head(q) \in Starts => ~Has(Tail(q), AgainStops)
<1>1. ASSUME NEW e \in Event, e \in AgainStops => ~Has(q, Starts) PROVE InOrder(Append(q, e))
  <2> DEFINE a == Append(q, e)
  <2>1. /\ Len(a) = Len(q) + 1 /\ Len(q) \in Nat /\ a[Len(q) + 1] = e
        /\ \A i \in 1 .. Len(q) : a[i] = q[i]
    OBVIOUS
  <2> HIDE DEF a
  <2>2. e \in AgainStops => e \notin Starts
    BY DEF AgainStops, Starts
  <2> SUFFICES ASSUME NEW i \in 1 .. Len(a), a[i] \in AgainStops, NEW j \in 1 .. i
               PROVE  a[j] \notin Starts
    BY DEF InOrder, a
  <2>3. CASE i \in 1 .. Len(q)
    BY <2>1, <2>3 DEF InOrder
  <2>4. CASE i = Len(q) + 1
    BY <1>1, <2>1, <2>2, <2>4 DEF Has
  <2> QED BY <2>1, <2>3, <2>4
<1>2. ASSUME q # <<>> PROVE InOrder(Tail(q)) /\ (Head(q) \in Starts => ~Has(Tail(q), AgainStops))
  <2> DEFINE t == Tail(q)
             h == Head(q)
  <2>1. /\ h = q[1] /\ Len(q) \in Nat \ {0} /\ Len(t) = Len(q) - 1
        /\ \A i \in 1 .. Len(q) - 1 : t[i] = q[i + 1]
    BY <1>2
  <2> HIDE DEF t, h
  <2>2. InOrder(t)
    BY <2>1 DEF InOrder
  <2>3. h \in Starts => ~Has(t, AgainStops)
    BY <2>1 DEF InOrder, Has
  <2> QED BY <2>2, <2>3 DEF t, h
<1> QED BY <1>1, <1>2

(* A broadcast that repeats no stop.                                        *)
LEMMA BroadcastStale ==
  ASSUME DataOK, StaleInv, NEW e \in Event, e \notin AgainStops, BroadcastEvent(e),
         UNCHANGED <<m_public_state, hijack>>
  PROVE  StaleInv'
<1>1. public_queue \in Seq(Event)
  BY DEF DataOK
<1>2. public_queue' = public_queue \/ public_queue' = Append(public_queue, e)
  BY DEF BroadcastEvent
<1>3. Has(public_queue', AgainStops) => Has(public_queue, AgainStops)
  BY <1>1, <1>2, QueueAppend
<1>4. InOrder(public_queue')
  BY <1>1, <1>2, OrderKept DEF StaleInv
<1> QED BY <1>3, <1>4 DEF StaleInv

(* An interrupt is no move of the process.                                  *)
LEMMA InterruptLive ==
  ASSUME IInv, AliveInv, SendAsyncInterrupt,
         UNCHANGED <<m_private_state, m_running, call, continues, m_public_state, hijack>>,
         \/ thread' = thread
         \/ /\ thread["api"].pc = "interrupt" /\ thread'["api"].pc = "enter"
            /\ \A u \in Threads \ {"api"} : thread'[u] = thread[u]
  PROVE  AliveInv'
<1> DEFINE e == NewEvent("interrupt")
<1>1. /\ e \in Event /\ e \notin Finals /\ e \notin Moves /\ e \notin Stops /\ e \notin AgainStops
      /\ e \notin Fresh /\ DataOK
  BY NewEvents DEF IInv, Finals, Final, Fresh, Moves, Stops, AgainStops
<1>2. private_queue \in Seq(Event) /\ public_queue \in Seq(Event) /\ hijack_queue \in Seq(Event)
  BY DEF IInv, DataOK
<1>3. /\ Has(private_queue', Moves) => Has(private_queue, Moves)
      /\ Has(private_queue', Stops) => Has(private_queue, Stops)
      /\ LastStop(private_queue')
      /\ Has(public_queue', Fresh) => Has(public_queue, Fresh)
      /\ Has(hijack_queue', Finals) => Has(hijack_queue, Finals)
      /\ One(public_queue', Fresh) /\ One(hijack_queue', Finals) /\ StaleInv'
  <2>1. CASE PrivateStateThreadIsValid
    <3>1. private_queue' = Append(private_queue, e) /\ UNCHANGED <<public_queue, hijack_queue>>
      BY <2>1 DEF SendAsyncInterrupt
    <3>2. StaleInv'
      BY <3>1 DEF AliveInv, StaleInv
    <3> HIDE DEF e
    <3> QED BY <1>1, <1>2, <3>1, <3>2, QueueAppend, LastStopAppend DEF AliveInv
  <2>2. CASE ~PrivateStateThreadIsValid
    <3>1. BroadcastEvent(e) /\ private_queue' = private_queue
      BY <2>2 DEF SendAsyncInterrupt
    <3> HIDE DEF e
    <3>2. StaleInv'
      BY <1>1, <3>1, BroadcastStale DEF AliveInv
    <3> QED BY <1>1, <3>1, <3>2, BroadcastMeans DEF AliveInv
  <2> QED BY <2>1, <2>2
<1>4. /\ "api" \in LivePlaces' => "api" \in LivePlaces /\ thread'["api"] = thread["api"]
      /\ thread'["pst"] = thread["pst"] /\ thread'["handler"] = thread["handler"]
  BY LiveMeans, LiveMeansNext DEF CallIsLive, At, Held, Threads
<1>5. \A p \in LivePlaces' : p \in LivePlaces
  BY <1>3, <1>4, LiveMeans, LiveMeansNext
<1>6. AtMostOne(LivePlaces') /\ Locked'
  <2>1. "api" \in LivePlaces' => m_running \/ thread'["api"].pc \in {"act", "released"}
    BY <1>4 DEF AliveInv, Locked
  <2> QED BY <1>5, <2>1, LiveMoves DEF AliveInv
<1>7. thread'["api"].pc \in {"unlock", "act"} => thread'["api"].event.state \in States
  BY <1>4 DEF AliveInv
<1>8. RequestInv'
  BY <1>3 DEF AliveInv, RequestInv
<1> QED BY <1>3, <1>6, <1>7, <1>8 DEF AliveInv

(* A step of a call that leaves the queues and the lock alone.              *)
LEMMA CallStepLive ==
  ASSUME AliveInv, \A u \in Threads \ {"api"} : thread'[u] = thread[u],
         UNCHANGED <<m_private_state, private_queue, public_queue, hijack_queue, m_running,
                     continues, m_public_state>>,
         hijack' = hijack \/ ~Has(public_queue, AgainStops),
         CallIsLive' => /\ CallIsLive
                        /\ \/ thread["api"].pc \notin {"act", "released"}
                           \/ thread'["api"].pc \in {"act", "released"},
         thread'["api"].pc \notin {"unlock", "act"}
  PROVE  AliveInv'
<1>1. thread'["pst"] = thread["pst"] /\ thread'["handler"] = thread["handler"]
  BY DEF Threads
<1>2. \A p \in LivePlaces' : p \in LivePlaces
  BY <1>1, LiveMeans, LiveMeansNext
<1>3. "api" \in LivePlaces' => m_running \/ thread'["api"].pc \in {"act", "released"}
  BY <1>2, LiveMeansNext DEF AliveInv, Locked
<1>4. AtMostOne(LivePlaces') /\ Locked'
  BY <1>2, <1>3, LiveMoves DEF AliveInv
<1> QED BY <1>4 DEF AliveInv, StaleInv, RequestInv

(* The release of the lock by the thread that has the run.                  *)
LEMMA ReleaseLive ==
  ASSUME IInv, AliveInv, NEW t \in {"api", "handler"}, t \in LivePlaces,
         \A u \in Threads \ {t} : thread'[u] = thread[u],
         UNCHANGED <<m_private_state, private_queue, public_queue, hijack_queue, continues,
                     m_public_state, hijack>>,
         t = "handler" => call' = call /\ thread'[t].pc # "unlock",
         t = "api" => /\ thread'[t].pc \in {"idle", "restore"} \/ thread'[t].pc = "act"
                      /\ thread'[t].pc = "act" => thread'[t].event.state \in States
  PROVE  AliveInv'
<1>1. \A p \in LivePlaces : p = t
  BY DEF AliveInv, AtMostOne
<1>2. thread'["pst"] = thread["pst"]
  BY DEF Threads
<1>3. CASE t = "handler"
  <2>1. thread'["api"] = thread["api"] /\ (CallIsLive' <=> CallIsLive)
    BY <1>3 DEF Threads, CallIsLive, At, Held
  <2>2. \A p \in LivePlaces' : FALSE
    BY <1>1, <1>2, <1>3, <2>1, LiveMeans, LiveMeansNext
  <2>3. AtMostOne(LivePlaces') /\ Locked'
    BY <2>2 DEF AtMostOne, Locked
  <2> QED BY <1>2, <2>1, <2>3 DEF AliveInv, StaleInv, RequestInv
<1>4. CASE t = "api"
  <2>1. thread'["handler"] = thread["handler"]
    BY <1>4 DEF Threads
  <2>2. \A p \in LivePlaces' : p = "api"
    BY <1>1, <1>2, <1>4, <2>1, LiveMeans, LiveMeansNext
  <2>3. "api" \in LivePlaces' => thread'["api"].pc \in {"act", "released"}
    BY <1>4, LiveMeansNext DEF CallIsLive, At
  <2>4. AtMostOne(LivePlaces') /\ Locked'
    BY <2>2, <2>3, LiveEnds
  <2> QED BY <1>2, <1>4, <2>4 DEF AliveInv, StaleInv, RequestInv
<1> QED BY <1>3, <1>4

(* Calls up to the wait, and after it.                                      *)
LEMMA CallsLive ==
  ASSUME IInv, AliveInv, "run lock" \notin void',
         (\E c \in Calls : Resume(c)) \/ Halt \/ Destroy \/ HijackProcessEvents
         \/ CallUndoes \/ CallEntersWait \/ WaitReleasesLock \/ CallTimesOut
  PROVE  AliveInv'
<1> USE DEF vars, inferiorVars, privateVars, publicVars, pstVars, clientVars, callVars
<1>1. ThreadOK /\ HeldOK /\ "api" \in Threads
  BY DEF IInv, Threads
<1>0. \A pc : /\ Goto("api", pc) => /\ thread'["api"].pc = pc
                                    /\ \A u \in Threads \ {"api"} : thread'[u] = thread[u]
              /\ \A e : GotoWith("api", pc, e) =>
                          /\ thread'["api"].pc = pc
                          /\ \A u \in Threads \ {"api"} : thread'[u] = thread[u]
  BY <1>1, ThreadsGo
<1>2. ASSUME NEW c \in Calls, Resume(c) PROVE AliveInv'
  <2>1. PICK pc \in {"resume", "hijack"} : Goto("api", pc)
    BY <1>2 DEF Resume
  <2>2. /\ thread'["api"].pc = pc /\ \A u \in Threads \ {"api"} : thread'[u] = thread[u]
    BY <1>0, <2>1
  <2>3. thread'["pst"] = thread["pst"] /\ thread'["handler"] = thread["handler"]
    BY <2>2 DEF Threads
  <2>4. call = "none" /\ ~m_running /\ m_running' = TRUE /\ thread["api"].pc = "idle"
    BY <1>1, <1>2 DEF Resume, Enter, HeldOK, At
  <2>5. LivePlaces = {}
    BY <1>1, <2>4 DEF AliveInv, Locked
  <2>6. UNCHANGED <<m_private_state, private_queue, public_queue, hijack_queue, continues,
                    m_public_state, hijack>>
    BY <1>2 DEF Resume
  <2>7. \A p \in LivePlaces' : p = "api"
    BY <2>3, <2>5, <2>6, LiveMeans, LiveMeansNext
  <2>8. AtMostOne(LivePlaces') /\ Locked'
    BY <2>4, <2>7 DEF AtMostOne, Locked
  <2> QED BY <1>1, <2>2, <2>3, <2>6, <2>8 DEF AliveInv, StaleInv, RequestInv
<1>3. CASE Halt \/ Destroy
  <2>1. PICK pc \in {"kill", "hijack"} : Goto("api", pc) /\ call' \in {"Halt", "Destroy"}
    BY <1>3 DEF Halt, Destroy, Enter
  <2>2. /\ thread'["api"].pc = pc /\ \A u \in Threads \ {"api"} : thread'[u] = thread[u]
    BY <1>0, <2>1
  <2>3. ~CallIsLive'
    BY <2>1, <2>2 DEF CallIsLive, At
  <2>4. UNCHANGED <<m_private_state, private_queue, public_queue, hijack_queue, m_running,
                    continues, m_public_state, hijack>>
    BY <1>3 DEF Halt, Destroy
  <2> QED BY <2>2, <2>3, <2>4, CallStepLive
<1>5. CASE HijackProcessEvents
  <2>1. PICK pc \in {"resume", "interrupt"} :
          Goto("api", pc) /\ (pc = "resume" => call = "ResumeSynchronous")
    BY <1>5 DEF HijackProcessEvents
  <2>2. /\ thread'["api"].pc = pc /\ \A u \in Threads \ {"api"} : thread'[u] = thread[u]
    BY <1>0, <2>1
  <2>3. CallIsLive' => CallIsLive /\ thread["api"].pc = "hijack"
    BY <1>5, <2>1, <2>2 DEF HijackProcessEvents, CallIsLive, At
  <2>4. ~HijacksOverStop
    BY <1>5 DEF HijackProcessEvents, VoidIf
  <2>5. ~Has(public_queue, AgainStops)
    BY <2>4 DEF HijacksOverStop, Has, AgainStops
  <2>6. UNCHANGED <<m_private_state, private_queue, public_queue, hijack_queue, m_running,
                    continues, m_public_state>>
    BY <1>5 DEF HijackProcessEvents
  <2> QED BY <2>1, <2>2, <2>3, <2>5, <2>6, CallStepLive
<1>6. CASE CallUndoes \/ WaitReleasesLock
  <2>1. PICK pc \in {"idle", "restore"} : Goto("api", pc)
    BY <1>6 DEF CallUndoes, WaitReleasesLock
  <2>2. /\ thread'["api"].pc = pc /\ \A u \in Threads \ {"api"} : thread'[u] = thread[u]
    BY <1>0, <2>1
  <2>3. "api" \in LivePlaces
    BY <1>6, LiveMeans DEF CallUndoes, WaitReleasesLock, CallIsLive, At
  <2>4. UNCHANGED <<m_private_state, private_queue, public_queue, hijack_queue, continues,
                    m_public_state, hijack>>
    BY <1>6 DEF CallUndoes, WaitReleasesLock, Return
  <2> QED BY <2>2, <2>3, <2>4, ReleaseLive
<1>7. CASE CallEntersWait \/ CallTimesOut
  <2>1. \E pc \in {"restore", "wait"} :
          Goto("api", pc) \/ \E f \in {NoEvent, Held("api")} : GotoWith("api", pc, f)
    BY <1>7 DEF CallEntersWait, CallTimesOut
  <2>2. /\ thread'["api"].pc \in {"restore", "wait"}
        /\ \A u \in Threads \ {"api"} : thread'[u] = thread[u]
    BY <1>0, <2>1
  <2>3. ~CallIsLive'
    BY <2>2 DEF CallIsLive, At
  <2>4. UNCHANGED <<m_private_state, private_queue, public_queue, hijack_queue, m_running,
                    continues, m_public_state, hijack>>
    BY <1>7 DEF CallEntersWait, CallTimesOut
  <2> QED BY <2>2, <2>3, <2>4, CallStepLive
<1> QED BY <1>2, <1>3, <1>5, <1>6, <1>7

(* There is a request or there is none.                                     *)
LEMMA NoneOrSome == \A n \in Nat : n = 0 <=> ~(n > 0)
OBVIOUS

(* A resume begins or continues the run: its events follow no other move.   *)
LEMMA ResumeLive ==
  ASSUME DataOK, NEW faults \in {ResumeFaults, ContinueFaults},
         NEW outcome \in ResumeOutcomes(faults), NEW q \in Seq(Event),
         PrivateResume(outcome, q), LastStop(q), ~Has(q, Moves), m_private_state # "running",
         continues = 0
  PROVE  /\ LastStop(private_queue') /\ RequestInv'
         /\ m_private_state' = "running" => ~Has(private_queue', Stops)
         /\ outcome = "error" => /\ ~Has(private_queue', Moves) /\ m_private_state' # "running"
                                 /\ continues' = 0
<1>1. ~Has(q, Stops)
  BY DEF Has, Stops, Moves
<1>2. /\ NewEvent("running") \in Event /\ NewEvent("running") \notin Stops
      /\ NewEvent("stopped") \in Event
  BY NewEvents DEF Stops, States
<1> DEFINE r == Append(q, NewEvent("running"))
<1>3. r \in Seq(Event) /\ LastStop(r) /\ ~Has(r, Stops)
  BY <1>1, <1>2, QueueAppend, LastStopAppend
<1>4. \/ /\ outcome = "ok" /\ m_private_state' = "running" /\ continues' = continues
         /\ private_queue' = r
      \/ /\ outcome = "timeout" /\ continues' = continues + 1 /\ m_private_state' = m_private_state
         /\ private_queue' = q
      \/ /\ outcome = "fake" /\ m_private_state = "stopped" /\ m_private_state' = m_private_state
         /\ continues' = continues /\ private_queue' = Append(r, NewEvent("stopped"))
      \/ /\ outcome = "error" /\ m_private_state' = m_private_state /\ continues' = continues
         /\ private_queue' = q
  BY ResumeMeans
<1> HIDE DEF r
<1>5. LastStop(Append(r, NewEvent("stopped")))
  BY <1>2, <1>3, LastStopAppend
<1>6. /\ LastStop(private_queue')
      /\ m_private_state' = "running" => ~Has(private_queue', Stops)
  BY <1>1, <1>3, <1>4, <1>5
<1>7. \/ continues' = 0
      \/ /\ continues' = 1 /\ outcome = "timeout"
         /\ private_queue' = q /\ m_private_state' = m_private_state
  BY <1>4
<1>8. RequestInv'
  BY <1>7 DEF RequestInv
<1>9. outcome = "error" => /\ ~Has(private_queue', Moves) /\ m_private_state' # "running"
                           /\ continues' = 0
  BY <1>4
<1> QED BY <1>6, <1>8, <1>9

(* The call that took the lock hands the run to the inferior.               *)
LEMMA CallResumesLive ==
  ASSUME IInv, AliveInv, "run lock" \notin void', CallResumes
  PROVE  AliveInv'
<1> USE DEF vars, inferiorVars, privateVars, publicVars, pstVars, clientVars, callVars
<1>1. /\ ThreadOK /\ HeldOK /\ "api" \in Threads /\ DataOK
      /\ private_queue \in Seq(Event) /\ continues \in Nat
  BY DEF IInv, Threads, DataOK
<1>2. thread["api"].pc = "resume" /\ "api" \in LivePlaces
  BY LiveMeans DEF CallResumes, CallIsLive, At
<1>3. \A p \in LivePlaces : p = "api"
  BY <1>2 DEF AliveInv, AtMostOne
<1>4. ~Has(private_queue, Moves) /\ m_private_state # "running" /\ m_running /\ continues = 0
  <2>1. "private" \notin LivePlaces
    BY <1>3
  <2>2. ~Has(private_queue, Moves) /\ m_private_state # "running" /\ ~(continues > 0)
    BY <2>1, LiveMeans
  <2>3. m_running
    BY <1>2 DEF AliveInv, Locked
  <2>4. continues \in Nat /\ ~(continues > 0)
    BY <1>1, <2>2
  <2>5. continues = 0
    BY <2>4, NoneOrSome
  <2> QED BY <2>2, <2>3, <2>5
<1>5. PICK outcome \in ResumeOutcomes(ResumeFaults), pc \in {"undo", "idle", "enter"} :
        /\ PrivateResume(outcome, private_queue) /\ Goto("api", pc)
        /\ pc = "undo" => outcome \in {"error", "timeout"}
        /\ ~LateResume(outcome)
  BY DEF CallResumes, VoidIf
<1>6. pc = "undo" => outcome = "error"
  BY <1>5 DEF LateResume
<1>7. /\ thread'["api"].pc = pc /\ \A u \in Threads \ {"api"} : thread'[u] = thread[u]
  BY <1>1, <1>5, ThreadsGo
<1>8. thread'["pst"] = thread["pst"] /\ thread'["handler"] = thread["handler"]
  BY <1>7 DEF Threads
<1>9. /\ LastStop(private_queue') /\ RequestInv'
      /\ m_private_state' = "running" => ~Has(private_queue', Stops)
      /\ outcome = "error" => /\ ~Has(private_queue', Moves) /\ m_private_state' # "running"
                              /\ continues' = 0
  BY <1>1, <1>4, <1>5, ResumeLive DEF AliveInv
<1>10. UNCHANGED <<public_queue, hijack_queue, m_running, m_public_state, hijack>>
  BY DEF CallResumes, Return
<1>11. "api" \in LivePlaces' => pc = "undo"
  BY <1>7, LiveMeansNext DEF CallIsLive, At
<1>12. \A p \in LivePlaces' : p # "private" => p \in LivePlaces
  BY <1>2, <1>8, <1>10, LiveMeans, LiveMeansNext
<1>13. "private" \in LivePlaces' => "api" \notin LivePlaces'
  <2>1. ASSUME outcome = "error" PROVE "private" \notin LivePlaces'
    <3>1. ~Has(private_queue', Moves) /\ m_private_state' # "running" /\ continues' = 0
      BY <1>9, <2>1
    <3>2. continues' = 0
      BY <3>1
    <3>3. ~(continues' > 0)
      BY <3>2, NoneOrSome
    <3> QED BY <3>1, <3>3, LiveMeansNext
  <2> QED BY <1>6, <1>11, <2>1
<1>14. AtMostOne(LivePlaces') /\ Locked'
  BY <1>2, <1>4, <1>10, <1>12, <1>13, LiveMoves DEF AliveInv
<1>15. StaleInv'
  BY <1>10 DEF AliveInv, StaleInv
<1> QED BY <1>7, <1>9, <1>10, <1>14, <1>15 DEF AliveInv

(* The events of the hijacker end with the hijack.                          *)
LEMMA CallRestoresLive ==
  ASSUME IInv, AliveInv, CallRestores
  PROVE  AliveInv'
<1> USE DEF vars, inferiorVars, privateVars, publicVars, pstVars, clientVars, callVars
<1>1. ThreadOK /\ "api" \in Threads
  BY DEF IInv, Threads
<1>2. PICK pc \in {"again", "kill", "idle"} :
        Goto("api", pc) \/ \E f \in {Held("api"), NoEvent} : GotoWith("api", pc, f)
  BY DEF CallRestores
<1>3. /\ thread'["api"].pc = pc /\ \A u \in Threads \ {"api"} : thread'[u] = thread[u]
  BY <1>1, <1>2, ThreadsGo
<1>4. thread'["pst"] = thread["pst"] /\ thread'["handler"] = thread["handler"]
  BY <1>3 DEF Threads
<1>5. /\ hijack_queue' = <<>> /\ hijack' = "none"
      /\ UNCHANGED <<m_private_state, private_queue, public_queue, m_running, continues,
                     m_public_state>>
  BY DEF CallRestores
<1>6. ~Has(hijack_queue', Finals) /\ One(hijack_queue', Finals)
  BY <1>5, QueueEmpty
<1>7. ~CallIsLive'
  BY <1>3 DEF CallIsLive, At
<1>8. \A p \in LivePlaces' : p \in LivePlaces /\ p # "api"
  BY <1>4, <1>5, <1>6, <1>7, LiveMeans, LiveMeansNext
<1>9. AtMostOne(LivePlaces') /\ Locked'
  BY <1>5, <1>8, LiveMoves DEF AliveInv
<1>10. StaleInv' /\ RequestInv'
  BY <1>5 DEF AliveInv, StaleInv, RequestInv
<1> QED BY <1>3, <1>5, <1>6, <1>9, <1>10 DEF AliveInv

(* A stop that Halt broadcasts again releases no lock.                      *)
LEMMA HaltBroadcastsLive ==
  ASSUME IInv, AgainInv, AliveInv, "run lock" \notin void', HaltBroadcasts
  PROVE  AliveInv'
<1> USE DEF vars, inferiorVars, privateVars, publicVars, pstVars, clientVars, callVars
<1> DEFINE e == [Held("api") EXCEPT !.again = TRUE]
<1>1. /\ ThreadOK /\ DataOK /\ "api" \in Threads /\ public_queue \in Seq(Event)
      /\ thread["api"].pc = "again" /\ hijack = "none"
  BY DEF IInv, Threads, DataOK, HaltBroadcasts, At, AgainInv
<1>2. Held("api") \in Event
  BY DEF IInv, HeldOK, HaltBroadcasts
<1>3. e \in Event /\ e.again /\ e.state = Held("api").state
  BY <1>2, NewEvents
<1>4. ~OvertakesRunning
  BY DEF HaltBroadcasts, VoidIf
<1>5. /\ BroadcastEvent(e) /\ GotoWith("api", "idle", NoEvent)
      /\ UNCHANGED <<m_private_state, private_queue, m_running, continues, m_public_state, hijack>>
  BY DEF HaltBroadcasts, Return
<1>6. /\ thread'["api"].pc = "idle" /\ \A u \in Threads \ {"api"} : thread'[u] = thread[u]
  BY <1>1, <1>5, ThreadsGo
<1>7. thread'["pst"] = thread["pst"] /\ thread'["handler"] = thread["handler"]
  BY <1>6 DEF Threads
<1> HIDE DEF e
<1>8. public_queue' = Append(public_queue, e) /\ hijack_queue' = hijack_queue
  BY <1>1, <1>5 DEF BroadcastEvent
<1>9. e \notin Fresh
  BY <1>3 DEF Fresh
<1>10. /\ Has(public_queue', Fresh) => Has(public_queue, Fresh)
       /\ One(public_queue', Fresh)
       /\ Has(public_queue', AgainStops) => Has(public_queue, AgainStops) \/ e \in AgainStops
  BY <1>1, <1>3, <1>8, <1>9, QueueAppend DEF AliveInv
<1>11. e \in AgainStops => ~Has(public_queue, Starts) /\ m_public_state # "running"
  BY <1>3, <1>4 DEF OvertakesRunning, AgainStops, Starts, Has
<1>12. InOrder(public_queue')
  BY <1>1, <1>3, <1>8, <1>11, OrderKept DEF AliveInv, StaleInv
<1>13. StaleInv'
  BY <1>1, <1>5, <1>10, <1>11, <1>12 DEF AliveInv, StaleInv
<1>14. ~CallIsLive'
  BY <1>6 DEF CallIsLive, At
<1>15. \A p \in LivePlaces' : p \in LivePlaces /\ p # "api"
  BY <1>5, <1>7, <1>8, <1>10, <1>14, LiveMeans, LiveMeansNext
<1>16. AtMostOne(LivePlaces') /\ Locked'
  BY <1>5, <1>15, LiveMoves DEF AliveInv
<1> QED BY <1>5, <1>6, <1>8, <1>10, <1>13, <1>16 DEF AliveInv, RequestInv

(* The removal of the final stop takes the run to the thread that removes   *)
(* it.                                                                      *)
LEMMA RemovalLive ==
  ASSUME IInv, SideInv, AliveInv, connected, HandlerRemoves \/ CallRemoves
  PROVE  AliveInv'
<1> USE DEF vars, inferiorVars, privateVars, publicVars, pstVars, clientVars, callVars
<1>1. /\ ThreadOK /\ DataOK /\ public_queue \in Seq(Event) /\ hijack_queue \in Seq(Event)
      /\ m_public_state \in States
  BY DEF IInv, DataOK
<1>2. \A e \in Event : e.state # "interrupt" => e.state \in States
  BY DEF Event
<1>0. ~Has(public_queue, Exits) /\ ~Has(hijack_queue, Exits)
  BY NoExits DEF SideInv
<1>3. CASE HandlerRemoves
  <2> DEFINE e == Head(public_queue)
  <2>1. /\ public_queue # <<>> /\ public_queue' = Tail(public_queue) /\ SetPublicState("handler", e)
        /\ thread["handler"].pc = "idle"
        /\ UNCHANGED <<m_private_state, private_queue, hijack_queue, call, m_running, continues,
                       hijack>>
    BY <1>3 DEF HandlerRemoves, At
  <2>2. /\ e \in Event /\ One(public_queue', Fresh) /\ e \notin Exits
        /\ Has(public_queue', Fresh) => Has(public_queue, Fresh)
        /\ e \in Fresh => Has(public_queue, Fresh) /\ ~Has(public_queue', Fresh)
        /\ Has(public_queue', AgainStops) => Has(public_queue, AgainStops)
        /\ e \in AgainStops => Has(public_queue, AgainStops)
    BY <1>0, <1>1, <2>1, QueueTail DEF AliveInv
  <2>3. InOrder(public_queue') /\ (e \in Starts => ~Has(public_queue', AgainStops))
    BY <1>1, <2>1, OrderKept DEF AliveInv, StaleInv
  <2> HIDE DEF e
  <2>4. Unlocks(e) => e \in Fresh
    <3> SUFFICES ASSUME Unlocks(e) PROVE e \in Fresh
      OBVIOUS
    <3>1. /\ m_public_state \notin {"stopped", "exited"} /\ e.state \in {"stopped", "exited"}
          /\ ~e.restarted
      BY DEF Unlocks, StateIsStoppedState
    <3>2. m_public_state = "running" /\ e.state = "stopped"
      BY <1>1, <2>2, <3>1 DEF States, Exits
    <3>3. e \notin AgainStops
      BY <2>2, <3>2 DEF AliveInv, StaleInv
    <3> QED BY <2>2, <3>1, <3>2, <3>3 DEF Fresh, Finals, Final, AgainStops
  <2>5. \/ thread' = thread
        \/ \E pc \in {"unlock", "act"} : /\ GotoWith("handler", pc, e)
                                         /\ pc = "unlock" => e \in Fresh
    BY <2>1, <2>4 DEF SetPublicState
  <2>6. /\ thread'["handler"].pc = "unlock" => e \in Fresh
        /\ thread'["api"] = thread["api"] /\ thread'["pst"] = thread["pst"]
    <3>1. CASE thread' = thread
      BY <2>1, <3>1
    <3>2. ASSUME NEW pc \in {"unlock", "act"}, GotoWith("handler", pc, e), pc = "unlock" => e \in Fresh
          PROVE  /\ thread'["handler"].pc = "unlock" => e \in Fresh
                 /\ thread'["api"] = thread["api"] /\ thread'["pst"] = thread["pst"]
      BY <1>1, <3>2, ThreadsGo DEF Threads
    <3> QED BY <2>5, <3>1, <3>2
  <2>7. CallIsLive' <=> CallIsLive
    BY <2>1, <2>6 DEF CallIsLive, At, Held
  <2>8. \A p \in LivePlaces' : p # "handler" => p \in LivePlaces
    BY <2>1, <2>2, <2>6, <2>7, LiveMeans, LiveMeansNext
  <2>9. "handler" \in LivePlaces' => "public" \in LivePlaces /\ "public" \notin LivePlaces'
    BY <2>2, <2>6, LiveMeans, LiveMeansNext
  <2>10. "api" \in LivePlaces' => m_running \/ thread'["api"].pc \in {"act", "released"}
    BY <2>6, <2>8 DEF AliveInv, Locked
  <2>11. "public" \in LivePlaces => m_running
    BY DEF AliveInv, Locked
  <2>12. AtMostOne(LivePlaces') /\ Locked'
    BY <2>1, <2>8, <2>9, <2>10, <2>11, LiveMoves DEF AliveInv
  <2>13. m_public_state' = "running" => e \in Starts \/ m_public_state = "running"
    BY <2>1, <2>2 DEF SetPublicState, Starts
  <2>14. Has(public_queue', AgainStops) => m_public_state' # "running" /\ hijack' = "none"
    BY <2>1, <2>2, <2>3, <2>13 DEF AliveInv, StaleInv
  <2>15. StaleInv' /\ RequestInv'
    BY <2>1, <2>3, <2>14 DEF AliveInv, StaleInv, RequestInv
  <2> QED BY <2>1, <2>2, <2>6, <2>12, <2>15 DEF AliveInv
<1>4. CASE CallRemoves
  <2> DEFINE e == Head(hijack_queue)
  <2>1. /\ hijack_queue # <<>> /\ hijack_queue' = Tail(hijack_queue) /\ SetPublicState("api", e)
        /\ thread["api"].pc = "wait"
        /\ UNCHANGED <<m_private_state, private_queue, public_queue, call, m_running, continues,
                       hijack>>
    BY <1>4 DEF CallRemoves, At
  <2>2. /\ e \in Event /\ One(hijack_queue', Finals) /\ e \notin Exits
        /\ Has(hijack_queue', Finals) => Has(hijack_queue, Finals)
        /\ e \in Finals => Has(hijack_queue, Finals) /\ ~Has(hijack_queue', Finals)
    BY <1>0, <1>1, <2>1, QueueTail DEF AliveInv
  <2> HIDE DEF e
  <2>3. Unlocks(e) => e \in Finals
    BY <2>2 DEF Unlocks, StateIsStoppedState, Finals, Final, Exits
  <2>4. PICK pc \in {"unlock", "act", "restore"}, f \in {e, NoEvent} :
          /\ GotoWith("api", pc, f) /\ (pc = "unlock" => e \in Finals)
          /\ pc # "restore" => f = e /\ e.state \in States
    BY <1>2, <2>1, <2>2, <2>3 DEF SetPublicState
  <2>5. /\ thread'["api"].pc = pc /\ thread'["api"].event = f
        /\ thread'["handler"] = thread["handler"] /\ thread'["pst"] = thread["pst"]
    BY <1>1, <2>4, ThreadsGo DEF Threads
  <2>6. CallIsLive' => e \in Finals
    BY <2>4, <2>5 DEF CallIsLive, At, Held
  <2>7. \A p \in LivePlaces' : p # "api" => p \in LivePlaces
    BY <2>1, <2>2, <2>5, LiveMeans, LiveMeansNext
  <2>8. "api" \in LivePlaces' => "hijack" \in LivePlaces /\ "hijack" \notin LivePlaces'
    BY <2>2, <2>6, LiveMeans, LiveMeansNext
  <2>9. "hijack" \in LivePlaces => m_running
    BY DEF AliveInv, Locked
  <2>10. AtMostOne(LivePlaces') /\ Locked'
    BY <2>1, <2>7, <2>8, <2>9, LiveMoves DEF AliveInv
  <2>11. ~Has(public_queue, AgainStops)
    BY <2>1 DEF SideInv, AgainInv, Hijacks, AliveInv, StaleInv
  <2>12. StaleInv' /\ RequestInv'
    BY <2>1, <2>11 DEF AliveInv, StaleInv, RequestInv
  <2> QED BY <2>1, <2>2, <2>4, <2>5, <2>10, <2>12 DEF AliveInv
<1> QED BY <1>3, <1>4

(* SetPublicState releases the lock; an action that continues takes the run *)
(* from the call back to the inferior.                                      *)
LEMMA ActionsLive ==
  ASSUME IInv, SideInv, AliveInv, connected, "run lock" \notin void',
         NEW t \in {"api", "handler"}, SetPublicStateUnlocks(t) \/ PerformActions(t)
  PROVE  AliveInv'
<1> USE DEF vars, inferiorVars, privateVars, publicVars, pstVars, clientVars, callVars
<1>1. ThreadOK /\ t \in Threads /\ DataOK /\ private_queue \in Seq(Event) /\ continues \in Nat
  BY DEF IInv, Threads, DataOK
<1>2. CASE SetPublicStateUnlocks(t)
  <2>1. /\ thread[t].pc = "unlock" /\ thread'[t].pc = "act" /\ thread'[t].event = thread[t].event
        /\ \A u \in Threads \ {t} : thread'[u] = thread[u]
    BY <1>1, <1>2, ThreadsGo DEF SetPublicStateUnlocks, At
  <2>2. t \in LivePlaces
    BY <2>1, LiveMeans DEF CallIsLive
  <2>3. t = "api" => thread'[t].event.state \in States
    BY <2>1 DEF AliveInv
  <2>4. UNCHANGED <<m_private_state, private_queue, public_queue, hijack_queue, continues,
                    m_public_state, hijack, call>>
    BY <1>2 DEF SetPublicStateUnlocks
  <2> QED BY <2>1, <2>2, <2>3, <2>4, ReleaseLive
<1>3. ASSUME thread[t].pc = "act", t = "api"
      PROVE  thread[t].event \in Event /\ thread[t].event.state \in {"stopped", "running"}
  <2>1. thread["api"].event \in Event \union {NoEvent} /\ thread["api"].event.state \in States
    BY <1>1, <1>3 DEF AliveInv, ThreadOK, Threads
  <2>2. thread["api"].event \in Event
    <3>1. NoEvent.state \notin States
      BY DEF NoEvent, States
    <3> QED BY <2>1, <3>1
  <2>3. thread["api"].event \notin Exits
    BY NoExits DEF SideInv, Threads
  <2> QED BY <1>3, <2>1, <2>2, <2>3 DEF Exits, States
<1>4. CASE /\ At(t, "act") /\ AfterRemoval(t, Held(t))
           /\ UNCHANGED <<privateVars, inferiorVars, publicVars, pstVars, looker, looks, callVars>>
  <2>1. /\ thread[t].pc = "act" /\ AfterRemoval(t, thread[t].event)
        /\ UNCHANGED <<m_private_state, private_queue, public_queue, hijack_queue, call, m_running,
                       continues, m_public_state, hijack>>
    BY <1>4 DEF At, Held
  <2>2. CASE t = "handler"
    <3>1. GotoWith("handler", "idle", NoEvent)
      BY <2>1, <2>2 DEF AfterRemoval
    <3>2. /\ thread'["handler"].pc = "idle"
          /\ thread'["api"] = thread["api"] /\ thread'["pst"] = thread["pst"]
      BY <1>1, <3>1, ThreadsGo DEF Threads
    <3>3. CallIsLive' <=> CallIsLive
      BY <2>1, <3>2 DEF CallIsLive, At, Held
    <3>4. \A p \in LivePlaces' : p \in LivePlaces
      BY <2>1, <3>2, <3>3, LiveMeans, LiveMeansNext
    <3>5. "api" \in LivePlaces' => m_running \/ thread'["api"].pc \in {"act", "released"}
      BY <3>2, <3>4 DEF AliveInv, Locked
    <3>6. AtMostOne(LivePlaces') /\ Locked'
      BY <2>1, <3>4, <3>5, LiveMoves DEF AliveInv
    <3> QED BY <2>1, <3>2, <3>6 DEF AliveInv, StaleInv, RequestInv
  <2>3. CASE t = "api"
    <3> DEFINE e == thread["api"].event
    <3>1. e \in Event /\ e.state \in {"stopped", "running"}
      BY <1>3, <2>1, <2>3
    <3> HIDE DEF e
    <3>2. PICK pc \in {"wait", "released"} :
            GotoWith("api", pc, e) /\ (pc = "released" => e.state # "running" /\ ~e.restarted)
      BY <2>1, <2>3 DEF AfterRemoval, e
    <3>3. pc = "released" => e \in Finals
      BY <3>1, <3>2 DEF Finals, Final
    <3>4. thread'["api"].pc = pc /\ \A u \in Threads \ {"api"} : thread'[u] = thread[u]
      BY <1>1, <3>2, ThreadsGo DEF Threads
    <3>5. CallIsLive' => CallIsLive /\ thread'["api"].pc = "released"
      BY <2>1, <2>3, <3>3, <3>4 DEF CallIsLive, At, Held, e
    <3> QED BY <2>1, <3>4, <3>5, CallStepLive
  <2> QED BY <2>2, <2>3
<1>5. ASSUME NEW outcome \in ResumeOutcomes(ContinueFaults), PrivateResume(outcome, private_queue),
             ~ActionResumes(t, outcome), At(t, "act"), Held(t).state = "stopped", ~Held(t).restarted,
             AfterRemoval(t, [Held(t) EXCEPT !.restarted = TRUE]),
             UNCHANGED <<publicVars, pstVars, looker, looks, callVars>>
      PROVE  AliveInv'
  <2>1. t = "api" /\ m_running /\ outcome # "error" /\ thread["api"].pc = "act"
    BY <1>5 DEF ActionResumes, At
  <2>2. thread["api"].event \in Event
    BY <1>3, <2>1
  <2>3. Held("api") \in Finals
    BY <1>5, <2>1, <2>2 DEF Finals, Final, Held
  <2>4. "api" \in LivePlaces
    BY <2>1, <2>3, LiveMeans DEF CallIsLive, At
  <2>5. \A p \in LivePlaces : p = "api"
    BY <2>4 DEF AliveInv, AtMostOne
  <2>6. ~Has(private_queue, Moves) /\ m_private_state # "running" /\ continues = 0
    <3>1. ~Has(private_queue, Moves) /\ m_private_state # "running" /\ ~(continues > 0)
      BY <2>5, LiveMeans
    <3>2. continues = 0
      BY <1>1, <3>1, NoneOrSome
    <3> QED BY <3>1, <3>2
  <2>7. [Held("api") EXCEPT !.restarted = TRUE].restarted
    BY <2>2, NewEvents DEF Held
  <2>8. GotoWith("api", "wait", [Held("api") EXCEPT !.restarted = TRUE])
    BY <1>5, <2>1, <2>7 DEF AfterRemoval
  <2>9. thread'["api"].pc = "wait" /\ \A u \in Threads \ {"api"} : thread'[u] = thread[u]
    BY <1>1, <2>1, <2>8, ThreadsGo
  <2>10. thread'["pst"] = thread["pst"] /\ thread'["handler"] = thread["handler"]
    BY <2>9 DEF Threads
  <2>11. /\ LastStop(private_queue') /\ RequestInv'
         /\ m_private_state' = "running" => ~Has(private_queue', Stops)
    BY <1>1, <1>5, <2>6, ResumeLive DEF AliveInv
  <2>12. UNCHANGED <<public_queue, hijack_queue, m_running, m_public_state, hijack>>
    BY <1>5
  <2>13. "api" \notin LivePlaces'
    BY <2>9, LiveMeansNext DEF CallIsLive, At
  <2>14. \A p \in LivePlaces' : p # "private" => p \in LivePlaces
    BY <2>10, <2>12, <2>13, LiveMeans, LiveMeansNext
  <2>15. AtMostOne(LivePlaces') /\ Locked'
    BY <2>1, <2>4, <2>12, <2>13, <2>14, LiveMoves DEF AliveInv
  <2>16. StaleInv'
    BY <2>12 DEF AliveInv, StaleInv
  <2> QED BY <2>9, <2>11, <2>12, <2>15, <2>16 DEF AliveInv
<1>6. CASE PerformActions(t)
  <2>1. CASE \E outcome \in ResumeOutcomes(ContinueFaults) :
               /\ PrivateResume(outcome, private_queue) /\ ~ActionResumes(t, outcome)
               /\ At(t, "act") /\ Held(t).state = "stopped" /\ ~Held(t).restarted
               /\ AfterRemoval(t, [Held(t) EXCEPT !.restarted = TRUE])
               /\ UNCHANGED <<publicVars, pstVars, looker, looks, callVars>>
    BY <1>5, <2>1
  <2> QED BY <1>4, <1>6, <2>1 DEF PerformActions, VoidIf
<1> QED BY <1>2, <1>6

(* AsyncThread comes to the request.                                        *)
LEMMA AsyncThreadContinuesLive ==
  ASSUME IInv, AliveInv, AsyncThreadContinues
  PROVE  AliveInv'
<1> USE DEF vars, inferiorVars, privateVars, publicVars, pstVars, clientVars, callVars
<1>1. /\ continues > 0 /\ continues' = continues - 1 /\ SetPrivateState("running")
      /\ UNCHANGED <<public_queue, hijack_queue, thread, call, m_running, m_public_state, hijack>>
  BY DEF AsyncThreadContinues
<1>2. continues = 1 /\ m_private_state # "running" /\ ~Has(private_queue, Moves)
  BY <1>1 DEF AliveInv, RequestInv
<1>3. continues' = 0
  <2>1. continues = 1 /\ continues' = continues - 1
    BY <1>1, <1>2
  <2> QED BY <2>1
<1>4. /\ m_private_state' = "running"
      /\ private_queue' = Append(private_queue, NewEvent("running"))
  BY <1>1, <1>2 DEF SetPrivateState
<1>5. /\ NewEvent("running") \in Event /\ NewEvent("running") \notin Stops
      /\ private_queue \in Seq(Event) /\ ~Has(private_queue, Stops)
  BY <1>2, NewEvents DEF IInv, DataOK, States, Stops, Moves, Has
<1>6. LastStop(private_queue') /\ ~Has(private_queue', Stops)
  BY <1>4, <1>5, LastStopAppend, QueueAppend DEF AliveInv
<1>7. RequestInv'
  <2>1. ~(continues' > 0)
    BY <1>3, NoneOrSome
  <2> QED BY <2>1 DEF RequestInv
<1>8. CallIsLive' <=> CallIsLive
  BY <1>1 DEF CallIsLive, At, Held
<1>9. \A p \in LivePlaces' : p \in LivePlaces
  BY <1>1, <1>8, LiveMeans, LiveMeansNext
<1>10. "api" \in LivePlaces' => m_running \/ thread'["api"].pc \in {"act", "released"}
  BY <1>1, <1>9 DEF AliveInv, Locked
<1>11. AtMostOne(LivePlaces') /\ Locked'
  BY <1>1, <1>9, <1>10, LiveMoves DEF AliveInv
<1> QED BY <1>1, <1>6, <1>7, <1>11 DEF AliveInv, StaleInv

(* The stop of the inferior is where its run is.                            *)
LEMMA AsyncThreadStopsLive ==
  ASSUME IInv, SideInv, AliveInv, connected, AsyncThreadStops
  PROVE  AliveInv'
<1> USE DEF vars, inferiorVars, privateVars, publicVars, pstVars, clientVars, callVars
<1>1. m_private_state = "running"
  BY DEF AsyncThreadStops, SideInv, ConnInv
<1>2. /\ m_private_state' = "stopped"
      /\ private_queue' = Append(private_queue, NewEvent("stopped"))
      /\ UNCHANGED <<public_queue, hijack_queue, thread, call, m_running, continues, m_public_state,
                     hijack>>
  BY <1>1 DEF AsyncThreadStops, SetPrivateState
<1>3. /\ ~Has(private_queue, Stops) /\ private_queue \in Seq(Event) /\ NewEvent("stopped") \in Event
  BY <1>1, NewEvents DEF AliveInv, IInv, DataOK, States
<1>4. LastStop(private_queue')
  BY <1>2, <1>3, LastStopAppend DEF AliveInv
<1>5. CallIsLive' <=> CallIsLive
  BY <1>2 DEF CallIsLive, At, Held
<1>6. \A p \in LivePlaces' : p \in LivePlaces
  BY <1>1, <1>2, <1>5, LiveMeans, LiveMeansNext
<1>7. "api" \in LivePlaces' => m_running \/ thread'["api"].pc \in {"act", "released"}
  BY <1>2, <1>6 DEF AliveInv, Locked
<1>8. AtMostOne(LivePlaces') /\ Locked'
  BY <1>2, <1>6, <1>7, LiveMoves DEF AliveInv
<1>9. RequestInv' /\ StaleInv'
  BY <1>1, <1>2 DEF AliveInv, RequestInv, StaleInv
<1> QED BY <1>2, <1>4, <1>8, <1>9 DEF AliveInv

(* The private state thread takes a move off its queue: a stop ends the     *)
(* run's stay there unless the process is resumed at once.                  *)
LEMMA TakesLive ==
  ASSUME IInv, AliveInv,
         UNCHANGED <<public_queue, hijack_queue, call, m_running, m_public_state, hijack>>,
         thread'["api"] = thread["api"] /\ thread'["handler"] = thread["handler"],
         LastStop(private_queue'), m_private_state' = "running" => ~Has(private_queue', Stops),
         RequestInv',
         "private" \in LivePlaces' => "private" \in LivePlaces,
         "pst" \in LivePlaces' => \/ "pst" \in LivePlaces
                                  \/ "private" \in LivePlaces /\ "private" \notin LivePlaces'
  PROVE  AliveInv'
<1>1. CallIsLive' <=> CallIsLive
  BY DEF CallIsLive, At, Held
<1>2. \A p \in LivePlaces' : p # "pst" => p \in LivePlaces
  BY <1>1, LiveMeans, LiveMeansNext
<1>3. "private" \in LivePlaces => m_running
  BY DEF AliveInv, Locked
<1>4. "api" \in LivePlaces' => m_running \/ thread'["api"].pc \in {"act", "released"}
  BY <1>2 DEF AliveInv, Locked
<1>5. AtMostOne(LivePlaces') /\ Locked'
  BY <1>2, <1>3, <1>4, LiveMoves DEF AliveInv
<1> QED BY <1>5 DEF AliveInv, StaleInv

(* The private state thread continues the run or passes its stop on.        *)
LEMMA PrivateThreadLive ==
  ASSUME IInv, SideInv, AliveInv, connected, RunPrivateStateThread
  PROVE  AliveInv'
<1> USE DEF vars, inferiorVars, privateVars, publicVars, pstVars, clientVars, callVars
<1>1. /\ ThreadOK /\ HeldOK /\ DataOK /\ "pst" \in Threads /\ continues \in Nat
      /\ private_queue \in Seq(Event) /\ LastStop(private_queue) /\ ~Has(private_queue, Exits)
      /\ thread["pst"].event \notin Exits
  BY NoExits DEF IInv, DataOK, Threads, AliveInv, SideInv
<1> DEFINE h == Head(private_queue)
           t == Tail(private_queue)
<1>2. ASSUME private_queue # <<>>
      PROVE  /\ h \in Event /\ t \in Seq(Event) /\ LastStop(t) /\ h \notin Exits
             /\ Has(t, Moves) => Has(private_queue, Moves)
             /\ Has(t, Stops) => Has(private_queue, Stops)
             /\ h \in Moves => Has(private_queue, Moves)
             /\ h \in Stops => Has(private_queue, Stops)
             /\ h.state = "stopped" => ~Has(t, Moves)
  BY <1>1, <1>2, QueueTail, LastStopTail
<1>3. ASSUME NEW f, GotoWith("pst", "broadcast", f)
      PROVE  /\ thread'["pst"].pc = "broadcast" /\ thread'["pst"].event = f
             /\ thread'["api"] = thread["api"] /\ thread'["handler"] = thread["handler"]
  BY <1>1, <1>3, ThreadsGo DEF Threads
<1>4. CASE TakesInterrupt \/ TakesRunning
  <2>1. /\ private_queue # <<>> /\ private_queue' = t /\ At("pst", "idle")
        /\ UNCHANGED <<public_queue, hijack_queue, call, m_running, m_private_state, continues,
                       m_public_state, hijack>>
    BY <1>4 DEF TakesInterrupt, TakesRunning, Takes
  <2>2. thread' = thread \/ (h.state = "running" /\ GotoWith("pst", "broadcast", h))
    BY <1>4 DEF TakesInterrupt, TakesRunning, Takes, Suppresses, Broadcasts
  <2> HIDE DEF h, t
  <2>3. /\ thread'["api"] = thread["api"] /\ thread'["handler"] = thread["handler"]
        /\ thread'["pst"].event \in Finals => thread["pst"].event \in Finals
    BY <1>2, <1>3, <2>1, <2>2 DEF At, Finals, Final
  <2>4. "private" \in LivePlaces' => "private" \in LivePlaces
    BY <1>2, <2>1, LiveMeans, LiveMeansNext
  <2>5. "pst" \in LivePlaces' => "pst" \in LivePlaces
    BY <2>3, LiveMeans, LiveMeansNext
  <2>6. LastStop(private_queue') /\ (m_private_state' = "running" => ~Has(private_queue', Stops))
    BY <1>1, <1>2, <2>1 DEF AliveInv
  <2>7. RequestInv'
    BY <1>2, <2>1 DEF AliveInv, RequestInv
  <2> QED BY <2>1, <2>3, <2>4, <2>5, <2>6, <2>7, TakesLive
<1>5. ASSUME private_queue # <<>>, h.state = "stopped"
      PROVE  /\ "private" \in LivePlaces /\ ~Has(t, Moves) /\ ~Has(t, Stops)
             /\ m_private_state # "running" /\ continues = 0
  <2>1. h \in Moves /\ h \in Stops
    BY <1>2, <1>5 DEF Moves, Stops
  <2>2. ~Has(t, Moves) /\ Has(private_queue, Moves) /\ Has(private_queue, Stops)
    BY <1>2, <1>5, <2>1
  <2> HIDE DEF h, t
  <2>3. ~Has(t, Stops)
    BY <2>2 DEF Has, Moves, Stops
  <2>4. ~(continues > 0)
    BY <2>2 DEF AliveInv, RequestInv
  <2>5. continues = 0
    BY <1>1, <2>4, NoneOrSome
  <2> QED BY <2>2, <2>3, <2>5, LiveMeans DEF AliveInv
<1>6. CASE TakesStop \/ TakesInterruptedStop
  <2>1. /\ private_queue # <<>> /\ private_queue' = t /\ h.state = "stopped"
        /\ UNCHANGED <<public_queue, hijack_queue, call, m_running, m_private_state, continues,
                       m_public_state, hijack>>
    BY <1>6 DEF TakesStop, TakesInterruptedStop, Takes
  <2>2. PICK f \in {h, [h EXCEPT !.interrupted = TRUE]} : GotoWith("pst", "broadcast", f)
    BY <1>6 DEF TakesStop, TakesInterruptedStop, Broadcasts
  <2> HIDE DEF h, t
  <2>3. /\ thread'["api"] = thread["api"] /\ thread'["handler"] = thread["handler"]
    BY <1>3, <2>2
  <2>4. ~(continues' > 0)
    <3>1. continues' = 0
      BY <1>5, <2>1
    <3> QED BY <3>1, NoneOrSome
  <2>5. "private" \in LivePlaces /\ "private" \notin LivePlaces'
    BY <1>5, <2>1, <2>4, LiveMeansNext
  <2>6. LastStop(private_queue') /\ m_private_state' # "running" /\ RequestInv'
    BY <1>2, <1>5, <2>1, <2>4 DEF RequestInv
  <2> QED BY <2>1, <2>3, <2>5, <2>6, TakesLive
<1>7. CASE TakesStopAndResumes
  <2>1. /\ private_queue # <<>> /\ h.state = "stopped" /\ At("pst", "idle")
        /\ \E outcome \in ResumeOutcomes(ContinueFaults) : PrivateResume(outcome, t)
        /\ UNCHANGED <<public_queue, hijack_queue, call, m_running, m_public_state, hijack>>
        /\ thread' = thread \/ GotoWith("pst", "broadcast", [h EXCEPT !.restarted = TRUE])
    BY <1>7 DEF TakesStopAndResumes, Takes, Suppresses, Broadcasts
  <2> HIDE DEF h, t
  <2>2. /\ LastStop(private_queue') /\ RequestInv'
        /\ m_private_state' = "running" => ~Has(private_queue', Stops)
    BY <1>1, <1>2, <1>5, <2>1, ResumeLive
  <2>3. [h EXCEPT !.restarted = TRUE] \notin Finals
    BY <1>2, <2>1, NewEvents DEF Finals, Final
  <2>4. /\ thread'["api"] = thread["api"] /\ thread'["handler"] = thread["handler"]
        /\ thread'["pst"].event \in Finals => thread["pst"].event \in Finals
    BY <1>3, <2>1, <2>3
  <2>5. "private" \in LivePlaces /\ ("pst" \in LivePlaces' => "pst" \in LivePlaces)
    BY <1>5, <2>1, <2>4, LiveMeans, LiveMeansNext
  <2> QED BY <2>1, <2>2, <2>4, <2>5, TakesLive
<1>8. CASE TakesExit
  <2>1. private_queue # <<>> /\ h.state = "exited"
    BY <1>8 DEF TakesExit, Takes
  <2> QED BY <1>2, <2>1 DEF Exits
<1>9. CASE BroadcastsPublicly
  <2> DEFINE e == Held("pst")
  <2>1. /\ e \in Event /\ BroadcastEvent(e) /\ e = thread["pst"].event
        /\ UNCHANGED <<call, m_private_state, private_queue, m_running, continues, m_public_state,
                       hijack>>
    BY <1>1, <1>9 DEF BroadcastsPublicly, HeldOK, Held
  <2>2. GotoWith("pst", "idle", NoEvent) /\ e \notin Agains
    BY <1>1, <1>9, <2>1 DEF BroadcastsPublicly, Exits, SideInv, AgainInv
  <2> HIDE DEF e
  <2>3. /\ thread'["pst"].pc = "idle" /\ thread'["pst"].event = NoEvent
        /\ thread'["api"] = thread["api"] /\ thread'["handler"] = thread["handler"]
    BY <1>1, <2>2, ThreadsGo DEF Threads
  <2>4. /\ e \in Fresh <=> e \in Finals
        /\ e \notin AgainStops
    BY <2>1, <2>2 DEF Fresh, Agains, AgainStops
  <2>5. PICK b \in {"public", "hijack"} :
          /\ Has(public_queue', Fresh) => Has(public_queue, Fresh) \/ (b = "public" /\ e \in Finals)
          /\ Has(hijack_queue', Finals) => Has(hijack_queue, Finals) \/ (b = "hijack" /\ e \in Finals)
    BY <1>1, <2>1, <2>4, BroadcastMeans
  <2>6. CallIsLive' <=> CallIsLive
    BY <2>1, <2>3 DEF CallIsLive, At, Held
  <2>7. NoEvent \notin Finals
    BY NewEvents DEF Finals
  <2>8. \A p \in LivePlaces' : p # b => p \in LivePlaces
    BY <2>1, <2>3, <2>5, <2>6, <2>7, LiveMeans, LiveMeansNext
  <2>9. b \in LivePlaces' => b \in LivePlaces \/ ("pst" \in LivePlaces /\ "pst" \notin LivePlaces')
    BY <2>1, <2>3, <2>5, <2>7, LiveMeans, LiveMeansNext
  <2>10. "api" \in LivePlaces' => m_running \/ thread'["api"].pc \in {"act", "released"}
    BY <2>3, <2>8 DEF AliveInv, Locked
  <2>11. "pst" \in LivePlaces => m_running
    BY DEF AliveInv, Locked
  <2>12. AtMostOne(LivePlaces') /\ Locked'
    BY <2>1, <2>8, <2>9, <2>10, <2>11, LiveMoves DEF AliveInv
  <2>13. e \in Finals => ~Has(public_queue, Fresh) /\ ~Has(hijack_queue, Finals)
    BY <2>1, LiveMeans DEF AliveInv, AtMostOne
  <2>14. One(public_queue', Fresh) /\ One(hijack_queue', Finals)
    BY <1>1, <2>1, <2>4, <2>13, BroadcastMeans DEF AliveInv
  <2>15. StaleInv'
    BY <1>1, <2>1, <2>4, BroadcastStale DEF AliveInv
  <2> QED BY <2>1, <2>3, <2>12, <2>14, <2>15 DEF AliveInv, RequestInv
<1>10. CASE PrivateStateThreadEnds
  BY <1>10 DEF PrivateStateThreadEnds, At, SideInv, ConnInv, PstEnds
<1> QED BY <1>4, <1>6, <1>7, <1>8, <1>9, <1>10 DEF RunPrivateStateThread

(* A promise that is void stays void.                                       *)
LEMMA VoidGrows == ASSUME IInv, [Next]_vars PROVE void \subseteq void'
<1> USE DEF vars, inferiorVars, privateVars, publicVars, pstVars, clientVars, callVars
<1>1. \A lapse, promises : VoidIf(lapse, promises) => void \subseteq void'
  BY DEF VoidIf
<1>2. CASE UNCHANGED vars
  BY <1>2
<1>3. CASE (\E c \in Calls : Resume(c)) \/ Halt \/ Destroy \/ AsyncInterrupt \/ HijackProcessEvents
           \/ CallResumes \/ CallUndoes \/ CallInterrupts \/ CallEntersWait \/ CallRemoves
           \/ SetPublicStateUnlocks("api") \/ PerformActions("api") \/ CallTimesOut
           \/ WaitReleasesLock \/ CallRestores
  BY <1>1, <1>3 DEF Resume, Halt, Destroy, AsyncInterrupt, HijackProcessEvents, CallResumes,
       CallUndoes, CallInterrupts, CallEntersWait, CallRemoves, SetPublicStateUnlocks,
       PerformActions, CallTimesOut, WaitReleasesLock, CallRestores
<1>4. CASE HaltBroadcasts \/ DoDestroy \/ StopAsyncThread \/ DestroyJoins \/ DestroyForwards
           \/ DestroyReturns \/ HandlerSteps
  BY <1>1, <1>4 DEF HaltBroadcasts, DoDestroy, StopAsyncThread, DestroyJoins, DestroyForwards,
       DestroyReturns, HandlerSteps, HandlerRemoves, SetPublicStateUnlocks, PerformActions
<1>5. CASE RunPrivateStateThread
  BY <1>1, <1>5 DEF RunPrivateStateThread, TakesInterrupt, TakesRunning, TakesInterruptedStop,
       TakesStop, TakesStopAndResumes, TakesExit, BroadcastsPublicly, PrivateStateThreadEnds
<1>6. CASE AsyncThread \/ InferiorStops \/ InferiorExits \/ DebugserverDies
           \/ ReadTryLock \/ LockAPIMutex \/ ReadUnlock
  BY <1>1, <1>6 DEF AsyncThread, AsyncThreadContinues, ContinueLockSuccess, AsyncThreadStops,
       AsyncThreadFails, InferiorStops, InferiorExits, DebugserverDies, ReadTryLock,
       LockAPIMutex, ReadUnlock
<1> QED BY <1>2, <1>3, <1>4, <1>5, <1>6 DEF Next, CallSteps

(* Whoever changes the private state: the plugin and those that resume.     *)
LEMMA PrivateStateStays ==
  ASSUME [Next]_vars
  PROVE  \/ UNCHANGED <<m_private_state, connected>>
         \/ CallResumes \/ TakesStopAndResumes \/ PerformActions("api") \/ PerformActions("handler")
         \/ AsyncThreadContinues \/ AsyncThreadStops
         \/ m_private_state' = "exited" /\ ~connected' /\ UNCHANGED <<m_running, looker>>
<1> USE DEF vars, inferiorVars, privateVars, publicVars, pstVars, clientVars, callVars
<1>1. CASE UNCHANGED vars
  BY <1>1
<1>2. CASE (\E c \in Calls : Resume(c)) \/ Halt \/ Destroy \/ AsyncInterrupt
  BY <1>2 DEF Resume, Halt, Destroy, AsyncInterrupt
<1>3. CASE HijackProcessEvents \/ CallUndoes \/ CallInterrupts
           \/ CallEntersWait \/ CallRemoves \/ SetPublicStateUnlocks("api")
           \/ CallTimesOut \/ WaitReleasesLock \/ CallRestores
           \/ HaltBroadcasts \/ StopAsyncThread \/ DestroyJoins \/ DestroyForwards \/ DestroyReturns
  BY <1>3 DEF HijackProcessEvents, CallUndoes, CallInterrupts, CallEntersWait, CallRemoves,
       SetPublicStateUnlocks, CallTimesOut, WaitReleasesLock, CallRestores, HaltBroadcasts,
       StopAsyncThread, DestroyJoins, DestroyForwards, DestroyReturns
<1>4. CASE HandlerRemoves \/ SetPublicStateUnlocks("handler")
           \/ ReadTryLock \/ LockAPIMutex \/ ReadUnlock
  BY <1>4 DEF HandlerRemoves, SetPublicStateUnlocks, ReadTryLock, LockAPIMutex, ReadUnlock
<1>5. CASE TakesInterrupt \/ TakesRunning \/ TakesInterruptedStop \/ TakesStop \/ TakesExit
           \/ BroadcastsPublicly \/ PrivateStateThreadEnds
  BY <1>5 DEF TakesInterrupt, TakesRunning, TakesInterruptedStop, TakesStop, TakesExit,
       BroadcastsPublicly, PrivateStateThreadEnds
<1>6. CASE ContinueLockSuccess \/ InferiorStops
  BY <1>6 DEF ContinueLockSuccess, InferiorStops
<1>7. CASE DoDestroy \/ AsyncThreadFails \/ InferiorExits \/ DebugserverDies
  BY <1>7 DEF DoDestroy, AsyncThreadFails, InferiorExits, DebugserverDies, SetExitStatus,
       SetPrivateState
<1> QED BY <1>1, <1>2, <1>3, <1>4, <1>5, <1>6, <1>7
     DEF Next, CallSteps, HandlerSteps, RunPrivateStateThread, AsyncThread

(* A resume runs the inferior only when it is stopped and connected.        *)
LEMMA ResumesRun ==
  ASSUME IInv, CallResumes \/ TakesStopAndResumes \/ PerformActions("api") \/ PerformActions("handler")
  PROVE  /\ \/ m_private_state' = m_private_state
            \/ m_private_state = "stopped" /\ m_private_state' = "running" /\ connected
         /\ UNCHANGED <<m_running, looker, connected>>
<1> USE DEF vars, inferiorVars, privateVars, publicVars, pstVars, clientVars, callVars
<1>1. DataOK /\ private_queue \in Seq(Event)
  BY DEF IInv, DataOK
<1>2. ASSUME NEW faults \in {ResumeFaults, ContinueFaults}, NEW outcome \in ResumeOutcomes(faults),
             NEW q \in Seq(Event), PrivateResume(outcome, q)
      PROVE  /\ \/ m_private_state' = m_private_state
                \/ m_private_state = "stopped" /\ m_private_state' = "running" /\ connected
             /\ connected' = connected
  BY <1>1, <1>2, ResumeMeans
<1>3. CASE CallResumes
  BY <1>1, <1>2, <1>3 DEF CallResumes
<1>4. CASE TakesStopAndResumes
  <2>1. private_queue # <<>> /\ Tail(private_queue) \in Seq(Event)
    BY <1>1, <1>4, QueueTail DEF TakesStopAndResumes, Takes
  <2> QED BY <1>2, <1>4, <2>1 DEF TakesStopAndResumes
<1>5. CASE PerformActions("api") \/ PerformActions("handler")
  BY <1>1, <1>2, <1>5 DEF PerformActions
<1> QED BY <1>3, <1>4, <1>5

(* After the exit nothing runs.                                             *)
LEMMA NotRunning ==
  ASSUME IInv, [Next]_vars, ~connected => m_private_state # "running",
         "run lock" \notin void', ~connected'
  PROVE  m_private_state' # "running"
<1>1. CASE CallResumes \/ TakesStopAndResumes \/ PerformActions("api") \/ PerformActions("handler")
  <2>1. /\ \/ m_private_state' = m_private_state
           \/ m_private_state = "stopped" /\ m_private_state' = "running" /\ connected
        /\ connected' = connected
    BY <1>1, ResumesRun
  <2>2. ~connected
    BY <2>1, Zenon
  <2> QED BY <2>1, <2>2
<1>2. CASE AsyncThreadContinues
  <2>1. connected
    BY <1>2 DEF AsyncThreadContinues, VoidIf, RunsUnconnected
  <2> QED BY <1>2, <2>1 DEF AsyncThreadContinues
<1>3. CASE AsyncThreadStops
  BY <1>3 DEF AsyncThreadStops, SetPrivateState
<1> QED BY <1>1, <1>2, <1>3, PrivateStateStays

(* Every step keeps the run in one place, under the lock.                   *)
LEMMA LockStep ==
  ASSUME IInv, SideInv, SideInv', LockInv, [Next]_vars PROVE LockInv'
<1> USE DEF vars, inferiorVars, privateVars, publicVars, pstVars, clientVars, callVars
<1> SUFFICES ASSUME "run lock" \notin void'
             PROVE  IF connected' THEN AliveInv' ELSE m_private_state' # "running"
  BY DEF LockInv
<1>1. IF connected THEN AliveInv ELSE m_private_state # "running"
  BY VoidGrows DEF LockInv
<1>2. CASE ~connected'
  BY <1>1, <1>2, NotRunning
<1>3. CASE connected' /\ ~connected
  BY <1>3, PrivateStateStays, ResumesRun DEF AsyncThreadContinues, AsyncThreadStops
<1>4. CASE connected' /\ connected
  <2>1. AliveInv
    BY <1>1, <1>4
  <2>2. CASE \/ UNCHANGED vars \/ ReadTryLock \/ LockAPIMutex \/ ReadUnlock
             \/ ContinueLockSuccess \/ InferiorStops
    BY <1>4, <2>1, <2>2, LiveStays DEF ReadTryLock, LockAPIMutex, ReadUnlock, ContinueLockSuccess,
                                 InferiorStops
  <2>3. CASE AsyncInterrupt
    BY <1>4, <2>1, <2>3, InterruptLive DEF AsyncInterrupt
  <2>4. CASE CallInterrupts
    <3>1. /\ thread'["api"].pc = "enter" /\ \A u \in Threads \ {"api"} : thread'[u] = thread[u]
      BY <2>4, ThreadsGo DEF CallInterrupts, IInv, Threads
    <3> QED BY <1>4, <2>1, <2>4, <3>1, InterruptLive DEF CallInterrupts, At
  <2>5. CASE InferiorExits \/ DoDestroy \/ AsyncThreadFails \/ DebugserverDies
    BY <1>4, <2>5 DEF InferiorExits, DoDestroy, AsyncThreadFails, DebugserverDies, SetExitStatus
  <2>6. CASE StopAsyncThread \/ DestroyJoins \/ DestroyForwards \/ DestroyReturns
    BY <1>4, <2>6 DEF StopAsyncThread, DestroyJoins, DestroyForwards, DestroyReturns, At,
                      SideInv, ConnInv
  <2>7. CASE HaltBroadcasts
    BY <1>4, <2>1, <2>7, HaltBroadcastsLive DEF SideInv
  <2> QED BY <1>4, <2>1, <2>2, <2>3, <2>4, <2>5, <2>6, <2>7, CallsLive, CallResumesLive,
             CallRestoresLive, RemovalLive, ActionsLive, AsyncThreadContinuesLive,
             AsyncThreadStopsLive, PrivateThreadLive
       DEF Next, CallSteps, HandlerSteps, AsyncThread
<1> QED BY <1>2, <1>3, <1>4

(* Nothing runs when the process has been launched.                         *)
LEMMA LockInit == Init => LockInv
<1> SUFFICES ASSUME Init PROVE LockInv
  OBVIOUS
<1>1. /\ \A t \in Threads : thread[t].pc = "idle" /\ thread[t].event = NoEvent
      /\ "api" \in Threads /\ "handler" \in Threads /\ "pst" \in Threads
  BY DEF Init, Threads
<1>2. /\ m_private_state = "stopped" /\ private_queue = <<>> /\ public_queue = <<>>
      /\ hijack_queue = <<>> /\ connected /\ m_public_state = "stopped"
  BY DEF Init
<1>3. /\ LastStop(<<>>) /\ ~Has(<<>>, Moves) /\ ~Has(<<>>, Finals) /\ One(<<>>, Finals)
      /\ ~Has(<<>>, Fresh) /\ One(<<>>, Fresh) /\ ~Has(<<>>, AgainStops) /\ NoEvent \notin Finals
      /\ InOrder(<<>>)
  BY QueueEmpty, NewEvents DEF Finals, InOrder
<1>4. ~(continues > 0)
  <2>1. continues = 0
    BY DEF Init
  <2> QED BY <2>1, NoneOrSome
<1>5. ~CallIsLive
  BY <1>1 DEF CallIsLive, At
<1>6. LivePlaces = {}
  BY <1>1, <1>2, <1>3, <1>4, <1>5, LiveMeans
<1>7. AtMostOne(LivePlaces) /\ Locked
  BY <1>6 DEF AtMostOne, Locked
<1>8. RequestInv /\ StaleInv
  BY <1>2, <1>3, <1>4 DEF RequestInv, StaleInv
<1> QED BY <1>1, <1>2, <1>3, <1>7, <1>8 DEF LockInv, AliveInv

---------------------------------------------------------------------------
(* The contract *)

(* What is in neither of two sets is in both alike.                         *)
LEMMA InNeither == \A x, s, t : x \notin s /\ x \notin t => (x \in s) = (x \in t)
OBVIOUS

(* The steps of the contract, in the variables of Process.                  *)
LEMMA ContractStep ==
  ASSUME m_running \in BOOLEAN, m_running' \in BOOLEAN, "run lock" \notin void, "run lock" \notin void',
         \/ /\ UNCHANGED <<m_private_state, m_running>>
            /\ looker' = looker \/ (looker # "idle" /\ looker' # "idle")
         \/ ~m_running /\ looker = "idle" /\ m_running' /\ UNCHANGED <<m_private_state, looker>>
         \/ /\ m_running /\ m_private_state = "stopped" /\ m_private_state' = "running"
            /\ UNCHANGED <<m_running, looker>>
         \/ m_private_state' = "stopped" /\ UNCHANGED <<m_running, looker>>
         \/ m_private_state' = "exited" /\ UNCHANGED <<m_running, looker>>
         \/ /\ m_private_state # "running" /\ m_running' = FALSE
            /\ UNCHANGED <<m_private_state, looker>>
         \/ ~m_running /\ looker = "idle" /\ looker' # "idle" /\ UNCHANGED <<m_private_state, m_running>>
         \/ looker # "idle" /\ looker' = "idle" /\ UNCHANGED <<m_private_state, m_running>>
  PROVE  [RunLock!Next]_(RunLock!vars)
<1>1. ("run lock" \in void') = ("run lock" \in void)
  BY InNeither
<1>2. ASSUME UNCHANGED <<m_private_state, m_running>>, (looker' # "idle") = (looker # "idle")
      PROVE  UNCHANGED RunLock!vars
  BY <1>1, <1>2 DEF RunLock!vars
<1>3. ASSUME RunLock!Claim \/ RunLock!Run \/ RunLock!Stop \/ RunLock!Exit \/ RunLock!Grant
             \/ RunLock!Look \/ RunLock!LookAway
      PROVE  RunLock!Next
  BY <1>3 DEF RunLock!Next, RunLock!Kept
<1>4. CASE /\ UNCHANGED <<m_private_state, m_running>>
           /\ looker' = looker \/ (looker # "idle" /\ looker' # "idle")
  BY <1>2, <1>4
<1>5. CASE ~m_running /\ looker = "idle" /\ m_running' /\ UNCHANGED <<m_private_state, looker>>
  BY <1>3, <1>5, Zenon DEF RunLock!Claim
<1>6. CASE /\ m_running /\ m_private_state = "stopped" /\ m_private_state' = "running"
           /\ UNCHANGED <<m_running, looker>>
  BY <1>3, <1>6, Zenon DEF RunLock!Run
<1>7. CASE m_private_state' = "stopped" /\ UNCHANGED <<m_running, looker>>
  <2>1. CASE m_private_state = "stopped"
    BY <1>2, <1>7, <2>1
  <2>2. CASE m_private_state # "stopped"
    BY <1>3, <1>7, <2>2, Zenon DEF RunLock!Stop
  <2> QED BY <2>1, <2>2
<1>8. CASE m_private_state' = "exited" /\ UNCHANGED <<m_running, looker>>
  <2>1. CASE m_private_state = "exited"
    BY <1>2, <1>8, <2>1
  <2>2. CASE m_private_state # "exited"
    BY <1>3, <1>8, <2>2, Zenon DEF RunLock!Exit
  <2> QED BY <2>1, <2>2
<1>9. CASE /\ m_private_state # "running" /\ m_running' = FALSE
           /\ UNCHANGED <<m_private_state, looker>>
  <2>1. CASE ~m_running
    BY <1>2, <1>9, <2>1
  <2>2. CASE m_running
    BY <1>3, <1>9, <2>2, Zenon DEF RunLock!Grant
  <2> QED BY <2>1, <2>2
<1>10. CASE ~m_running /\ looker = "idle" /\ looker' # "idle" /\ UNCHANGED <<m_private_state, m_running>>
  BY <1>3, <1>10, Zenon DEF RunLock!Look
<1>11. CASE looker # "idle" /\ looker' = "idle" /\ UNCHANGED <<m_private_state, m_running>>
  BY <1>3, <1>11, Zenon DEF RunLock!LookAway
<1> QED BY <1>4, <1>5, <1>6, <1>7, <1>8, <1>9, <1>10, <1>11

(* Whoever releases the lock does so when the inferior does not run: the    *)
(* run is at the thread that handles its final stop, or the process has     *)
(* exited.                                                                  *)
LEMMA ReleaseRefines ==
  ASSUME SideInv, LockInv, "run lock" \notin void, NEW t \in Threads,
         \/ t \in LivePlaces
         \/ PstEnds
         \/ thread["api"].pc = "finish"
  PROVE  m_private_state # "running"
<1> SUFFICES ASSUME m_private_state = "running" PROVE FALSE
  OBVIOUS
<1>1. connected /\ AliveInv /\ "private" \in LivePlaces
  BY LiveMeans DEF LockInv
<1>2. t \in LivePlaces
  BY <1>1 DEF SideInv, ConnInv
<1> QED BY <1>1, <1>2 DEF AliveInv, AtMostOne, Threads

(* Whoever makes the inferior run holds the lock.                           *)
LEMMA RunRefines ==
  ASSUME IInv, LockInv, "run lock" \notin void', void \subseteq void', connected,
         m_private_state = "stopped", m_private_state' = "running",
         \/ CallResumes \/ TakesStopAndResumes \/ PerformActions("api") \/ PerformActions("handler")
         \/ AsyncThreadContinues
  PROVE  m_running
<1>1. AliveInv
  BY DEF LockInv
<1>2. ThreadOK /\ private_queue \in Seq(Event)
  BY DEF IInv, DataOK
<1>3. CASE CallResumes
  <2>1. thread["api"].pc = "resume" /\ "api" \in LivePlaces
    BY <1>3, LiveMeans DEF CallResumes, CallIsLive, At
  <2> QED BY <1>1, <2>1 DEF AliveInv, Locked
<1>4. CASE TakesStopAndResumes
  <2>1. private_queue # <<>> /\ Head(private_queue).state = "stopped"
    BY <1>4 DEF TakesStopAndResumes, Takes
  <2>2. Head(private_queue) \in Moves
    BY <1>2, <2>1, QueueTail DEF Moves
  <2>3. "private" \in LivePlaces
    BY <1>2, <2>1, <2>2, QueueTail, LiveMeans
  <2> QED BY <1>1, <2>3 DEF AliveInv, Locked
<1>5. ASSUME NEW t \in {"api", "handler"}, PerformActions(t) PROVE m_running
  <2>1. CASE UNCHANGED privateVars
    BY <2>1 DEF privateVars
  <2>2. CASE \E outcome \in ResumeOutcomes(ContinueFaults) : VoidIf(ActionResumes(t, outcome), {"run lock"})
    BY <2>2 DEF VoidIf, ActionResumes
  <2> QED BY <1>5, <2>1, <2>2 DEF PerformActions
<1>6. CASE AsyncThreadContinues
  <2>1. "private" \in LivePlaces
    BY <1>6, LiveMeans DEF AsyncThreadContinues
  <2> QED BY <1>1, <2>1 DEF AliveInv, Locked
<1> QED BY <1>3, <1>4, <1>5, <1>6

(* Every step of Process is a step of the contract or none of its business. *)
LEMMA StepRefines ==
  ASSUME IInv, IInv', SideInv, LockInv, [Next]_vars
  PROVE  [RunLock!Next]_(RunLock!vars)
<1> USE DEF vars, inferiorVars, privateVars, publicVars, pstVars, clientVars, callVars
<1>1. CASE "run lock" \in void'
  BY <1>1 DEF RunLock!Next, RunLock!Broken
<1>2. CASE "run lock" \notin void'
  <2>1. /\ m_running \in BOOLEAN /\ m_running' \in BOOLEAN /\ ThreadOK /\ m_private_state \in States
        /\ "api" \in Threads /\ "handler" \in Threads /\ "pst" \in Threads
        /\ void \subseteq void' /\ "run lock" \notin void
    BY <1>2, VoidGrows DEF IInv, DataOK, Threads
  <2>2. CASE UNCHANGED <<m_private_state, m_running, looker>>
    BY <1>2, <2>1, <2>2, ContractStep
  <2>3. ASSUME NEW t \in Threads, SetStopped, UNCHANGED <<m_private_state, looker>>,
               t \in LivePlaces \/ PstEnds \/ thread["api"].pc = "finish"
        PROVE  [RunLock!Next]_(RunLock!vars)
    <3>1. m_private_state # "running"
      BY <2>1, <2>3, ReleaseRefines
    <3>2. m_running' = FALSE
      BY <2>3 DEF SetStopped
    <3> QED BY <1>2, <2>1, <2>3, <3>1, <3>2, ContractStep
  <2>4. CASE SetPublicStateUnlocks("api") \/ SetPublicStateUnlocks("handler")
    <3>1. PICK t \in {"api", "handler"} : SetPublicStateUnlocks(t)
      BY <2>4
    <3>2. t \in LivePlaces
      BY <3>1, LiveMeans DEF SetPublicStateUnlocks, CallIsLive, At
    <3> QED BY <2>1, <2>3, <3>1, <3>2 DEF SetPublicStateUnlocks
  <2>5. CASE CallUndoes \/ WaitReleasesLock
    <3>1. "api" \in LivePlaces
      BY <2>5, LiveMeans DEF CallUndoes, WaitReleasesLock, CallIsLive, At
    <3> QED BY <2>1, <2>3, <2>5, <3>1 DEF CallUndoes, WaitReleasesLock
  <2>6. CASE DestroyReturns \/ PrivateStateThreadEnds
    <3>1. PstEnds \/ thread["api"].pc = "finish"
      BY <2>6 DEF DestroyReturns, PrivateStateThreadEnds, At, PstEnds
    <3> QED BY <2>1, <2>3, <2>6, <3>1 DEF DestroyReturns, PrivateStateThreadEnds
  <2>7. CASE \E c \in Calls : Resume(c)
    <3>1. ~m_running /\ looker = "idle" /\ m_running' /\ UNCHANGED <<m_private_state, looker>>
      BY <2>7, Zenon DEF Resume
    <3> QED BY <1>2, <2>1, <3>1, ContractStep
  <2>8. CASE CallResumes \/ TakesStopAndResumes \/ PerformActions("api") \/ PerformActions("handler")
    <3>1. /\ \/ m_private_state' = m_private_state
             \/ m_private_state = "stopped" /\ m_private_state' = "running" /\ connected
          /\ UNCHANGED <<m_running, looker>>
      BY <2>8, ResumesRun
    <3>2. m_private_state' # m_private_state => m_running
      BY <1>2, <2>1, <2>8, <3>1, RunRefines
    <3> QED BY <1>2, <2>1, <3>1, <3>2, ContractStep
  <2>9. CASE AsyncThreadContinues
    <3>1. connected /\ m_private_state' = "running" /\ UNCHANGED <<m_running, looker>>
      BY <1>2, <2>9 DEF AsyncThreadContinues, VoidIf, RunsUnconnected, SetPrivateState
    <3>2. m_private_state \in {"stopped", "running"}
      BY <2>1, <3>1 DEF SideInv, ConnInv, States
    <3>3. m_private_state' # m_private_state => m_private_state = "stopped" /\ m_running
      BY <1>2, <2>1, <2>9, <3>1, <3>2, RunRefines
    <3> QED BY <1>2, <2>1, <3>1, <3>3, ContractStep
  <2>10. CASE AsyncThreadStops
    <3>1. m_private_state' = "stopped" /\ UNCHANGED <<m_running, looker>>
      BY <2>10 DEF AsyncThreadStops, SetPrivateState
    <3> QED BY <1>2, <2>1, <3>1, ContractStep
  <2>11. CASE InferiorExits \/ DoDestroy \/ AsyncThreadFails \/ DebugserverDies
    <3>1. m_private_state' = "exited" /\ UNCHANGED <<m_running, looker>>
      BY <2>11 DEF InferiorExits, DoDestroy, AsyncThreadFails, DebugserverDies, SetExitStatus,
                   SetPrivateState
    <3> QED BY <1>2, <2>1, <3>1, ContractStep
  <2>12. CASE ReadTryLock
    <3>1. ~m_running /\ looker = "idle" /\ looker' # "idle" /\ UNCHANGED <<m_private_state, m_running>>
      BY <2>12 DEF ReadTryLock
    <3> QED BY <1>2, <2>1, <3>1, ContractStep
  <2>13. CASE LockAPIMutex
    <3>1. looker # "idle" /\ looker' # "idle" /\ UNCHANGED <<m_private_state, m_running>>
      BY <2>13 DEF LockAPIMutex
    <3> QED BY <1>2, <2>1, <3>1, ContractStep
  <2>14. CASE ReadUnlock
    <3>1. looker # "idle" /\ looker' = "idle" /\ UNCHANGED <<m_private_state, m_running>>
      BY <2>14 DEF ReadUnlock
    <3> QED BY <1>2, <2>1, <3>1, ContractStep
  <2>15. CASE Halt \/ Destroy \/ AsyncInterrupt \/ HijackProcessEvents \/ CallInterrupts
             \/ CallEntersWait \/ CallRemoves \/ CallTimesOut \/ CallRestores
             \/ HaltBroadcasts \/ StopAsyncThread \/ DestroyJoins \/ DestroyForwards
    BY <2>2, <2>15 DEF Halt, Destroy, AsyncInterrupt, HijackProcessEvents, CallInterrupts,
         CallEntersWait, CallRemoves, CallTimesOut, CallRestores,
         HaltBroadcasts, StopAsyncThread, DestroyJoins, DestroyForwards
  <2>16. CASE HandlerRemoves \/ ContinueLockSuccess \/ InferiorStops
    BY <2>2, <2>16 DEF HandlerRemoves, ContinueLockSuccess, InferiorStops
  <2>17. CASE TakesInterrupt \/ TakesRunning \/ TakesInterruptedStop \/ TakesStop \/ TakesExit
             \/ BroadcastsPublicly
    BY <2>2, <2>17 DEF TakesInterrupt, TakesRunning, TakesInterruptedStop, TakesStop, TakesExit,
         BroadcastsPublicly
  <2> QED BY <2>2, <2>4, <2>5, <2>6, <2>7, <2>8, <2>9, <2>10, <2>11, <2>12, <2>13, <2>14, <2>15,
             <2>16, <2>17
       DEF Next, CallSteps, HandlerSteps, RunPrivateStateThread, AsyncThread
<1> QED BY <1>1, <1>2

(* For any calls, faults and bounds: until one of the steps listed under    *)
(* Lapses, only the holder of m_public_run_lock makes the inferior run, and *)
(* SetPublicState, WaitForProcessToStop, Resume, Destroy and                *)
(* RunPrivateStateThread release the lock only when it does not run.  This  *)
(* is the safety part of ImplementsStopAccess.                              *)
THEOREM RunLockKept == Spec => KeepsRunLock
<1>1. Init => RunLock!Init
  BY DEF Init, RunLock!Init
<1>2. ASSUME IInv, SideInv, LockInv, [Next]_vars
      PROVE  IInv' /\ SideInv' /\ LockInv' /\ [RunLock!Next]_(RunLock!vars)
  BY <1>2, NextOK, SideStep, LockStep, StepRefines
<1> QED BY <1>1, <1>2, InitOK, SideInit, LockInit, PTL DEF Spec, KeepsRunLock

(* A client that looks at the process has the read end of the lock.         *)
LookersHold == looker # "idle" => ~m_running

(* The client that TrySetRunning finds keeps the lock from being taken.     *)
LEMMA LookersStay == ASSUME LookersHold, IInv, [Next]_vars PROVE LookersHold'
<1> USE DEF vars, inferiorVars, privateVars, publicVars, pstVars, clientVars, callVars
<1>1. CASE UNCHANGED <<m_running, looker>>
  BY <1>1 DEF LookersHold
<1>2. CASE (\E c \in Calls : Resume(c)) \/ CallUndoes \/ WaitReleasesLock \/ DestroyReturns
           \/ PrivateStateThreadEnds \/ SetPublicStateUnlocks("api") \/ SetPublicStateUnlocks("handler")
  BY <1>2 DEF Resume, CallUndoes, WaitReleasesLock, DestroyReturns, PrivateStateThreadEnds,
              SetPublicStateUnlocks, SetStopped, LookersHold
<1>3. CASE ReadTryLock \/ LockAPIMutex \/ ReadUnlock
  BY <1>3 DEF ReadTryLock, LockAPIMutex, ReadUnlock, LookersHold
<1>4. CASE Halt \/ Destroy \/ AsyncInterrupt \/ HijackProcessEvents \/ CallResumes \/ CallInterrupts
           \/ CallEntersWait \/ CallRemoves \/ PerformActions("api") \/ PerformActions("handler")
           \/ CallTimesOut \/ CallRestores \/ HaltBroadcasts \/ DoDestroy \/ StopAsyncThread
           \/ DestroyJoins \/ DestroyForwards \/ HandlerRemoves
  BY <1>1, <1>4 DEF Halt, Destroy, AsyncInterrupt, HijackProcessEvents, CallResumes,
       CallInterrupts, CallEntersWait, CallRemoves, PerformActions, CallTimesOut, CallRestores,
       HaltBroadcasts, DoDestroy, StopAsyncThread, DestroyJoins, DestroyForwards, HandlerRemoves
<1>5. CASE TakesInterrupt \/ TakesRunning \/ TakesInterruptedStop \/ TakesStop
           \/ TakesStopAndResumes \/ TakesExit \/ BroadcastsPublicly
  BY <1>1, <1>5 DEF TakesInterrupt, TakesRunning, TakesInterruptedStop, TakesStop,
       TakesStopAndResumes, TakesExit, BroadcastsPublicly
<1>6. CASE AsyncThread \/ InferiorStops \/ InferiorExits \/ DebugserverDies
  BY <1>1, <1>6 DEF AsyncThread, AsyncThreadContinues, ContinueLockSuccess, AsyncThreadStops,
       AsyncThreadFails, InferiorStops, InferiorExits, DebugserverDies
<1> QED BY <1>1, <1>2, <1>3, <1>4, <1>5, <1>6 DEF Next, CallSteps, HandlerSteps, RunPrivateStateThread

(* No client looks at a running inferior ("prevent access to its data while *)
(* it is running", ProcessRunLock.h) until one of the lapses, each a step   *)
(* after which the code itself no longer keeps the lock and the inferior    *)
(* together: TLC shows with LookersSeeStopped that such steps exist.        *)
THEOREM LookersNeverSeeRunning == Spec => []("run lock" \in void \/ LookersSeeStopped)
<1>1. Init => LookersHold
  BY DEF Init, LookersHold
<1>2. ASSUME LockInv, LookersHold PROVE "run lock" \in void \/ LookersSeeStopped
  <2> SUFFICES ASSUME "run lock" \notin void, m_private_state = "running" PROVE m_running
    BY <1>2 DEF LookersHold, LookersSeeStopped
  <2>1. AliveInv /\ "private" \in LivePlaces
    BY <1>2, LiveMeans DEF LockInv
  <2> QED BY <2>1 DEF AliveInv, Locked
<1>3. ASSUME IInv, SideInv, LockInv, LookersHold, [Next]_vars
      PROVE  IInv' /\ SideInv' /\ LockInv' /\ LookersHold'
  BY <1>3, NextOK, SideStep, LockStep, LookersStay
<1> QED BY <1>1, <1>2, <1>3, InitOK, SideInit, LockInit, PTL DEF Spec
=============================================================================
