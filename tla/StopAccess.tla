----------------------------- MODULE StopAccess -----------------------------
(***************************************************************************)
(* What Process promises to the clients that look at a stopped inferior:   *)
(* it does not run while they look, only the holder of the run lock makes  *)
(* it run, and once it has stopped for good they may look again.  This is  *)
(* the contract of the class comment in include/lldb/Host/ProcessRunLock.h *)
(* (lines 28-32).  Module Process is shown to implement it until the first *)
(* of the steps that void it; from then on broken is true.                 *)
(***************************************************************************)
VARIABLES
  inferior,  \* what the inferior is doing
  access,    \* clients may look at it
  looking,   \* a client is looking at it
  broken     \* nothing is promised any more

vars == <<inferior, access, looking, broken>>

TypeOK ==
  /\ inferior \in {"stopped", "running", "exited"}
  /\ access \in BOOLEAN
  /\ looking \in BOOLEAN
  /\ broken \in BOOLEAN

Init == inferior = "stopped" /\ access = TRUE /\ looking = FALSE /\ broken = FALSE

(* A client that wants to run the inferior waits for nobody: it is refused  *)
(* while somebody looks.                                                    *)
Claim == access /\ ~looking /\ access' = FALSE /\ UNCHANGED <<inferior, looking>>

(* Only under the claim does the inferior run, however often it stops and   *)
(* goes on by itself.                                                       *)
Run ==
  /\ ~access /\ inferior = "stopped"
  /\ inferior' = "running"
  /\ UNCHANGED <<access, looking>>

(* The stop may be announced behind the exit.                               *)
Stop ==
  /\ inferior # "stopped"
  /\ inferior' = "stopped"
  /\ UNCHANGED <<access, looking>>

Exit == inferior # "exited" /\ inferior' = "exited" /\ UNCHANGED <<access, looking>>

Grant ==
  /\ ~access /\ inferior # "running"
  /\ access' = TRUE
  /\ UNCHANGED <<inferior, looking>>

Look == access /\ ~looking /\ looking' = TRUE /\ UNCHANGED <<inferior, access>>

LookAway == looking /\ looking' = FALSE /\ UNCHANGED <<inferior, access>>

Kept == ~broken /\ ~broken' /\ (Claim \/ Run \/ Stop \/ Exit \/ Grant \/ Look \/ LookAway)

(* From the step on that voids the contract anything may happen.            *)
Broken == broken'

Next == Kept \/ Broken

Spec == Init /\ [][Next]_vars /\ WF_vars(~broken /\ UNCHANGED broken /\ Grant)
=============================================================================
