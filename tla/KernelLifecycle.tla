--------------------------- MODULE KernelLifecycle ---------------------------
(***************************************************************************)
(* The lifecycle of kernel/runtime.py, BlackFoxKernel, under threads that  *)
(* share one kernel.  initialize and stop each hold the lock throughout;   *)
(* start takes it three times: to look at the status, inside initialize,   *)
(* and to enter RUNNING.                                                   *)
(***************************************************************************)
CONSTANT Threads

VARIABLES
  status,
  prepared, \* the runtime directories exist
  pc        \* where each thread is in start

vars == <<status, prepared, pc>>

Statuses == {"created", "initializing", "ready", "running", "stopped"}

TypeOK ==
  /\ status \in Statuses
  /\ prepared \in BOOLEAN
  /\ pc \in [Threads -> {"idle", "checked", "initialized"}]

Init ==
  /\ status = "created"
  /\ prepared = FALSE
  /\ pc = [t \in Threads |-> "idle"]

\* start, under the first lock: a stopped kernel raises, a running one returns.
CheckStart(t) ==
  /\ pc[t] = "idle"
  /\ status \notin {"running", "stopped"}
  /\ pc' = [pc EXCEPT ![t] = "checked"]
  /\ UNCHANGED <<status, prepared>>

\* initialize, which creates the directories.
Prepared ==
  IF status \in {"ready", "running"} THEN UNCHANGED <<status, prepared>>
  ELSE status # "stopped" /\ status' = "ready" /\ prepared' = TRUE

\* initialize raises: the kernel is stopped, or the directories cannot be made.
NotPrepared ==
  /\ status \notin {"ready", "running"}
  /\ status' = IF status = "stopped" THEN "stopped" ELSE "initializing"
  /\ UNCHANGED prepared

\* initialize called on its own.
Initialize(t) ==
  /\ pc[t] = "idle"
  /\ Prepared \/ NotPrepared
  /\ UNCHANGED pc

\* initialize called by start.
InitializeStart(t) ==
  /\ pc[t] = "checked"
  /\ \/ Prepared /\ pc' = [pc EXCEPT ![t] = "initialized"]
     \/ NotPrepared /\ pc' = [pc EXCEPT ![t] = "idle"]

\* start, under the last lock.
Run(t) ==
  /\ pc[t] = "initialized"
  /\ status' = "running"
  /\ pc' = [pc EXCEPT ![t] = "idle"]
  /\ UNCHANGED prepared

Stop(t) ==
  /\ pc[t] = "idle"
  /\ status' = "stopped"
  /\ UNCHANGED <<prepared, pc>>

Next ==
  \E t \in Threads :
    CheckStart(t) \/ Initialize(t) \/ InitializeStart(t) \/ Run(t) \/ Stop(t)

Spec == Init /\ [][Next]_vars

\* kernel/runtime.py:134, start: "Cannot start a kernel that is stopping or
\* stopped."
StoppedIsNotStarted ==
  [][status = "stopped" => status' # "running"]_vars
=============================================================================
