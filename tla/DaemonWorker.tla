---------------------------- MODULE DaemonWorker ----------------------------
(***************************************************************************)
(* The unprivileged worker (src/src/main/worker.ts): a child process that  *)
(* is spawned when somebody first needs it, serves every caller, and is    *)
(* spawned again after it has exited.  On Windows the calls to the daemon  *)
(* go through it as well.                                                  *)
(*                                                                         *)
(* The program learns of the process by events, which come later than what *)
(* they tell: a process that is dead may still be currentWorker.           *)
(***************************************************************************)
EXTENDS Naturals, FiniteSets

CONSTANTS
    None,
    Processes, \* bound: processes of the operating system at a time
    Callers,   \* who calls the worker
    MaxFaults  \* bound: processes and daemons that fail

ASSUME WorkerAssumption == None \notin Processes /\ MaxFaults \in Nat

VARIABLES
    workers, \* the processes, and what the program knows of each
    current, \* currentWorker: the one callers get, or None
    callers, \* the calls under way
    faults   \* what is left of MaxFaults

workerVars == <<workers, current, callers, faults>>

\* stage: what the promise of spawnWorker has come to.
Workers == [ stage : {"none", "starting", "ready", "rejected"}, alive : BOOLEAN ]
NoWorker == [ stage |-> "none", alive |-> FALSE ]

\* failed: the worker it waited for did not come up.
CallerStates == [ phase : {"idle", "waiting", "calling", "failed"},
                  worker : Processes \cup {None} ]
Idle == [ phase |-> "idle", worker |-> None ]

WorkerInit ==
    /\ workers = [w \in Processes |-> NoWorker]
    /\ current = None
    /\ callers = [c \in Callers |-> Idle]
    /\ faults = MaxFaults

Fault == faults > 0 /\ faults' = faults - 1

\* workerConnection: whoever finds no worker spawns one, the others wait for it or
\* get it at once.
Spawn(c, w) ==
    /\ current = None
    /\ workers[w].stage = "none" /\ \A d \in Callers : callers[d].worker /= w
    /\ workers' = [workers EXCEPT ![w] = [stage |-> "starting", alive |-> TRUE]]
    /\ current' = w
    /\ callers' = [callers EXCEPT ![c] = [phase |-> "waiting", worker |-> w]]
    /\ UNCHANGED faults

Join(c) ==
    /\ current /= None
    /\ callers' = [callers EXCEPT ![c] =
                     [phase |-> IF workers[current].stage = "ready" THEN "calling" ELSE "waiting",
                      worker |-> current]]
    /\ UNCHANGED <<workers, current, faults>>

Connects(c) ==
    /\ callers[c].phase = "idle"
    /\ Join(c) \/ \E w \in Processes : Spawn(c, w)

\* The promise settles: those who wait for it go on, in the same turn.
Settled(w, phase) ==
    [c \in Callers |-> IF callers[c] = [phase |-> "waiting", worker |-> w]
                       THEN [callers[c] EXCEPT !.phase = phase] ELSE callers[c]]

\* READY, which may be read after the process has died.
BecomesReady(w) ==
    /\ workers[w].stage = "starting"
    /\ workers' = [workers EXCEPT ![w].stage = "ready"]
    /\ callers' = Settled(w, "calling")
    /\ UNCHANGED <<current, faults>>

\* Variant: a worker is given up only when its process has gone.
ReleaseWhenGone(w) == current' = IF current = w /\ ~workers[w].alive THEN None ELSE current

Release(w) == current' = IF current = w THEN None ELSE current

\* Not ready within 10 s, another line than READY, or no process at all (fail).
Rejected(w) ==
    /\ workers[w].stage = "starting"
    /\ Fault
    /\ \E dies \in BOOLEAN :   \* kill() may take its time
         workers' = [workers EXCEPT ![w] = [stage |-> "rejected", alive |-> @.alive /\ ~dies]]
    /\ callers' = Settled(w, "failed")
    /\ Release(w)

Dies(w) ==
    /\ workers[w].alive
    /\ workers' = [workers EXCEPT ![w].alive = FALSE]
    /\ IF workers[w].stage = "rejected" THEN UNCHANGED faults ELSE Fault
    /\ UNCHANGED <<current, callers>>

\* Variant: nobody listens to the exit of a worker that was ready.
ExitedEarly(w) ==
    /\ workers[w].stage \in {"starting", "rejected"} /\ ~workers[w].alive
    /\ workers' = [workers EXCEPT ![w] = NoWorker]
    /\ callers' = Settled(w, "failed")
    /\ IF workers[w].stage = "rejected" THEN UNCHANGED current ELSE Release(w)
    /\ UNCHANGED faults

\* The exit event: fail, whose rejection releases, or the release of a worker that
\* was ready.  One that was rejected before has been released then.
Exited(w) ==
    /\ workers[w].stage /= "none" /\ ~workers[w].alive
    /\ workers' = [workers EXCEPT ![w] = NoWorker]
    /\ callers' = Settled(w, "failed")
    /\ IF workers[w].stage = "rejected" THEN UNCHANGED current ELSE Release(w)
    /\ UNCHANGED faults

\* The answer, or the error of a connection to a process that has gone
\* (rethrowWorkerError).
CallEnds(c) ==
    /\ callers[c].phase \in {"calling", "failed"}
    /\ callers' = [callers EXCEPT ![c] = Idle]
    /\ UNCHANGED <<workers, current, faults>>

Process(w) == BecomesReady(w) \/ Rejected(w) \/ Dies(w) \/ Exited(w)

\* Whether a call through this worker can still be answered.
Serves(w) == workers[w].stage = "ready" /\ workers[w].alive

-----------------------------------------------------------------------------
(* Properties. *)

WorkerTypeOK ==
    /\ workers \in [Processes -> Workers]
    /\ current \in Processes \cup {None}
    /\ callers \in [Callers -> CallerStates]
    /\ faults \in 0..MaxFaults

\* A second worker is never spawned next to one that serves: one that was rejected
\* may linger, but nobody calls it.  And nobody waits for a promise that has settled,
\* or for a worker that is no more.
OneWorker ==
    /\ Cardinality({w \in Processes : Serves(w)}) <= 1
    /\ \A w \in Processes : workers[w].stage \in {"starting", "ready"} => current = w
    /\ \A c \in Callers :
         callers[c].phase = "waiting" =>
           callers[c].worker = current /\ workers[current].stage = "starting"

=============================================================================
