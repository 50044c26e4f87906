----------------------- MODULE DaemonConnection_proofs -----------------------
(***************************************************************************)
(* Theorems about DaemonConnection and the DaemonWorker it extends: for    *)
(* any number of processes, callers, commands and faults.                  *)
(***************************************************************************)
EXTENDS DaemonConnection, FiniteSetTheorems, TLAPS

\* The program knows the worker that is starting or ready, and no other.
CurrentIsUp ==
    \A w \in Processes : workers[w].stage \in {"starting", "ready"} <=> current = w

\* Who waits, waits for the present worker, which is starting; who calls, calls one.
WaitersWait ==
    \A c \in Callers :
        /\ callers[c].phase = "waiting" =>
             /\ current \in Processes /\ callers[c].worker = current
             /\ workers[current].stage = "starting"
        /\ callers[c].phase = "calling" => callers[c].worker \in Processes

WorkerInv == WorkerTypeOK /\ CurrentIsUp /\ WaitersWait

-----------------------------------------------------------------------------
(* The worker. *)

LEMMA NoWorkerType == NoWorker \in Workers /\ NoWorker.stage = "none" /\ NoWorker.alive = FALSE
  BY DEF NoWorker, Workers

LEMMA IdleType == Idle \in CallerStates /\ Idle.phase = "idle"
  BY DEF Idle, CallerStates

LEMMA WorkerInitInv == WorkerInit => WorkerInv
  <1> SUFFICES ASSUME WorkerInit PROVE WorkerInv
    OBVIOUS
  <1>1. workers \in [Processes -> Workers] /\ \A w \in Processes : workers[w].stage = "none"
    BY NoWorkerType DEF WorkerInit
  <1>2. callers \in [Callers -> CallerStates] /\ \A c \in Callers : callers[c].phase = "idle"
    BY IdleType DEF WorkerInit
  <1>3. current = None /\ faults \in 0..MaxFaults
    BY WorkerAssumption DEF WorkerInit
  <1> QED
    BY <1>1, <1>2, <1>3, WorkerAssumption DEF WorkerInv, WorkerTypeOK, CurrentIsUp, WaitersWait

LEMMA ConnectsInv == ASSUME WorkerInv, NEW c \in Callers, Connects(c) PROVE WorkerInv'
  <1> USE DEF WorkerInv
  <1>1. CASE Join(c)
    <2> DEFINE caller == [phase |-> IF workers[current].stage = "ready" THEN "calling"
                                                                      ELSE "waiting",
                          worker |-> current]
    <2>1. current \in Processes /\ UNCHANGED <<workers, current, faults>>
          /\ callers' = [callers EXCEPT ![c] = caller]
      BY <1>1 DEF Join, WorkerTypeOK
    <2>2. caller \in CallerStates BY <2>1 DEF CallerStates
    <2>3. WorkerTypeOK' BY <2>1, <2>2 DEF WorkerTypeOK
    <2>4. CurrentIsUp' BY <2>1 DEF CurrentIsUp
    <2>5. workers[current].stage \in {"starting", "ready"} BY <2>1 DEF CurrentIsUp
    <2>6. ASSUME NEW d \in Callers, callers'[d].phase = "waiting"
          PROVE  callers'[d].worker = current /\ workers[current].stage = "starting"
      <3>1. CASE d = c BY <2>1, <2>5, <2>6, <3>1 DEF WorkerTypeOK
      <3>2. CASE d /= c
        <4>1. callers'[d] = callers[d] BY <2>1, <3>2 DEF WorkerTypeOK
        <4> QED BY <4>1, <2>6 DEF WaitersWait
      <3> QED BY <3>1, <3>2
    <2>7. WaitersWait' BY <2>1, <2>6 DEF WaitersWait
    <2> QED BY <2>3, <2>4, <2>7
  <1>2. ASSUME NEW w \in Processes, Spawn(c, w) PROVE WorkerInv'
    <2> DEFINE worker == [stage |-> "starting", alive |-> TRUE]
               caller == [phase |-> "waiting", worker |-> w]
    <2>1. /\ workers' = [workers EXCEPT ![w] = worker] /\ current' = w /\ current = None
          /\ callers' = [callers EXCEPT ![c] = caller] /\ faults' = faults
      BY <1>2 DEF Spawn
    <2>2. worker \in Workers /\ caller \in CallerStates
      BY DEF Workers, CallerStates
    <2>3. WorkerTypeOK' BY <2>1, <2>2 DEF WorkerTypeOK
    <2>4. workers'[w].stage = "starting" /\ \A v \in Processes \ {w} : workers'[v] = workers[v]
      BY <2>1 DEF WorkerTypeOK
    <2>5. CurrentIsUp' BY <2>1, <2>4, WorkerAssumption DEF CurrentIsUp
    <2>6. callers'[c] = caller /\ \A d \in Callers \ {c} : callers'[d] = callers[d]
      BY <2>1 DEF WorkerTypeOK
    <2>7. WaitersWait' BY <2>1, <2>4, <2>6, WorkerAssumption DEF WaitersWait
    <2> QED BY <2>3, <2>5, <2>7
  <1> QED BY <1>1, <1>2 DEF Connects

LEMMA CallEndsInv == ASSUME WorkerInv, NEW c \in Callers, CallEnds(c) PROVE WorkerInv'
  <1> USE DEF WorkerInv
  <1>1. WorkerTypeOK' BY IdleType DEF CallEnds, WorkerTypeOK
  <1>2. callers'[c] = Idle /\ \A d \in Callers \ {c} : callers'[d] = callers[d]
    BY DEF CallEnds, WorkerTypeOK
  <1>3. UNCHANGED <<workers, current>> BY DEF CallEnds
  <1>4. CurrentIsUp' BY <1>3 DEF CurrentIsUp
  <1>5. WaitersWait' BY <1>2, <1>3, IdleType DEF WaitersWait
  <1> QED BY <1>1, <1>4, <1>5

\* A promise that settles leaves nobody waiting for it, and the others as they are.
LEMMA SettledLeaves ==
    ASSUME WorkerTypeOK, NEW w \in Processes, NEW outcome \in {"calling", "failed"}
    PROVE  /\ Settled(w, outcome) \in [Callers -> CallerStates]
           /\ \A c \in Callers :
                \/ Settled(w, outcome)[c] = callers[c]
                   /\ ~(callers[c].phase = "waiting" /\ callers[c].worker = w)
                \/ /\ callers[c].phase = "waiting" /\ callers[c].worker = w
                   /\ Settled(w, outcome)[c].phase = outcome /\ Settled(w, outcome)[c].worker = w
  <1> DEFINE goes(c) == IF callers[c] = [phase |-> "waiting", worker |-> w]
                        THEN [callers[c] EXCEPT !.phase = outcome] ELSE callers[c]
  <1>1. ASSUME NEW c \in Callers
        PROVE  /\ goes(c) \in CallerStates
               /\ \/ goes(c) = callers[c]
                     /\ ~(callers[c].phase = "waiting" /\ callers[c].worker = w)
                  \/ /\ callers[c].phase = "waiting" /\ callers[c].worker = w
                     /\ goes(c).phase = outcome /\ goes(c).worker = w
    <2>1. callers[c] \in CallerStates BY DEF WorkerTypeOK
    <2> QED BY <2>1 DEF CallerStates
  <1>2. Settled(w, outcome) = [c \in Callers |-> goes(c)] BY DEF Settled
  <1> HIDE DEF goes
  <1> QED BY <1>1, <1>2

\* An exit releases the worker, or there is nothing left to release.
LEMMA ExitReleases ==
    ASSUME WorkerInv, NEW w \in Processes, Exited(w)
    PROVE  Release(w)
  <1>1. CASE workers[w].stage = "rejected"
    BY <1>1 DEF Exited, Release, WorkerInv, CurrentIsUp
  <1>2. CASE workers[w].stage /= "rejected"
    BY <1>2 DEF Exited
  <1> QED BY <1>1, <1>2

LEMMA ProcessInv == ASSUME WorkerInv, NEW w \in Processes, Process(w) PROVE WorkerInv'
  <1> USE DEF WorkerInv
  <1>0. workers[w] \in Workers /\ faults \in Nat BY DEF WorkerTypeOK
  <1>1. CASE BecomesReady(w)
    <2> DEFINE worker == [workers[w] EXCEPT !.stage = "ready"]
    <2>1. worker \in Workers /\ worker.stage = "ready" BY <1>0 DEF Workers
    <2>2. workers' = [workers EXCEPT ![w] = worker] /\ UNCHANGED <<current, faults>>
          /\ callers' = Settled(w, "calling") /\ workers[w].stage = "starting"
      BY <1>1 DEF BecomesReady
    <2>3. current = w BY <2>2 DEF CurrentIsUp
    <2>4. WorkerTypeOK' BY <2>1, <2>2, SettledLeaves DEF WorkerTypeOK
    <2>5. workers'[w] = worker /\ \A v \in Processes \ {w} : workers'[v] = workers[v]
      BY <2>2 DEF WorkerTypeOK
    <2>6. CurrentIsUp' BY <2>1, <2>2, <2>3, <2>5 DEF CurrentIsUp
    <2>7. \A c \in Callers : callers'[c].phase /= "waiting"
      BY <2>2, <2>3, SettledLeaves DEF WaitersWait
    <2>8. \A c \in Callers : callers'[c].phase = "calling" => callers'[c].worker \in Processes
      BY <2>2, SettledLeaves DEF WaitersWait
    <2> QED BY <2>4, <2>6, <2>7, <2>8 DEF WaitersWait
  <1>2. CASE Dies(w)
    <2> DEFINE worker == [workers[w] EXCEPT !.alive = FALSE]
    <2>1. worker \in Workers /\ worker.stage = workers[w].stage BY <1>0 DEF Workers
    <2>2. workers' = [workers EXCEPT ![w] = worker] /\ UNCHANGED <<current, callers>>
      BY <1>2 DEF Dies
    <2>3. faults' \in 0..MaxFaults
      BY <1>2, WorkerAssumption DEF Dies, Fault, WorkerTypeOK
    <2>4. WorkerTypeOK' BY <2>1, <2>2, <2>3 DEF WorkerTypeOK
    <2>5. workers'[w] = worker /\ \A v \in Processes \ {w} : workers'[v] = workers[v]
      BY <2>2 DEF WorkerTypeOK
    <2>6. CurrentIsUp' BY <2>1, <2>2, <2>5 DEF CurrentIsUp
    <2>7. WaitersWait' BY <2>1, <2>2, <2>5 DEF WaitersWait
    <2> QED BY <2>4, <2>6, <2>7
  <1>3. ASSUME NEW worker \in Workers, worker.stage \in {"none", "rejected"},
               workers' = [workers EXCEPT ![w] = worker],
               callers' = Settled(w, "failed"), Release(w), faults' \in 0..MaxFaults
        PROVE  WorkerInv'
    <2>1. WorkerTypeOK' BY <1>3, SettledLeaves DEF WorkerTypeOK, Release
    <2>2. workers'[w] = worker /\ \A v \in Processes \ {w} : workers'[v] = workers[v]
      BY <1>3 DEF WorkerTypeOK
    <2>3. CurrentIsUp' BY <1>3, <2>2, WorkerAssumption DEF CurrentIsUp, Release
    <2>4. ASSUME NEW c \in Callers, callers'[c].phase = "waiting"
          PROVE  callers[c].phase = "waiting" /\ callers[c].worker /= w
                 /\ callers'[c] = callers[c]
      BY <1>3, <2>4, SettledLeaves
    <2>5. \A c \in Callers : callers'[c].phase = "calling" => callers'[c].worker \in Processes
      BY <1>3, SettledLeaves DEF WaitersWait
    <2>6. WaitersWait' BY <1>3, <2>2, <2>4, <2>5 DEF WaitersWait, Release
    <2> QED BY <2>1, <2>3, <2>6
  <1>4. CASE Rejected(w)
    <2>1. PICK dies \in BOOLEAN :
            workers' = [workers EXCEPT ![w] = [stage |-> "rejected", alive |-> @.alive /\ ~dies]]
      BY <1>4 DEF Rejected
    <2> DEFINE worker == [stage |-> "rejected", alive |-> workers[w].alive /\ ~dies]
    <2>2. worker \in Workers /\ worker.stage = "rejected" BY <1>0 DEF Workers
    <2>3. faults' \in 0..MaxFaults
      BY <1>4, WorkerAssumption DEF Rejected, Fault, WorkerTypeOK
    <2> QED BY <1>3, <1>4, <2>1, <2>2, <2>3 DEF Rejected
  <1>5. CASE Exited(w)
    BY <1>3, <1>5, ExitReleases, NoWorkerType DEF Exited, WorkerTypeOK
  <1> QED BY <1>1, <1>2, <1>4, <1>5 DEF Process

\* What any step of the app does to the worker.
WorkerMoves ==
    \/ UNCHANGED workerVars
    \/ \E c \in Callers : Connects(c) \/ CallEnds(c)
    \/ \E w \in Processes : Process(w)
    \/ UNCHANGED <<workers, current, callers>> /\ Fault

LEMMA MovesInv == WorkerInv /\ WorkerMoves => WorkerInv'
  <1> SUFFICES ASSUME WorkerInv, WorkerMoves PROVE WorkerInv'
    OBVIOUS
  <1>1. CASE UNCHANGED workerVars
    BY <1>1 DEF workerVars, WorkerInv, WorkerTypeOK, CurrentIsUp, WaitersWait
  <1>2. CASE UNCHANGED <<workers, current, callers>> /\ Fault
    BY <1>2, WorkerAssumption DEF Fault, WorkerInv, WorkerTypeOK, CurrentIsUp, WaitersWait
  <1> QED BY <1>1, <1>2, ConnectsInv, CallEndsInv, ProcessInv DEF WorkerMoves

LEMMA NextMoves == [Next]_vars => WorkerMoves
  <1> SUFFICES ASSUME [Next]_vars PROVE WorkerMoves
    OBVIOUS
  <1> USE ConnectionAssumption DEF WorkerMoves
  <1>1. CASE Loop
    <2>1. CallOver => UNCHANGED workerVars \/ CallEnds("loop") BY DEF CallOver
    <2> QED BY <1>1, <2>1 DEF Loop, LoopCalls, HandshakeAnswered, Decides, ClaimAnswered,
                              CallFails, ProbeEnds, BackoffEnds, SessionEnds, PauseEnds
  <1>2. CASE StatusArrives \/ Groups \/ RetryClicked
    BY <1>2 DEF StatusArrives, Groups, RetryClicked, LoopWaits
  <1>3. ASSUME NEW c \in Commands,
               Begins(c) \/ CommandExits(c) \/ SocketWaitEnds(c) \/ TakesOver(c) \/ TakenOver(c)
        PROVE  WorkerMoves
    BY <1>3 DEF Begins, CommandExits, SocketWaitEnds, TakesOver, TakenOver, LoopWaits
  <1>4. CASE DaemonStarts \/ DaemonDies \/ OwnerChanges
    BY <1>4 DEF DaemonStarts, DaemonDies, OwnerChanges, LoopWaits
  <1>5. CASE WorkerChanges \/ OthersCall
    BY <1>5 DEF WorkerChanges, OthersCall
  <1>6. CASE UNCHANGED vars
    BY <1>6 DEF vars
  <1> QED BY <1>1, <1>2, <1>3, <1>4, <1>5, <1>6 DEF Next

-----------------------------------------------------------------------------
(* What is shown. *)

\* Only a session streams groups, and an aborted stream only lasts for the pause after it.
SessionInv ==
    /\ ShownIsOfSession
    /\ pc = "session" => phase = "connected"
    /\ groupLoop /= "none" => pc = "session"
    /\ "streaming" \in oldLoops => pc = "pause"

sessionVars == <<pc, phase, status, groupVars>>

LEMMA SessionRests == SessionInv /\ UNCHANGED sessionVars => SessionInv'
  BY DEF SessionInv, ShownIsOfSession, sessionVars, groupVars

\* The loop shakes hands again, from a place where it had no session.
LEMMA SessionRetried ==
    ASSUME SessionInv, pc \notin {"session", "pause"}, pc' \notin {"session", "pause"},
           UNCHANGED <<status, groupVars>>
    PROVE  SessionInv'
  BY DEF SessionInv, ShownIsOfSession, groupVars

LEMMA SleepsOrShakes == Sleeps \/ Shakes => pc' \in {"handshake", "backoff"}
  BY DEF Sleeps, Shakes

LEMMA SessionLoop == SessionInv /\ Loop => SessionInv'
  <1> SUFFICES ASSUME SessionInv, Loop PROVE SessionInv'
    OBVIOUS
  <1>1. CASE LoopCalls
    BY <1>1, SessionRests DEF LoopCalls, sessionVars
  <1>2. CASE HandshakeAnswered \/ ClaimAnswered \/ CallFails \/ ProbeEnds \/ BackoffEnds
    BY <1>2, SessionRetried, SleepsOrShakes
       DEF HandshakeAnswered, ClaimAnswered, CallFails, ProbeEnds, BackoffEnds
  <1>3. CASE Decides
    <2>1. pc = "version" /\ oldLoops' = oldLoops BY <1>3 DEF Decides
    <2>2. CASE pc' \in {"handshake", "backoff", "claim", "probe"}
               /\ UNCHANGED <<status, shown, groupLoop>>
      BY <2>1, <2>2, SessionRetried DEF groupVars
    <2>3. CASE pc' \in {"handshake", "backoff"} /\ status' = None /\ shown' = FALSE
               /\ UNCHANGED groupLoop
      BY <2>1, <2>3 DEF SessionInv, ShownIsOfSession
    <2>4. CASE pc' = "session" /\ phase' = "connected" /\ UNCHANGED <<status, shown>>
      BY <2>1, <2>4 DEF SessionInv, ShownIsOfSession
    <2> QED BY <1>3, <2>2, <2>3, <2>4, SleepsOrShakes DEF Decides
  <1>4. CASE SessionEnds
    BY <1>4 DEF SessionEnds, SessionInv, ShownIsOfSession
  <1>5. CASE PauseEnds
    BY <1>5, SleepsOrShakes DEF PauseEnds, SessionInv, ShownIsOfSession, groupVars
  <1> QED BY <1>1, <1>2, <1>3, <1>4, <1>5 DEF Loop

LEMMA SessionGroups == SessionInv /\ Groups => SessionInv'
  <1> SUFFICES ASSUME SessionInv, Groups PROVE SessionInv'
    OBVIOUS
  <1>1. UNCHANGED <<pc, phase, status>> BY DEF Groups
  <1> USE DEF SessionInv, ShownIsOfSession
  <1>2. CASE GroupsArrive BY <1>1, <1>2 DEF GroupsArrive
  <1>3. CASE GroupsBreak BY <1>1, <1>3 DEF GroupsBreak
  <1>4. CASE GroupsAgain BY <1>1, <1>4 DEF GroupsAgain
  <1>5. CASE OldLoopStops BY <1>1, <1>5 DEF OldLoopStops
  <1>6. CASE OldLoopWakes BY <1>1, <1>6 DEF OldLoopWakes
  <1> QED BY <1>2, <1>3, <1>4, <1>5, <1>6 DEF Groups

\* A retry wakes the loop where it has no session.
LEMMA SessionRetry ==
    ASSUME SessionInv, Retry, UNCHANGED <<phase, status, groupVars>>
    PROVE  SessionInv'
  <1>1. CASE pc = "backoff" BY <1>1, SessionRetried, SleepsOrShakes DEF Retry
  <1>2. CASE pc /= "backoff" BY <1>2, SessionRests DEF Retry, sessionVars
  <1> QED BY <1>1, <1>2

LEMMA SessionNext == SessionInv /\ [Next]_vars => SessionInv'
  <1> SUFFICES ASSUME SessionInv, [Next]_vars PROVE SessionInv'
    OBVIOUS
  <1>1. CASE Loop \/ Groups
    BY <1>1, SessionLoop, SessionGroups
  <1>2. CASE StatusArrives
    BY <1>2 DEF StatusArrives, SessionInv, ShownIsOfSession, groupVars
  <1>3. CASE RetryClicked
    BY <1>3, SessionRetry DEF RetryClicked, LoopWaits
  <1>4. ASSUME NEW c \in Commands,
               Begins(c) \/ CommandExits(c) \/ SocketWaitEnds(c) \/ TakesOver(c) \/ TakenOver(c)
        PROVE  SessionInv'
    <2>1. CASE Begins(c) \/ CommandExits(c) \/ TakesOver(c)
      BY <2>1, SessionRests DEF Begins, CommandExits, TakesOver, LoopWaits, sessionVars
    <2>2. CASE SocketWaitEnds(c) \/ TakenOver(c)
      BY <2>2, SessionRetry DEF SocketWaitEnds, TakenOver, LoopWaits
    <2> QED BY <1>4, <2>1, <2>2
  <1>5. CASE DaemonStarts \/ DaemonDies \/ OwnerChanges
    BY <1>5, SessionRests DEF DaemonStarts, DaemonDies, OwnerChanges, LoopWaits, sessionVars
  <1>6. CASE WorkerChanges \/ OthersCall
    BY <1>6, SessionRests DEF WorkerChanges, OthersCall, NotTheWorker, sessionVars
  <1>7. CASE UNCHANGED vars
    BY <1>7, SessionRests DEF vars, sessionVars
  <1> QED BY <1>1, <1>2, <1>3, <1>4, <1>5, <1>6, <1>7 DEF Next

-----------------------------------------------------------------------------
(* Retries and repairs. *)

\* Off its calls, the loop has none under way.
CallIsOver ==
    pc \notin Calls => call = "none" /\ (relayed => callers["loop"].phase = "idle")

\* What was asked for is noted, and the loop does not sleep over it.  A daemon that a
\* repair has seen is up, and the handshake with it is next or goes well.
RetryInv ==
    /\ daemon \in Daemons
    /\ CallIsOver
    /\ owed => requested
    /\ pc = "backoff" => ~requested
    /\ repaired => /\ daemon.up /\ RelayLives
                   /\ requested \/ (pc = "handshake" /\ ~Broken)

IInv == WorkerInv /\ SessionInv /\ RetryInv

(* The relay under a call that goes well. *)

\* A worker that serves does so as long as its process is the same.
LEMMA ProcessKeeps ==
    ASSUME WorkerInv, NEW w \in Processes, Process(w), UNCHANGED <<relayed, call>>
    PROVE  /\ callers["loop"].phase = "idle" => callers'["loop"].phase = "idle"
           /\ RelayLives /\ faults' = faults => RelayLives' /\ (~Broken => ~Broken')
  <1>1. workers[w] \in Workers /\ faults \in Nat
    BY DEF WorkerInv, WorkerTypeOK
  <1>2. Fault => faults' /= faults BY <1>1 DEF Fault
  <1>3. \A v \in Processes \ {w} : workers'[v] = workers[v]
    BY DEF Process, BecomesReady, Rejected, Dies, Exited, WorkerInv, WorkerTypeOK
  <1>4. ASSUME NEW v \in Processes, Serves(v), faults' = faults
        PROVE  Serves(v)'
    <2>1. CASE v /= w BY <1>3, <1>4, <2>1 DEF Serves
    <2>2. CASE v = w
      <3>1. workers[w].stage = "ready" /\ workers[w].alive BY <1>4, <2>2 DEF Serves
      <3>2. ~BecomesReady(w) /\ ~Rejected(w) BY <3>1 DEF BecomesReady, Rejected
      <3>3. ~Dies(w) BY <1>2, <1>4, <3>1 DEF Dies
      <3>4. ~Exited(w) BY <3>1 DEF Exited
      <3> QED BY <3>2, <3>3, <3>4 DEF Process
    <2> QED BY <2>1, <2>2
  <1>5. ASSUME NEW outcome \in {"calling", "failed"}, callers' = Settled(w, outcome)
        PROVE  callers["loop"].phase = "idle" => callers'["loop"] = callers["loop"]
    BY <1>5, SettledLeaves, ConnectionAssumption DEF WorkerInv
  <1>6. callers["loop"].phase = "idle" => callers'["loop"].phase = "idle"
    <2>1. CASE Dies(w) BY <2>1 DEF Dies
    <2>2. CASE BecomesReady(w) BY <1>5, <2>2 DEF BecomesReady
    <2>3. CASE Rejected(w) \/ Exited(w) BY <1>5, <2>3 DEF Rejected, Exited
    <2> QED BY <2>1, <2>2, <2>3 DEF Process
  <1>7. SUFFICES ASSUME RelayLives, faults' = faults
                 PROVE  RelayLives' /\ (~Broken => ~Broken')
    BY <1>6
  <1>8. ASSUME callers'["loop"] = callers["loop"]
        PROVE  ~Broken => ~Broken'
    <2>1. relayed /\ callers["loop"].phase = "calling" => callers["loop"].worker \in Processes
      BY ConnectionAssumption DEF WorkerInv, WaitersWait
    <2> QED BY <1>4, <1>7, <1>8, <2>1 DEF Broken
  <1>9. CASE BecomesReady(w)
    <2>1. workers[w].stage = "starting" /\ workers' = [workers EXCEPT ![w].stage = "ready"]
          /\ current' = current /\ callers' = Settled(w, "calling")
      BY <1>9 DEF BecomesReady
    <2>2. workers'[w].stage = "ready" /\ workers'[w].alive = workers[w].alive
      BY <1>1, <2>1 DEF WorkerInv, WorkerTypeOK, Workers
    <2>3. current = w BY <2>1 DEF WorkerInv, CurrentIsUp
    <2>4. RelayLives'
      BY <1>7, <2>1, <2>2, <2>3, <1>3 DEF RelayLives
    <2>5. CASE callers'["loop"] = callers["loop"] BY <1>8, <2>4, <2>5
    <2>6. CASE callers'["loop"].phase = "calling" /\ callers'["loop"].worker = w
      <3>1. relayed => Serves(w)'
        BY <1>7, <2>2, <2>3, WorkerAssumption DEF Serves, RelayLives
      <3> QED BY <2>4, <2>6, <3>1 DEF Broken, Serves
    <2> QED BY <2>1, <2>5, <2>6, SettledLeaves, ConnectionAssumption DEF WorkerInv
  <1>10. CASE Dies(w)
    <2>1. workers[w].stage = "rejected" BY <1>2, <1>7, <1>10 DEF Dies
    <2>2. current /= w BY <2>1 DEF WorkerInv, CurrentIsUp
    <2>3. UNCHANGED <<current, callers>> BY <1>10 DEF Dies
    <2>4. RelayLives' BY <1>3, <1>7, <2>2, <2>3 DEF RelayLives, WorkerInv, WorkerTypeOK
    <2> QED BY <1>8, <2>3, <2>4
  <1>11. CASE Exited(w)
    <2>1. ~workers[w].alive /\ callers' = Settled(w, "failed") /\ Release(w)
      BY <1>11, ExitReleases DEF Exited
    <2>2. CASE ~relayed BY <2>2 DEF RelayLives, Broken
    <2>3. CASE relayed
      <3>1. current /= w BY <1>7, <2>1, <2>3, WorkerAssumption DEF RelayLives
      <3>2. current' = current BY <2>1, <3>1 DEF Release
      <3>3. RelayLives' BY <1>3, <1>7, <3>1, <3>2 DEF RelayLives, WorkerInv, WorkerTypeOK
      <3>4. callers'["loop"] = callers["loop"]
        BY <2>1, <3>1, SettledLeaves, ConnectionAssumption DEF WorkerInv, WaitersWait
      <3> QED BY <1>8, <3>3, <3>4
    <2> QED BY <2>2, <2>3
  <1> QED BY <1>2, <1>7, <1>9, <1>10, <1>11 DEF Process, Rejected

\* The calls of the others are not the loop's.
LEMMA OthersLeave ==
    ASSUME WorkerInv, NEW c \in Callers \ {"loop"}, Connects(c)
    PROVE  callers'["loop"] = callers["loop"]
  <1>1. PICK caller : callers' = [callers EXCEPT ![c] = caller]
    BY DEF Connects, Join, Spawn
  <1> QED BY <1>1, ConnectionAssumption DEF WorkerInv, WorkerTypeOK

LEMMA ConnectsKeeps ==
    ASSUME WorkerInv, NEW c \in Callers, Connects(c), RelayLives, UNCHANGED <<relayed, call>>
    PROVE  RelayLives' /\ (~Broken => ~Broken')
  <1>1. c /= "loop" => callers'["loop"] = callers["loop"]
    BY OthersLeave
  <1>2. callers["loop"].phase = "calling" => callers["loop"].worker \in Processes
    BY ConnectionAssumption DEF WorkerInv, WaitersWait
  <1>3. CASE Join(c)
    <2>1. current /= None /\ UNCHANGED <<workers, current>>
          /\ callers' = [callers EXCEPT ![c] =
                          [phase |-> IF workers[current].stage = "ready" THEN "calling"
                                                                         ELSE "waiting",
                           worker |-> current]]
      BY <1>3 DEF Join
    <2>2. RelayLives' BY <2>1 DEF RelayLives
    <2>3. CASE c = "loop"
      <3>1. callers'["loop"] = [phase |-> IF workers[current].stage = "ready" THEN "calling"
                                                                              ELSE "waiting",
                                worker |-> current]
        BY <2>1, <2>3 DEF WorkerInv, WorkerTypeOK
      <3> QED BY <1>1, <2>1, <2>2, <2>3, <3>1 DEF RelayLives, Broken, Serves
    <2>4. CASE c /= "loop"
      BY <1>1, <2>1, <2>2, <2>4 DEF Broken, Serves
    <2> QED BY <2>3, <2>4
  <1>4. ASSUME NEW w \in Processes, Spawn(c, w)
        PROVE  RelayLives' /\ (~Broken => ~Broken')
    <2>1. /\ workers[w].stage = "none" /\ current' = w
          /\ workers'[w].alive = TRUE /\ \A v \in Processes \ {w} : workers'[v] = workers[v]
          /\ callers' = [callers EXCEPT ![c] = [phase |-> "waiting", worker |-> w]]
      BY <1>4 DEF Spawn, WorkerInv, WorkerTypeOK
    <2>2. RelayLives' BY <2>1 DEF RelayLives
    <2>3. CASE c = "loop"
      <3>1. callers'["loop"].phase = "waiting"
        BY <2>1, <2>3 DEF WorkerInv, WorkerTypeOK
      <3> QED BY <2>2, <3>1 DEF Broken
    <2>4. CASE c /= "loop"
      <3>1. \A v \in Processes : Serves(v) => Serves(v)' BY <2>1 DEF Serves
      <3> QED BY <1>1, <1>2, <2>2, <2>4, <3>1 DEF Broken
    <2> QED BY <2>3, <2>4
  <1> QED BY <1>3, <1>4 DEF Connects

LEMMA CallEndsKeeps ==
    ASSUME WorkerInv, NEW c \in Callers, CallEnds(c), UNCHANGED relayed
    PROVE  /\ RelayLives => RelayLives'
           /\ c /= "loop" => callers'["loop"] = callers["loop"]
           /\ c = "loop" => callers'["loop"].phase = "idle"
           /\ UNCHANGED <<workers, current>>
  BY IdleType DEF CallEnds, RelayLives, WorkerInv, WorkerTypeOK

LEMMA OverIsOver ==
    ASSUME WorkerInv, CallOver, UNCHANGED relayed
    PROVE  CallIsOver' /\ (RelayLives => RelayLives')
  <1>1. CASE relayed
    BY <1>1, CallEndsKeeps, ConnectionAssumption DEF CallOver, CallIsOver
  <1>2. CASE ~relayed
    BY <1>2 DEF CallOver, CallIsOver, RelayLives
  <1> QED BY <1>1, <1>2

-----------------------------------------------------------------------------
(* The steps. *)

\* Nothing is broken when the loop calls nobody.
LEMMA IdleIsNotBroken ==
    call = "none" /\ (relayed => callers["loop"].phase = "idle") => ~Broken
  BY DEF Broken

\* The loop shakes hands again.
LEMMA ShakesInv ==
    ASSUME RetryInv, pc /= "handshake", Shakes, daemon' \in Daemons, daemon'.up = daemon.up,
           UNCHANGED <<requested, relayed, repaired>>, RelayLives => RelayLives'
    PROVE  RetryInv'
  BY DEF RetryInv, Shakes, CallIsOver, Calls

LEMMA SleepsInv ==
    ASSUME RetryInv, pc \notin Calls, Sleeps,
           UNCHANGED <<workerVars, relayed, call, daemon, repaired>>
    PROVE  RetryInv'
  <1>1. CASE requested
    <2>1. ~Broken' /\ (RelayLives => RelayLives')
      BY IdleIsNotBroken DEF RetryInv, CallIsOver, Broken, RelayLives, workerVars
    <2> QED BY <1>1, <2>1 DEF RetryInv, Sleeps, Shakes, CallIsOver, Calls
  <1>2. CASE ~requested
    <2>1. ~repaired BY <1>2 DEF RetryInv, Calls
    <2>2. CallIsOver' BY DEF RetryInv, CallIsOver, workerVars
    <2> QED BY <1>2, <2>1, <2>2 DEF RetryInv, Sleeps
  <1> QED BY <1>1, <1>2

LEMMA RetryWakes ==
    ASSUME RetryInv, Retry, UNCHANGED <<workerVars, relayed, call, daemon>>,
           repaired' => repaired \/ (daemon.up /\ RelayLives)
    PROVE  RetryInv'
  <1>1. RelayLives => RelayLives' BY DEF RelayLives, workerVars
  <1>2. CASE pc = "backoff"
    <2>1. ~Broken'
      BY <1>2, IdleIsNotBroken DEF RetryInv, CallIsOver, Calls, Broken, workerVars
    <2> QED BY <1>1, <1>2, <2>1 DEF RetryInv, Retry, Shakes, CallIsOver, Calls
  <1>3. CASE pc /= "backoff"
    <2>1. CallIsOver' BY <1>3 DEF RetryInv, Retry, CallIsOver, workerVars
    <2> QED BY <1>1, <1>3, <2>1 DEF RetryInv, Retry
  <1> QED BY <1>2, <1>3

\* Neither the loop nor its call changes.
LEMMA RetryRests ==
    ASSUME RetryInv, daemon' \in Daemons, daemon.up => daemon'.up,
           UNCHANGED <<workers, current, callers, relayed, pc, call, requested, owed, repaired>>
    PROVE  RetryInv'
  BY DEF RetryInv, CallIsOver, Broken, RelayLives, Serves

\* A failure that breaks the call: no repair has seen what there is now.
LEMMA RetryBreaks ==
    ASSUME RetryInv, daemon' \in Daemons, Breaks, repaired' = FALSE,
           UNCHANGED <<callers, relayed, pc, requested, owed>>
    PROVE  RetryInv'
  BY DEF RetryInv, CallIsOver, Breaks

LEMMA RetryLoop == WorkerInv /\ RetryInv /\ Loop => RetryInv'
  <1> SUFFICES ASSUME WorkerInv, RetryInv, Loop PROVE RetryInv'
    OBVIOUS
  <1>0. CallOver /\ UNCHANGED relayed => CallIsOver' /\ (RelayLives => RelayLives')
    BY OverIsOver
  <1>1. CASE LoopCalls
    <2>1. /\ UNCHANGED <<relayed, pc, requested, daemon, owed, repaired>>
          /\ pc \in Calls /\ call = "none" /\ ~Broken
      BY <1>1 DEF LoopCalls, outerVars
    <2>2. RelayLives /\ daemon.up => RelayLives' /\ ~Broken'
      <3>1. CASE relayed /\ Connects("loop") /\ UNCHANGED call
        BY <2>1, <3>1, ConnectsKeeps, ConnectionAssumption
      <3>2. CASE call' = (IF daemon.up THEN "good" ELSE "broken") /\ UNCHANGED workerVars
        BY <2>1, <3>2 DEF RelayLives, Broken, Serves, workerVars
      <3> QED BY <1>1, <3>1, <3>2 DEF LoopCalls
    <2> QED BY <2>1, <2>2 DEF RetryInv, CallIsOver
  <1>2. CASE HandshakeAnswered
    <2>1. CallIsOver' BY <1>0, <1>2 DEF HandshakeAnswered
    <2> QED BY <1>2, <2>1 DEF HandshakeAnswered, RetryInv, outerVars
  <1>3. CASE Decides
    <2>1. pc = "version" /\ UNCHANGED <<workerVars, relayed, call, daemon, repaired>>
      BY <1>3 DEF Decides, outerVars
    <2>2. CASE Sleeps BY <2>1, <2>2, SleepsInv DEF Calls
    <2>3. CASE pc' \in {"claim", "session", "probe"} /\ UNCHANGED <<requested, owed>>
      <3>1. CallIsOver' /\ (RelayLives => RelayLives')
        BY <2>1 DEF RetryInv, CallIsOver, Calls, RelayLives, workerVars
      <3> QED BY <2>1, <2>3, <3>1 DEF RetryInv
    <2> QED BY <1>3, <2>2, <2>3 DEF Decides
  <1>4. CASE ClaimAnswered
    <2>1. daemon' \in Daemons /\ daemon'.up = daemon.up
      BY <1>4 DEF ClaimAnswered, RetryInv, Daemons, Owners
    <2> QED BY <1>0, <1>4, <2>1, ShakesInv DEF ClaimAnswered
  <1>5. CASE CallFails
    <2>1. UNCHANGED <<relayed, requested, daemon, owed, repaired>> /\ pc' = "probe"
          /\ CallIsOver' /\ (RelayLives => RelayLives')
      BY <1>0, <1>5 DEF CallFails, outerVars
    <2>2. repaired => requested BY <1>5 DEF CallFails, RetryInv
    <2> QED BY <2>1, <2>2 DEF RetryInv
  <1>6. CASE ProbeEnds
    BY <1>6, SleepsInv DEF ProbeEnds, Calls, outerVars
  <1>7. CASE BackoffEnds \/ PauseEnds
    BY <1>7, ShakesInv DEF BackoffEnds, PauseEnds, outerVars, RetryInv, RelayLives, workerVars
  <1>8. CASE SessionEnds
    <2>1. UNCHANGED <<relayed, requested, daemon, owed, repaired>> /\ pc' = "pause"
          /\ pc = "session" /\ CallIsOver' /\ (RelayLives => RelayLives')
      BY <1>0, <1>8 DEF SessionEnds, outerVars
    <2> QED BY <2>1 DEF RetryInv
  <1> QED BY <1>1, <1>2, <1>3, <1>4, <1>5, <1>6, <1>7, <1>8 DEF Loop

LEMMA RetryWorker == WorkerInv /\ RetryInv /\ (WorkerChanges \/ OthersCall) => RetryInv'
  <1> SUFFICES ASSUME WorkerInv, RetryInv, WorkerChanges \/ OthersCall PROVE RetryInv'
    OBVIOUS
  <1>1. UNCHANGED <<relayed, pc, call, requested, daemon, owed>>
    BY DEF WorkerChanges, OthersCall, NotTheWorker, outerVars
  <1>2. ASSUME callers["loop"].phase = "idle" => callers'["loop"].phase = "idle",
               repaired' => repaired /\ (RelayLives => RelayLives' /\ (~Broken => ~Broken'))
        PROVE  RetryInv'
    BY <1>1, <1>2 DEF RetryInv, CallIsOver
  <1>3. CASE WorkerChanges
    BY <1>1, <1>2, <1>3, ProcessKeeps DEF WorkerChanges
  <1>4. CASE OthersCall
    <2>1. PICK c \in Callers \ {"loop"} : Connects(c) \/ CallEnds(c)
      BY <1>4 DEF OthersCall
    <2>2. CASE Connects(c)
      <3>1. callers'["loop"] = callers["loop"]
            /\ (RelayLives => RelayLives' /\ (~Broken => ~Broken'))
        BY <1>1, <2>1, <2>2, ConnectsKeeps, OthersLeave
      <3>2. UNCHANGED repaired BY <1>4 DEF OthersCall
      <3> QED BY <1>2, <3>1, <3>2
    <2>3. CASE CallEnds(c)
      <3>1. ~Broken => ~Broken'
        BY <1>1, <2>1, <2>3, CallEndsKeeps DEF Broken, Serves
      <3>2. callers'["loop"] = callers["loop"] /\ (RelayLives => RelayLives')
        BY <1>1, <2>1, <2>3, CallEndsKeeps
      <3>3. UNCHANGED repaired BY <1>4 DEF OthersCall
      <3> QED BY <1>2, <3>1, <3>2, <3>3
    <2> QED BY <2>1, <2>2, <2>3
  <1> QED BY <1>3, <1>4

LEMMA RetryCommands ==
    ASSUME RetryInv, NEW c \in Commands,
           Begins(c) \/ CommandExits(c) \/ SocketWaitEnds(c) \/ TakesOver(c) \/ TakenOver(c)
    PROVE  RetryInv'
  <1> USE DEF LoopWaits, workerVars
  <1>1. CASE Begins(c)
    BY <1>1, RetryRests DEF Begins, RetryInv
  <1>2. CASE CommandExits(c)
    <2>1. CASE UNCHANGED <<call, daemon, repaired>>
      BY <1>2, <2>1, RetryRests DEF CommandExits, RetryInv
    <2>2. CASE /\ daemon' = [daemon EXCEPT !.installed = TRUE, !.up = FALSE,
                                          !.version = "bundled"]
               /\ Breaks /\ repaired' = FALSE
      <3>1. daemon' \in Daemons BY <2>2 DEF RetryInv, Daemons, Versions
      <3> QED BY <1>2, <2>2, <3>1, RetryBreaks DEF CommandExits
    <2> QED BY <1>2, <2>1, <2>2 DEF CommandExits
  <1>3. CASE SocketWaitEnds(c) \/ TakenOver(c)
    <2>1. repaired' => repaired \/ (daemon.up /\ RelayLives)
      BY <1>3 DEF SocketWaitEnds, TakenOver
    <2>2. Retry /\ UNCHANGED <<workers, current, callers, faults, relayed, call, daemon>>
      BY <1>3 DEF SocketWaitEnds, TakenOver
    <2> QED BY <2>1, <2>2, RetryWakes
  <1>4. CASE TakesOver(c)
    <2>1. daemon' \in Daemons /\ daemon'.up = daemon.up
      BY <1>4 DEF TakesOver, RetryInv, Daemons, Owners
    <2> QED BY <1>4, <2>1, RetryRests DEF TakesOver
  <1> QED BY <1>1, <1>2, <1>3, <1>4

LEMMA RetryDaemon == RetryInv /\ (DaemonStarts \/ DaemonDies \/ OwnerChanges) => RetryInv'
  <1> SUFFICES ASSUME RetryInv, DaemonStarts \/ DaemonDies \/ OwnerChanges PROVE RetryInv'
    OBVIOUS
  <1>1. CASE DaemonStarts
    <2>1. daemon' \in Daemons /\ daemon'.up = TRUE
      BY <1>1 DEF DaemonStarts, RetryInv, Daemons
    <2> QED BY <1>1, <2>1, RetryRests DEF DaemonStarts, LoopWaits, workerVars
  <1>2. CASE DaemonDies
    <2>1. daemon' \in Daemons BY <1>2 DEF DaemonDies, RetryInv, Daemons
    <2> QED BY <1>2, <2>1, RetryBreaks DEF DaemonDies
  <1>3. CASE OwnerChanges
    <2>1. daemon' \in Daemons /\ daemon'.up = daemon.up
      BY <1>3 DEF OwnerChanges, RetryInv, Daemons, Owners
    <2>2. CASE pc = "session"
      BY <1>3, <2>1, <2>2 DEF OwnerChanges, RetryInv, CallIsOver, Calls, RelayLives, workerVars
    <2>3. CASE pc /= "session"
      BY <1>3, <2>1, <2>3, RetryRests DEF OwnerChanges, workerVars
    <2> QED BY <2>2, <2>3
  <1> QED BY <1>1, <1>2, <1>3

LEMMA RetryNext == WorkerInv /\ RetryInv /\ [Next]_vars => RetryInv'
  <1> SUFFICES ASSUME WorkerInv, RetryInv, [Next]_vars PROVE RetryInv'
    OBVIOUS
  <1>1. RetryInv => daemon \in Daemons BY DEF RetryInv
  <1>2. CASE Loop BY <1>2, RetryLoop
  <1>3. CASE StatusArrives \/ Groups
    BY <1>1, <1>3, RetryRests DEF StatusArrives, Groups, outerVars, workerVars
  <1>4. CASE RetryClicked
    BY <1>4, RetryWakes DEF RetryClicked, LoopWaits
  <1>5. CASE DaemonStarts \/ DaemonDies \/ OwnerChanges
    BY <1>5, RetryDaemon
  <1>6. CASE WorkerChanges \/ OthersCall
    BY <1>6, RetryWorker
  <1>7. CASE UNCHANGED vars
    BY <1>1, <1>7, RetryRests DEF vars, workerVars, outerVars
  <1> QED
    BY <1>2, <1>3, <1>4, <1>5, <1>6, <1>7, RetryCommands DEF Next

-----------------------------------------------------------------------------
(* Theorems. *)

LEMMA InitInv == Init => IInv
  <1> SUFFICES ASSUME Init PROVE IInv
    OBVIOUS
  <1>1. WorkerInv BY WorkerInitInv DEF Init
  <1>2. SessionInv BY DEF Init, SessionInv, ShownIsOfSession
  <1>3. RetryInv BY DEF Init, RetryInv, CallIsOver, Calls
  <1> QED BY <1>1, <1>2, <1>3 DEF IInv

LEMMA Invariant == Spec => []IInv
  <1>1. IInv /\ [Next]_vars => IInv'
    BY MovesInv, NextMoves, SessionNext, RetryNext DEF IInv
  <1> QED BY <1>1, InitInv, PTL DEF Spec

\* There is one worker that serves, whoever spawned it, and nobody waits for one that
\* was given up, for any number of processes, callers and failures (worker.ts).
THEOREM OnlyOneWorker == Spec => []OneWorker
  <1>1. ASSUME WorkerInv PROVE OneWorker
    <2>1. {w \in Processes : Serves(w)} \in SUBSET {current}
      BY <1>1 DEF WorkerInv, CurrentIsUp, Serves
    <2>2. IsFiniteSet({current}) /\ Cardinality({current}) = 1
      BY FS_Singleton
    <2>3. Cardinality({w \in Processes : Serves(w)}) <= 1
      BY <2>1, <2>2, FS_Subset
    <2> QED BY <1>1, <2>3 DEF OneWorker, WorkerInv, CurrentIsUp, WaitersWait
  <1> QED BY <1>1, Invariant, PTL DEF IInv

\* No retry is lost and none waits out a delay, nor does a repair that has seen the
\* daemon, for any number of them (retryConnection, interruptibleSleep, onRepaired).
THEOREM RetriesArrive == Spec => []RetryIsNotLost
  <1>1. IInv => RetryIsNotLost BY DEF IInv, RetryInv, RetryIsNotLost
  <1> QED BY <1>1, Invariant, PTL

\* What is shown is of the session there is (loopConnection, loopGroups).
THEOREM NothingOutlivesItsSession == Spec => []ShownIsOfSession
  <1>1. IInv => ShownIsOfSession BY DEF IInv, SessionInv
  <1> QED BY <1>1, Invariant, PTL
=============================================================================
