-------------------------- MODULE DaemonConnection --------------------------
(***************************************************************************)
(* The app's connection to the daemon: the loop of src/src/main/state.ts,  *)
(* the repair of the service (repair.ts) that wakes it, and, on Windows,   *)
(* the worker that relays its calls.                                       *)
(*                                                                         *)
(* The daemon is not part of the repository.  It may be missing, down, of  *)
(* another version, or serve nobody, the caller or another user; a daemon  *)
(* that is up answers in time.  The lengths of the delays are left out,    *)
(* and with them the count of attempts that only sets them.                *)
(***************************************************************************)
EXTENDS DaemonWorker

CONSTANTS
    Commands,   \* bound: repairs and take-overs under way at a time
    MaxCommands \* bound: how many there are in all

ASSUME ConnectionAssumption == MaxCommands \in Nat /\ "loop" \in Callers

VARIABLES
    relayed,   \* Windows: the daemon is called through the worker
    pc,        \* where loopConnection awaits
    call,      \* its call: not sent, one that can be answered, or one that cannot
    info,      \* what getDaemonInfo answered
    bundled,   \* bundledDaemonVersion: not asked yet, unknown for good, or known
    phase,     \* connection.phase
    status,    \* the status of the service
    shown,     \* groups are shown
    groupLoop, \* loopGroups of the session
    oldLoops,  \* loopGroups of earlier sessions that have not returned yet
    requested, \* retryRequested
    commands,  \* repairs and take-overs
    asked,     \* how many of them there were
    daemon,
    owed,      \* history: a retry was asked for and no handshake has begun since
    repaired   \* history: a repair has seen the daemon, which is up since, and no
               \* handshake has been answered since

groupVars == <<shown, groupLoop, oldLoops>>
outerVars == <<commands, asked, daemon>>
vars == <<workerVars, relayed, pc, call, info, bundled, phase, status, groupVars,
          requested, outerVars, owed, repaired>>

Calls  == {"handshake", "claim", "session"}
Points == Calls \cup {"version", "probe", "backoff", "pause"}
Phases == { "connecting", "connected", "version-mismatch", "owned-by-other-user",
            "not-installed", "not-running", "unavailable" }
Versions   == {"bundled", "another"}
Owners     == {"nobody", "caller", "other"}
Infos      == [version : Versions, owner : Owners \cup {"invalid"}]
Daemons    == [installed : BOOLEAN, up : BOOLEAN, version : Versions, owner : Owners]
GroupLoops == {"none", "streaming", "sleeping"}
CommandStates == {"idle", "elevated", "waiting for the socket", "taking over", "taken over"}

Init ==
    /\ WorkerInit
    /\ relayed \in BOOLEAN
    /\ pc = "handshake" /\ call = "none" /\ info = None /\ bundled = "not asked"
    /\ phase = "connecting" /\ status = None
    /\ shown = FALSE /\ groupLoop = "none" /\ oldLoops = {}
    /\ requested = FALSE
    /\ commands = [c \in Commands |-> "idle"] /\ asked = 0
    /\ daemon \in {d \in Daemons : d.up => d.installed}
    /\ owed = FALSE /\ repaired = FALSE

-----------------------------------------------------------------------------
(* The calls of the loop. *)

\* The call under way cannot be answered: nobody was there, the daemon or the relay
\* has gone since, or the relay did not come up.
Broken ==
    \/ call = "broken"
    \/ relayed /\ LET c == callers["loop"]
                  IN  c.phase = "failed" \/ (c.phase = "calling" /\ ~Serves(c.worker))

\* The call goes out: through the worker where there is one.
LoopCalls ==
    /\ pc \in Calls /\ call = "none" /\ ~Broken
    /\ \/ /\ relayed /\ Connects("loop")
          /\ UNCHANGED call
       \/ /\ relayed => callers["loop"].phase = "calling"
          /\ call' = IF daemon.up THEN "good" ELSE "broken"
          /\ UNCHANGED workerVars
    /\ UNCHANGED <<relayed, pc, info, bundled, phase, status, groupVars, requested,
                   outerVars, owed, repaired>>

CallOver ==
    /\ call' = "none"
    /\ IF relayed THEN CallEnds("loop") ELSE UNCHANGED workerVars

Shakes == pc' = "handshake" /\ owed' = FALSE

\* interruptibleSleep: a retry that came while the loop was busy is used up here.
Sleeps ==
    IF requested
    THEN Shakes /\ requested' = FALSE
    ELSE pc' = "backoff" /\ UNCHANGED <<requested, owed>>

\* Variant: a retry that finds the loop busy is dropped.
RetryWhenAsleep ==
    /\ UNCHANGED requested
    /\ IF pc = "backoff" THEN Shakes ELSE owed' = TRUE /\ UNCHANGED pc

\* retryConnection.  wakeRetry is set exactly while the loop is in interruptibleSleep.
Retry ==
    IF pc = "backoff"
    THEN Shakes /\ UNCHANGED requested
    ELSE requested' = TRUE /\ owed' = TRUE /\ UNCHANGED pc

\* The ownership as the daemon tells it; that of another version may be one the
\* client does not know.
Told == {daemon.owner} \cup (IF daemon.version = "another" THEN {"invalid"} ELSE {})

HandshakeAnswered ==
    /\ pc = "handshake" /\ call = "good" /\ ~Broken
    /\ \E owner \in Told : info' = [version |-> daemon.version, owner |-> owner]
    /\ pc' = "version"
    /\ CallOver
    /\ repaired' = FALSE
    /\ UNCHANGED <<relayed, bundled, phase, status, groupVars, requested, outerVars, owed>>

\* The bundled version is asked for once.  What follows looks at an answer that is
\* as old as that question.
Decides ==
    /\ pc = "version"
    /\ bundled' \in IF bundled = "not asked" THEN {"unknown", "known"} ELSE {bundled}
    /\ info' = None
    /\ LET mismatch == bundled' = "known" /\ info.version /= "bundled"
       IN  \/ /\ mismatch
              /\ phase' = "version-mismatch"
              /\ Sleeps
              /\ UNCHANGED <<status, shown, groupLoop>>
           \/ /\ ~mismatch /\ info.owner = "nobody"
              /\ pc' = "claim"
              /\ UNCHANGED <<phase, status, shown, groupLoop, requested, owed>>
           \/ /\ ~mismatch /\ info.owner = "other"
              /\ phase' = "owned-by-other-user"
              /\ status' = None /\ shown' = FALSE
              /\ Sleeps
              /\ UNCHANGED groupLoop
           \/ /\ ~mismatch /\ info.owner = "caller"
              /\ phase' = "connected"
              /\ pc' = "session" /\ groupLoop' = "streaming"
              /\ UNCHANGED <<status, shown, requested, owed>>
           \/ /\ ~mismatch /\ info.owner = "invalid"
              /\ pc' = "probe"
              /\ UNCHANGED <<phase, status, shown, groupLoop, requested, owed>>
    /\ UNCHANGED <<workerVars, relayed, call, oldLoops, outerVars, repaired>>

ClaimAnswered ==
    /\ pc = "claim" /\ call = "good" /\ ~Broken
    /\ daemon.owner = "nobody"
    /\ daemon' = [daemon EXCEPT !.owner = "caller"]
    /\ CallOver
    /\ Shakes
    /\ UNCHANGED <<relayed, info, bundled, phase, status, groupVars, requested,
                   commands, asked, repaired>>

\* An error of either call, the refusal of a claim that somebody else was quicker
\* with included: the service is probed.
CallFails ==
    /\ pc \in {"handshake", "claim"}
    /\ Broken \/ (pc = "claim" /\ call = "good" /\ daemon.owner /= "nobody")
    /\ pc' = "probe"
    /\ CallOver
    /\ UNCHANGED <<relayed, info, bundled, phase, status, groupVars, requested,
                   outerVars, owed, repaired>>

ProbeEnds ==
    /\ pc = "probe"
    /\ phase' \in {"unavailable"} \cup
                  (IF ~daemon.installed THEN {"not-installed"}
                   ELSE IF ~daemon.up THEN {"not-running"} ELSE {})
    /\ Sleeps
    /\ UNCHANGED <<workerVars, relayed, call, info, bundled, status, groupVars,
                   outerVars, repaired>>

BackoffEnds ==
    /\ pc = "backoff"
    /\ Shakes
    /\ UNCHANGED <<workerVars, relayed, call, info, bundled, phase, status, groupVars,
                   requested, outerVars, repaired>>

-----------------------------------------------------------------------------
(* A session: the status stream and loopGroups next to it. *)

StatusArrives ==
    /\ pc = "session" /\ call = "good" /\ ~Broken
    /\ status' = "seen"
    /\ UNCHANGED <<workerVars, relayed, pc, call, info, bundled, phase, groupVars,
                   requested, outerVars, owed, repaired>>

\* The stream ends: the session is aborted, its loopGroups goes on until it sees that.
SessionEnds ==
    /\ pc = "session" /\ Broken
    /\ pc' = "pause"
    /\ status' = None /\ shown' = FALSE
    /\ oldLoops' = oldLoops \cup {groupLoop} /\ groupLoop' = "none"
    /\ CallOver
    /\ UNCHANGED <<relayed, info, bundled, phase, requested, outerVars, owed, repaired>>

\* A second later.  By then an aborted stream has ended.
PauseEnds ==
    /\ pc = "pause" /\ "streaming" \notin oldLoops
    /\ Shakes
    /\ UNCHANGED <<workerVars, relayed, call, info, bundled, phase, status, groupVars,
                   requested, outerVars, repaired>>

GroupsArrive ==
    /\ groupLoop = "streaming" \/ "streaming" \in oldLoops  \* one that was under way
    /\ shown' = TRUE
    /\ UNCHANGED <<groupLoop, oldLoops>>

GroupsBreak ==
    /\ groupLoop = "streaming"
    /\ shown' = FALSE /\ groupLoop' = "sleeping"
    /\ UNCHANGED oldLoops

GroupsAgain ==
    /\ groupLoop = "sleeping"
    /\ groupLoop' = "streaming"
    /\ UNCHANGED <<shown, oldLoops>>

\* An aborted loop clears the groups after its stream, and returns.
OldLoopStops ==
    /\ "streaming" \in oldLoops
    /\ shown' = FALSE /\ oldLoops' = oldLoops \ {"streaming"}
    /\ UNCHANGED groupLoop

\* Variant: one that wakes subscribes again before it looks at its signal.
OldLoopWakesUp ==
    /\ "sleeping" \in oldLoops
    /\ oldLoops' = (oldLoops \ {"sleeping"}) \cup {"streaming"}
    /\ UNCHANGED <<shown, groupLoop>>

\* One that slept 3 s wakes, whoever is connected by now, and returns.
OldLoopWakes ==
    /\ "sleeping" \in oldLoops
    /\ oldLoops' = oldLoops \ {"sleeping"}
    /\ UNCHANGED <<shown, groupLoop>>

Groups ==
    /\ GroupsArrive \/ GroupsBreak \/ GroupsAgain \/ OldLoopStops \/ OldLoopWakes
    /\ UNCHANGED <<workerVars, relayed, pc, call, info, bundled, phase, status,
                   requested, outerVars, owed, repaired>>

-----------------------------------------------------------------------------
(* The user: repairs, take-overs, and the retry button. *)

LoopWaits == <<workerVars, relayed, call, info, bundled, phase, status, groupVars>>

RetryClicked ==
    /\ asked < MaxCommands /\ asked' = asked + 1
    /\ Retry
    /\ UNCHANGED <<LoopWaits, commands, daemon, repaired>>

Begins(c) ==
    /\ commands[c] = "idle"
    /\ asked < MaxCommands /\ asked' = asked + 1
    /\ \E state \in {"elevated", "taking over"} : commands' = [commands EXCEPT ![c] = state]
    /\ UNCHANGED <<LoopWaits, pc, requested, daemon, owed, repaired>>

\* A call that was under way when the daemon went away is not answered any more.
Breaks == call' = IF call = "good" THEN "broken" ELSE call

\* The elevated command is through: refused, canceled or failed, or the service
\* manager has taken the job.  An installation replaces the daemon.
CommandExits(c) ==
    /\ commands[c] = "elevated"
    /\ \/ /\ commands' = [commands EXCEPT ![c] = "idle"]
          /\ UNCHANGED <<call, daemon, repaired>>
       \/ /\ commands' = [commands EXCEPT ![c] = "waiting for the socket"]
          /\ \/ /\ daemon' = [daemon EXCEPT !.installed = TRUE, !.up = FALSE,
                                            !.version = "bundled"]
                /\ Breaks /\ repaired' = FALSE
             \/ daemon.installed /\ UNCHANGED <<call, daemon, repaired>>
    /\ UNCHANGED <<workerVars, relayed, info, bundled, phase, status, groupVars,
                   pc, requested, asked, owed>>

\* The relay is not needed, will be spawned, or is not dead yet.
RelayLives == relayed /\ current /= None => workers[current].alive

\* waitForDaemonSocket has reached the socket, or has waited for 20 s in vain.
\* Either way the loop is woken (onRepaired).
SocketWaitEnds(c) ==
    /\ commands[c] = "waiting for the socket"
    /\ repaired' = (repaired \/ (daemon.up /\ pc /= "session" /\ RelayLives))
    /\ commands' = [commands EXCEPT ![c] = "idle"]
    /\ Retry
    /\ UNCHANGED <<LoopWaits, asked, daemon>>

TakesOver(c) ==
    /\ commands[c] = "taking over"
    /\ \/ /\ daemon.up
          /\ daemon' = [daemon EXCEPT !.owner = "caller"]
          /\ commands' = [commands EXCEPT ![c] = "taken over"]
       \/ /\ commands' = [commands EXCEPT ![c] = "idle"]
          /\ UNCHANGED daemon
    /\ UNCHANGED <<LoopWaits, pc, requested, asked, owed, repaired>>

TakenOver(c) ==
    /\ commands[c] = "taken over"
    /\ commands' = [commands EXCEPT ![c] = "idle"]
    /\ Retry
    /\ UNCHANGED <<LoopWaits, asked, daemon, repaired>>

-----------------------------------------------------------------------------
(* The daemon and the worker. *)

DaemonStarts ==
    /\ daemon.installed /\ ~daemon.up
    /\ daemon' = [daemon EXCEPT !.up = TRUE]
    /\ UNCHANGED <<LoopWaits, pc, requested, commands, asked, owed, repaired>>

DaemonDies ==
    /\ daemon.up
    /\ Fault
    /\ daemon' = [daemon EXCEPT !.up = FALSE]
    /\ Breaks
    /\ repaired' = FALSE
    /\ UNCHANGED <<workers, current, callers, relayed, pc, info, bundled, phase, status,
                   groupVars, requested, commands, asked, owed>>

\* Another user of the computer claims the daemon, takes it over, or gives it back.
OwnerChanges ==
    /\ daemon.up
    /\ \/ daemon.owner /= "other" /\ daemon' = [daemon EXCEPT !.owner = "other"]
       \/ daemon.owner = "other" /\ daemon' = [daemon EXCEPT !.owner = "nobody"]
    /\ IF pc = "session" THEN Breaks ELSE UNCHANGED call
    /\ UNCHANGED <<workerVars, relayed, pc, info, bundled, phase, status, groupVars,
                   requested, commands, asked, owed, repaired>>

NotTheWorker == <<relayed, pc, call, info, bundled, phase, status, groupVars, requested,
                  outerVars, owed>>

WorkerChanges ==
    /\ \E w \in Processes : Process(w)
    /\ repaired' = (repaired /\ faults' = faults)
    /\ UNCHANGED NotTheWorker

\* Where the loop does without the worker, the others' calls do not concern it.
OthersCall ==
    /\ relayed
    /\ \E c \in Callers \ {"loop"} : Connects(c) \/ CallEnds(c)
    /\ UNCHANGED <<NotTheWorker, repaired>>

Loop ==
    \/ LoopCalls \/ HandshakeAnswered \/ Decides \/ ClaimAnswered \/ CallFails
    \/ ProbeEnds \/ BackoffEnds \/ SessionEnds \/ PauseEnds

Next ==
    \/ Loop \/ StatusArrives \/ Groups
    \/ RetryClicked
    \/ \E c \in Commands : Begins(c) \/ CommandExits(c) \/ SocketWaitEnds(c)
                           \/ TakesOver(c) \/ TakenOver(c)
    \/ DaemonStarts \/ DaemonDies \/ OwnerChanges \/ WorkerChanges \/ OthersCall

Spec == Init /\ [][Next]_vars

\* Delays end, calls end, an aborted stream ends, the operating system tells of a
\* process that has ended, and a worker that lives becomes ready.
Fairness ==
    /\ WF_vars(Loop)
    /\ WF_vars(OldLoopStops /\ Groups)
    /\ WF_vars(WorkerChanges)

FairSpec == Spec /\ Fairness

-----------------------------------------------------------------------------
(* Properties. *)

\* The types of the state.
TypeOK ==
    /\ WorkerTypeOK
    /\ relayed \in BOOLEAN
    /\ pc \in Points /\ call \in {"none", "good", "broken"}
    /\ info \in Infos \cup {None} /\ (pc = "version" <=> info /= None)
    /\ bundled \in {"not asked", "unknown", "known"}
    /\ phase \in Phases /\ status \in {None, "seen"}
    /\ shown \in BOOLEAN /\ groupLoop \in GroupLoops /\ oldLoops \subseteq GroupLoops
    /\ requested \in BOOLEAN /\ owed \in BOOLEAN /\ repaired \in BOOLEAN
    /\ commands \in [Commands -> CommandStates] /\ asked \in 0..MaxCommands
    /\ daemon \in Daemons

\* A retry that arrives while the loop is busy is not dropped: the loop never waits
\* out a delay before it has tried once since (state.ts 27-30).  Nor does it wait one
\* out after a repair that has seen the daemon's socket, whatever the loop was doing
\* (repair.ts 259-264).
RetryIsNotLost == owed \/ repaired => pc /= "backoff"

\* What is shown is of this session with a daemon that is ours: the status never
\* survives it, the groups only until the stream that was aborted has ended, and a
\* loop of an earlier session that wakes late neither shows nor clears any.
ShownIsOfSession ==
    /\ status /= None => pc = "session" /\ phase = "connected"
    /\ shown => pc = "session" \/ (pc = "pause" /\ "streaming" \in oldLoops)
    /\ pc = "session" => "streaming" \notin oldLoops

Usable == daemon.up /\ daemon.version = "bundled" /\ daemon.owner /= "other"

\* A daemon that stays there is connected in the end.
DaemonIsFound == Usable ~> (~Usable \/ (pc = "session" /\ ~Broken))

=============================================================================
