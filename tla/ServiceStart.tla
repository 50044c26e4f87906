---------------------------- MODULE ServiceStart ----------------------------
(***************************************************************************)
(* Every start and reload of the service (src/src/main/profiles.ts): the   *)
(* chain that runs them one at a time, who puts one into it, the start     *)
(* itself around RussiaDirectRuntime, the status stream of the daemon as   *)
(* state.ts hands it on, and the daemon.                                   *)
(*                                                                         *)
(* The daemon is not part of the repository: it takes or refuses a start,  *)
(* stops, dies at any moment and comes back with the config it ran, and    *)
(* another user of the computer may take it over.                          *)
(*                                                                         *)
(* A JavaScript turn is not interrupted.  What a promise continues at once *)
(* (the next operation of the chain, the hand-over of a prepared config)   *)
(* precedes any event from outside: the conjunct Settled.                  *)
(***************************************************************************)
EXTENDS RussiaDirectRuntime, Sequences, FiniteSets

CONSTANTS
    Base,        \* the selected profile's config without the block
    AutoConnect, \* the app connects at launch: autoConnectEnabled()
    Budgets      \* bound: how often each of Events may happen, one of these

Events == {"connect", "refresh", "setting", "dns-ru", "give up", "stop",
           "crash", "takeover"}

ASSUME ServiceAssumption ==
    Base \in Bases /\ AutoConnect \in BOOLEAN /\ Budgets \subseteq [Events -> Nat]

VARIABLES
    guard,    \* russiaDirect and its store
    queue,    \* what runServiceStart has still to run, by kind
    call,     \* the start that runs now
    session,  \* the flags of profiles.ts that last for a run of the app
    wanted,   \* the user's switch: russiaDirectWanted().offReason
    conn,     \* the client's side of the daemon: connection, status, stream
    daemon,
    crashes,  \* history: CrashGuard's count of lost guarded starts
    budget    \* what is left of the budget

vars == <<guard, queue, call, session, wanted, conn, daemon, crashes, budget>>

Kinds   == {"connect", "refresh", "reload", "repair", "update"}
Asked   == {"connect", "refresh"}
Phases  == {"idle", "probing", "checking", "prepared", "starting", "retrying"}
Answers == {"ok", "refused", "unreachable", "reset"}
Statuses == {"IDLE", "STARTING", "STARTED", "FATAL"}
Links   == {"connected", "not running", "owned by other"}

\* null stands for no answer and no status.
ASSUME NothingAssumption == None \notin Answers \cup Statuses

Calls == [ phase : Phases, kind : Kinds \cup {None},
           off : OffReasons \cup {None}, newSession : BOOLEAN,
           shape : Shapes \cup {None}, prepared : Prepareds \cup {None},
           daemonWasUp : BOOLEAN,        \* connected when the call began
           stopped : BOOLEAN,            \* stopRequestedAt >= startedAt
           answer : Answers \cup {None} ] \* the daemon's, not read yet

NoCall == [ phase |-> "idle", kind |-> None, off |-> None, newSession |-> FALSE,
            shape |-> None, prepared |-> None, daemonWasUp |-> FALSE,
            stopped |-> FALSE, answer |-> None ]

Sessions == [ startedHere : BOOLEAN,   \* startedThisSession
              firstSeen : BOOLEAN,     \* firstStartedSeen
              reloadQueued : BOOLEAN,  \* queuedSettingsReload /= null
              selfChecks : Nat,        \* runDnsRuSelfCheck calls that have not ended
              asking : BOOLEAN,        \* getStartedAt is not answered yet
              stopping : BOOLEAN ]     \* StopService is on its way

Conns == [ phase : Links, seen : Statuses \cup {None}, streaming : BOOLEAN,
           stream : Seq(Statuses \cup {"END"}) ]

Daemons == [ up : BOOLEAN, ours : BOOLEAN, status : Statuses, content : Contents \cup {None} ]

\* A run of the app begins: with an empty store and no service, or with one that
\* has been running since an earlier run (of this version, or before an update).
FirstRun ==
    /\ guard \in {NewProcess(EmptyStore, b) : b \in Builds}
    /\ daemon = [up |-> TRUE, ours |-> TRUE, status |-> "IDLE", content |-> None]

LaterRun ==
    /\ \E b, before \in Builds :
         guard = NewProcess(
           [EmptyStore EXCEPT !.applied = [label |-> [build |-> before, off |-> None],
                                           guarded |-> TRUE]], b)
    /\ daemon = [up |-> TRUE, ours |-> TRUE, status |-> "STARTED", content |-> "block"]

Init ==
    /\ FirstRun \/ LaterRun
    /\ queue = <<>>
    /\ call = NoCall
    /\ session = [startedHere |-> FALSE, firstSeen |-> FALSE, reloadQueued |-> FALSE,
                  selfChecks |-> 0, asking |-> FALSE, stopping |-> FALSE]
    /\ wanted = None
    /\ conn = [phase |-> "not running", seen |-> None, streaming |-> FALSE, stream |-> <<>>]
    /\ crashes = [b \in Builds |-> 0]
    /\ budget \in Budgets

\* No turn of the client is under way.
Settled ==
    /\ call.phase = "idle" => queue = <<>>
    /\ call.phase = "prepared" => call.kind = "update"

Spend(event) == budget[event] > 0 /\ budget' = [budget EXCEPT ![event] = @ - 1]

Running == conn.seen = "STARTED"

-----------------------------------------------------------------------------
(* Who asks for a start. *)

Ask(kind) ==
    /\ queue' = Append(queue, kind)
    /\ session' = [session EXCEPT !.startedHere = TRUE]
    /\ UNCHANGED <<guard, call, wanted, conn, daemon, crashes>>

\* startSelectedProfile: the tray and the dashboard offer it for a stopped service.
Connect ==
    /\ Settled
    /\ conn.phase = "connected" /\ ~Running
    /\ Spend("connect")
    /\ Ask("connect")

\* reloadIfSelectedAndRunning after the selected profile's content has changed;
\* while a start runs it waits, and looks at the status when that one is over.
Refresh ==
    /\ call.phase = "idle" /\ Running
    /\ Spend("refresh")
    /\ Ask("refresh")

\* reloadSelectedIfRunning merges into the reload that is queued already.
Reloading(s) == [s EXCEPT !.reloadQueued = TRUE]
WithReload == IF session.reloadQueued THEN queue ELSE Append(queue, "reload")

\* "Everything through VPN" is switched.
SwitchSetting ==
    /\ Settled
    /\ Spend("setting")
    /\ wanted' \in (OffReasons \cup {None}) \ {wanted}
    /\ queue' = WithReload
    /\ session' = Reloading(session)
    /\ UNCHANGED <<guard, call, conn, daemon, crashes>>

\* A self-check ends.  Only while the service is seen running, and once, may it
\* give up on dns-ru.
SelfCheckEnds(fails) ==
    LET gone == [session EXCEPT !.selfChecks = @ - 1] IN
    /\ Settled
    /\ session.selfChecks > 0
    /\ fails => Running /\ ~guard.dnsRuFallback
    /\ IF fails
       THEN /\ Spend("dns-ru")
            /\ guard' = [guard EXCEPT !.dnsRuFallback = TRUE]
            /\ queue' = WithReload
            /\ session' = Reloading(gone)
       ELSE session' = gone /\ UNCHANGED <<guard, queue, budget>>
    /\ UNCHANGED <<call, wanted, conn, daemon, crashes>>

-----------------------------------------------------------------------------
(* The chain. *)

\* Variant: a repair gives way to a start of this run, as the one-time restart does.
StillWantedOnce(kind) ==
    CASE kind = "reload" -> Running
      [] kind \in {"repair", "update"} -> Running /\ ~session.startedHere
      [] OTHER -> TRUE

\* What the operation at the head of the chain looks at before it starts.
StillWanted(kind) ==
    CASE kind = "reload" -> Running
      [] kind = "repair" -> Running /\ guard.repairPending
      [] kind = "update" -> Running /\ ~session.startedHere
      [] OTHER -> TRUE

\* Variant: queuedSettingsReload is not reset when the reload begins.
TakenUnmarked(s, kind) == s

Taken(s, kind) == IF kind = "reload" THEN [s EXCEPT !.reloadQueued = FALSE] ELSE s

Skip ==
    /\ call.phase = "idle" /\ queue # <<>>
    /\ ~StillWanted(Head(queue))
    /\ queue' = Tail(queue)
    /\ session' = Taken(session, Head(queue))
    /\ UNCHANGED <<guard, call, wanted, conn, daemon, crashes, budget>>

\* startServiceNow up to the probes.
Begin ==
    /\ call.phase = "idle" /\ queue # <<>>
    /\ StillWanted(Head(queue))
    /\ queue' = Tail(queue)
    /\ session' = [Taken(session, Head(queue)) EXCEPT !.startedHere = TRUE]
    /\ guard' = [guard EXCEPT !.repairPending = FALSE]
    /\ call' = [NoCall EXCEPT !.phase = "probing", !.kind = Head(queue),
                  !.newSession = Head(queue) \in {"connect", "repair", "update"}]
    /\ UNCHANGED <<wanted, conn, daemon, crashes, budget>>

Prepare ==
    LET g == IF call.newSession THEN NewSession(guard) ELSE guard
        prepared == PreparedAtOnce(g, Base, wanted)
    IN  /\ call.phase = "probing"
        /\ guard' = Admit(g)
        /\ call' = [call EXCEPT !.phase = IF prepared = None THEN "checking" ELSE "prepared",
                                !.off = wanted,
                                !.newSession = FALSE,
                                !.shape = ShapeFor(g, Base),
                                !.prepared = prepared]
        /\ UNCHANGED <<queue, session, wanted, conn, daemon, crashes, budget>>

CheckAnswer(answer) ==
    /\ call.phase = "checking"
    /\ guard' = CheckAnswered(guard, call.shape, answer)
    /\ call' = [call EXCEPT !.phase = "prepared",
                            !.prepared = PreparedAfterCheck(call.shape, answer)]
    /\ UNCHANGED <<queue, session, wanted, conn, daemon, crashes, budget>>

\* checkFirst: the config would be refused, the running service is left alone.
GiveUp ==
    /\ call.phase = "prepared" /\ call.kind = "update"
    /\ Spend("give up")
    /\ call' = NoCall
    /\ UNCHANGED <<guard, queue, session, wanted, conn, daemon, crashes>>

\* Variant: the config goes out before the guard is armed.
HandOverUnarmed ==
    /\ call.phase = "prepared"
    /\ call' = [call EXCEPT !.phase = "starting", !.daemonWasUp = conn.phase = "connected"]
    /\ UNCHANGED <<guard, queue, session, wanted, conn, daemon, crashes, budget>>

HandOver ==
    /\ call.phase = "prepared"
    /\ guard' = ArmForStart(guard, call.prepared)
    /\ call' = [call EXCEPT !.phase = "starting",
                            !.daemonWasUp = conn.phase = "connected"]
    /\ UNCHANGED <<queue, session, wanted, conn, daemon, crashes, budget>>

\* The end of a start with what [ran], from the guard [g].
EndsRunning(g, ran) ==
    /\ guard' = Started(g, call.off, ran)
    /\ session' = IF ClaimsDnsCheck(g, ran) THEN [session EXCEPT !.selfChecks = @ + 1]
                  ELSE session
    /\ call' = NoCall
    /\ UNCHANGED <<queue, wanted, conn, daemon, crashes, budget>>

StartSucceeds ==
    /\ call.phase = "starting" /\ call.answer = "ok"
    /\ EndsRunning(guard, call.prepared)

\* onDaemonLost.
Lose ==
    /\ guard' = OnDaemonLost(guard)
    /\ IF guard.armedHere
       THEN crashes' = [crashes EXCEPT ![guard.build] = @ + 1]
       ELSE UNCHANGED crashes

\* Variant: whatever the call fails with is taken for the daemon's death.
FailedDuringCall == call.daemonWasUp /\ call.answer \notin {"ok", None}

DiedDuringCall == call.daemonWasUp /\ call.answer = "reset"

StartKillsDaemon ==
    /\ call.phase = "starting" /\ DiedDuringCall
    /\ Lose
    /\ call' = NoCall
    /\ UNCHANGED <<queue, session, wanted, conn, daemon, budget>>

MayRetry == call.prepared.content \notin {"base", TorrentsOnly(Base)} /\ ~call.stopped

RetryWithout ==
    /\ call.phase = "starting" /\ call.answer \notin {"ok", None} /\ ~DiedDuringCall
    /\ MayRetry
    /\ call' = [call EXCEPT !.phase = "retrying", !.answer = None]
    /\ UNCHANGED <<guard, queue, session, wanted, conn, daemon, crashes, budget>>

StartFails ==
    /\ \/ call.phase = "starting" /\ ~DiedDuringCall /\ ~MayRetry
       \/ call.phase = "retrying"
    /\ call.answer \notin {"ok", None}
    /\ guard' = OnStopped(guard)
    /\ call' = NoCall
    /\ UNCHANGED <<queue, session, wanted, conn, daemon, crashes, budget>>

RetrySucceeds ==
    /\ call.phase = "retrying" /\ call.answer = "ok"
    /\ EndsRunning(RolledBack(guard), SafetyOff(Base))

-----------------------------------------------------------------------------
(* The status stream (state.ts) and what profiles.ts does at each status. *)

OnLost ==
    /\ conn' = [conn EXCEPT !.seen = None, !.streaming = FALSE, !.stream = <<>>]
    /\ IF conn.seen # None /\ conn.phase = "connected"
       THEN Lose ELSE UNCHANGED <<guard, crashes>>
    /\ UNCHANGED <<queue, session>>

\* Variant: a start under way is looked at before the repair is.
OnServiceStartedBusy ==
    IF call.phase # "idle" THEN UNCHANGED <<queue, session>>
    ELSE IF guard.repairPending
    THEN queue' = Append(queue, "repair") /\ UNCHANGED session
    ELSE session' = [session EXCEPT !.firstSeen = TRUE] /\ UNCHANGED queue

OnServiceStarted ==
    LET asks == [session EXCEPT !.asking = daemon.up /\ daemon.ours, !.firstSeen = TRUE]
        oneTime == /\ ~session.firstSeen /\ ~session.startedHere /\ ~AutoConnect
                   /\ \/ guard.applied = None
                      \/ guard.applied.label # [build |-> guard.build, off |-> wanted]
    IN  IF guard.repairPending
        THEN queue' = Append(queue, "repair") /\ UNCHANGED session
        ELSE IF call.phase # "idle" THEN UNCHANGED <<queue, session>>
        ELSE /\ session' = asks
             /\ queue' = IF oneTime THEN Append(queue, "update") ELSE queue

OnStatus(status) ==
    /\ conn' = [conn EXCEPT !.seen = status, !.stream = Tail(@)]
    /\ UNCHANGED crashes
    /\ \/ /\ status \in {"IDLE", "FATAL"} /\ conn.seen \notin {None, status}
          /\ guard' = OnStopped(guard)
          /\ UNCHANGED <<queue, session>>
       \/ /\ status = "STARTED" /\ conn.seen # status
          /\ OnServiceStarted
          /\ UNCHANGED guard
       \/ /\ status = "STARTING" \/ conn.seen = status
             \/ (status \in {"IDLE", "FATAL"} /\ conn.seen = None)
          /\ UNCHANGED <<guard, queue, session>>

Deliver ==
    /\ Settled
    /\ conn.stream # <<>>
    /\ IF Head(conn.stream) = "END" THEN OnLost ELSE OnStatus(Head(conn.stream))
    /\ UNCHANGED <<call, wanted, daemon, budget>>

\* loopConnection after the stream has ended: the handshake tells how it stands.
Reconnect ==
    /\ Settled
    /\ ~conn.streaming /\ call.answer # "reset"
    /\ conn' = IF ~daemon.up THEN [conn EXCEPT !.phase = "not running"]
               ELSE IF ~daemon.ours THEN [conn EXCEPT !.phase = "owned by other"]
               ELSE [conn EXCEPT !.phase = "connected", !.streaming = TRUE,
                                 !.stream = <<daemon.status>>]
    /\ conn' # conn
    /\ UNCHANGED <<guard, queue, call, session, wanted, daemon, crashes, budget>>

\* getStartedAt answers; onRestored looks at the age of the service.
StartedAtAnswer(recent) ==
    /\ Settled
    /\ session.asking
    /\ session' = [session EXCEPT !.asking = FALSE]
    /\ guard' = IF call.phase = "idle" /\ daemon.status = "STARTED"
                THEN OnRestored(guard, recent) ELSE guard
    /\ UNCHANGED <<queue, call, wanted, conn, daemon, crashes, budget>>

ServiceRunning == conn.phase = "connected" /\ Running

SurvivalTimer ==
    /\ Settled
    /\ guard.timer # None
    /\ guard' = SurvivalCheck(guard, ServiceRunning)
    /\ crashes' = IF guard.armedHere /\ ServiceRunning /\ ~guard'.armedHere
                  THEN [crashes EXCEPT ![guard.build] = 0] ELSE crashes
    /\ UNCHANGED <<queue, call, session, wanted, conn, daemon, budget>>

\* The user stops a running service: noteStopRequested, and StopService goes out.
RequestStop ==
    /\ Settled
    /\ conn.seen \in {"STARTED", "STARTING"}
    /\ Spend("stop")
    /\ guard' = OnStopped(guard)
    /\ call' = IF call.phase = "idle" THEN call
               ELSE [call EXCEPT !.stopped = call.phase \in {"starting", "retrying"}]
    /\ session' = [session EXCEPT !.stopping = daemon.up]
    /\ UNCHANGED <<queue, wanted, conn, daemon, crashes>>

\* The user takes the service back from another one: takeOverService.
TakeOverService ==
    /\ Settled
    /\ conn.phase = "owned by other" /\ daemon.up
    /\ daemon' = [daemon EXCEPT !.ours = TRUE]
    /\ UNCHANGED <<guard, queue, call, session, wanted, conn, crashes, budget>>

-----------------------------------------------------------------------------
(* The daemon. *)

StreamOpen == conn.streaming /\ \A i \in DOMAIN conn.stream : conn.stream[i] # "END"

Pushed(statuses) == IF StreamOpen THEN [conn EXCEPT !.stream = @ \o statuses] ELSE conn

InFlight == call.phase \in {"starting", "retrying"} /\ call.answer = None

Asking == IF call.phase = "starting" THEN call.prepared.content ELSE TorrentsOnly(Base)

Answer(answer) == call' = [call EXCEPT !.answer = answer]

DaemonRefuses ==
    /\ InFlight
    /\ IF daemon.up /\ daemon.ours
       THEN /\ Answer("refused")
            /\ daemon' = [daemon EXCEPT !.status = "FATAL", !.content = None]
            /\ conn' = Pushed(<<"STARTING", "FATAL">>)
       ELSE /\ Answer(IF daemon.up THEN "refused" ELSE "unreachable")
            /\ UNCHANGED <<daemon, conn>>
    /\ UNCHANGED <<guard, queue, session, wanted, crashes, budget>>

DaemonStarts ==
    /\ InFlight
    /\ daemon.up /\ daemon.ours
    /\ Answer("ok")
    /\ daemon' = [daemon EXCEPT !.status = "STARTED", !.content = Asking]
    /\ conn' = Pushed(<<"STARTING", "STARTED">>)
    /\ UNCHANGED <<guard, queue, session, wanted, crashes, budget>>

\* It goes down, while it runs or while it takes the config of the call.
DaemonCrashes(taking) ==
    /\ Spend("crash")
    /\ daemon.up
    /\ taking => InFlight /\ daemon.ours
    /\ daemon' = [daemon EXCEPT !.up = FALSE,
                                !.status = IF taking THEN "STARTED" ELSE @,
                                !.content = IF taking THEN Asking ELSE @]
    /\ conn' = Pushed(<<"END">>)
    /\ call' = IF InFlight THEN [call EXCEPT !.answer = "reset"] ELSE call
    /\ session' = [session EXCEPT !.asking = FALSE, !.stopping = FALSE]
    /\ UNCHANGED <<guard, queue, wanted, crashes>>

\* The system restarts it, seconds after the client saw it go (RestartSec=5 in
\* build/sing-box-daemon.service), and it brings back the config it ran.
DaemonReturns ==
    /\ ~daemon.up
    /\ ~conn.streaming /\ call.answer # "reset"
    /\ daemon' = [daemon EXCEPT !.up = TRUE, !.status = IF @ = "STARTED" THEN @ ELSE "IDLE"]
    /\ UNCHANGED <<guard, queue, call, session, wanted, conn, crashes, budget>>

DaemonStops ==
    /\ session.stopping
    /\ session' = [session EXCEPT !.stopping = FALSE]
    /\ IF daemon.up /\ daemon.ours /\ daemon.status = "STARTED"
       THEN /\ daemon' = [daemon EXCEPT !.status = "IDLE", !.content = None]
            /\ conn' = Pushed(<<"IDLE">>)
       ELSE UNCHANGED <<daemon, conn>>
    /\ UNCHANGED <<guard, queue, call, wanted, crashes, budget>>

\* Another user takes the service over; the stream of this one ends.
OtherTakesOver ==
    /\ Spend("takeover")
    /\ daemon.up /\ daemon.ours
    /\ daemon' = [daemon EXCEPT !.ours = FALSE]
    /\ conn' = Pushed(<<"END">>)
    /\ session' = [session EXCEPT !.asking = FALSE, !.stopping = FALSE]
    /\ UNCHANGED <<guard, queue, call, wanted, crashes>>

-----------------------------------------------------------------------------

Starts ==
    \/ Skip \/ Begin \/ Prepare
    \/ \E answer \in CheckAnswers : CheckAnswer(answer)
    \/ GiveUp \/ HandOver
    \/ StartSucceeds \/ StartKillsDaemon \/ RetryWithout \/ StartFails \/ RetrySucceeds

Watching ==
    \/ Deliver \/ Reconnect \/ SurvivalTimer
    \/ \E recent \in BOOLEAN : StartedAtAnswer(recent)

Taking == DaemonRefuses \/ DaemonStarts

Next ==
    \/ Starts \/ Watching \/ Taking
    \/ Connect \/ Refresh \/ SwitchSetting \/ RequestStop \/ TakeOverService
    \/ \E fails \in BOOLEAN : SelfCheckEnds(fails)
    \/ \E taking \in BOOLEAN : DaemonCrashes(taking)
    \/ DaemonReturns \/ DaemonStops \/ OtherTakesOver

Spec == Init /\ [][Next]_vars

\* Promises go on, every await is bounded or answered by the daemon, the loop of
\* state.ts tries again for ever, and the system restarts the daemon.
Fairness ==
    /\ WF_vars(Starts)
    /\ WF_vars(Taking)
    /\ WF_vars(Deliver)
    /\ WF_vars(Reconnect)
    /\ WF_vars(SurvivalTimer)
    /\ WF_vars(DaemonReturns)

FairSpec == Spec /\ Fairness

-----------------------------------------------------------------------------
(* Properties. *)

\* CrashGuard, seen from here: the guard, the start under way without what only the
\* chain and the daemon need, and no bound on the armings.
Guarded == INSTANCE CrashGuard WITH
    MaxArmings <- None, MaxCrashes <- None,
    selfChecks <- session.selfChecks,
    call <- [phase |-> call.phase,
             base |-> IF call.phase = "idle" THEN None ELSE Base,
             off |-> call.off, newSession |-> call.newSession,
             shape |-> call.shape, prepared |-> call.prepared]

\* The chain and the daemon call the guard only in an order CrashGuard allows:
\* what is proved of it holds of the guard inside profiles.ts.
IsAGuard == Guarded!Spec

Queued(kind) == {i \in DOMAIN queue : queue[i] = kind}

\* A burst of changes merges into one reload, and none is lost: the queued reload
\* is remembered exactly as long as it has not started.
ReloadsMerge ==
    /\ Cardinality(Queued("reload")) <= 1
    /\ session.reloadQueued <=> Queued("reload") # {}

\* While a repair is due, the service is not seen running without the repair in
\* the chain, unless the end of that very run is on its way to the client.
RepairIsQueued ==
    guard.repairPending /\ Running => Queued("repair") # {} \/ ~StreamOpen

\* The restart after a crash comes, unless the service goes away again first:
\* no start, reload or stop in between makes the client forget it.
RepairHappens == guard.repairPending /\ Running ~> ~guard.repairPending \/ ~Running

\* Strikes go away only while the client sees the service running over its own
\* connection, in the callback of the survival timer: no stop, start, loss, retry
\* or takeover on the way through the chain and the daemon forgives any.
ForgivenOnlyWhileRunning ==
    [][StrikesOf(guard') < StrikesOf(guard) => ServiceRunning /\ SurvivalTimer]_vars

\* A crash is counted only while the daemon is down or another user has it: no
\* refused, failed or repeated start, no stop and no late answer of a daemon that
\* serves this user is taken for one.  (Of another user's see TakeoverIsNoCrash.)
LostIsGoneOrTaken ==
    [][ \A b \in Builds : crashes'[b] > crashes[b]
            => guard.armedHere /\ ~(daemon.up /\ daemon.ours) ]_vars

\* profiles.ts on another user's takeover: it is no crash.  Only a daemon that
\* has gone down is counted as one.
TakeoverIsNoCrash == [][\A b \in Builds : crashes'[b] > crashes[b] => ~daemon.up]_vars
=============================================================================
