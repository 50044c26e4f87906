----------------------------- MODULE CrashGuard -----------------------------
(***************************************************************************)
(* RussiaDirectRuntime under every order of calls its callers can make:    *)
(* one start at a time (profiles.ts, runServiceStart) whose steps end at   *)
(* its awaits, and between those steps the events of the daemon, of the    *)
(* user and of the clock.  The daemon itself is not here: any start may    *)
(* succeed or fail, any moment may bring a stop or a loss, and the app may *)
(* end and come back, as the same build or another.  ServiceStart puts the *)
(* daemon and the rest of profiles.ts around the same operators.           *)
(***************************************************************************)
EXTENDS RussiaDirectRuntime

CONSTANTS
    MaxArmings,   \* bound: starts and restores of one process, by armToken; or None
    MaxCrashes    \* bound: crashes in a row of one build; or None

ASSUME BoundsAssumption ==
    MaxArmings \in Nat \cup {None} /\ MaxCrashes \in Nat \cup {None}

VARIABLES
    guard,      \* the object and its store
    call,       \* the start under way: startServiceNow between two awaits
    selfChecks, \* runDnsRuSelfCheck calls that have not ended
    crashes     \* history: per build, the losses of an armed start since one survived

vars == <<guard, call, selfChecks, crashes>>

Phases == {"idle", "probing", "checking", "prepared", "starting", "retrying"}

Calls == [ phase : Phases,
           base : Bases \cup {None},
           off : OffReasons \cup {None},
           newSession : BOOLEAN,
           shape : Shapes \cup {None},
           prepared : Prepareds \cup {None} ]

NoCall == [phase |-> "idle", base |-> None, off |-> None, newSession |-> FALSE,
           shape |-> None, prepared |-> None]

\* The first process finds what an earlier one may have recorded of its last start.
Init ==
    /\ \E b \in Builds, applied \in Applieds \cup {None} :
         guard = NewProcess([EmptyStore EXCEPT !.applied = applied], b)
    /\ call = NoCall
    /\ selfChecks = 0
    /\ crashes = [b \in Builds |-> 0]

Below(n, bound) == bound = None \/ n < bound

MayArm == Below(guard.armToken, MaxArmings) /\ Below(crashes[guard.build], MaxCrashes)

-----------------------------------------------------------------------------
(* startServiceNow, from await to await. *)

BeginStart(base, newSession) ==
    /\ call.phase = "idle"
    /\ guard' = [guard EXCEPT !.repairPending = FALSE]
    /\ call' = [NoCall EXCEPT !.phase = "probing", !.base = base, !.newSession = newSession]
    /\ UNCHANGED <<selfChecks, crashes>>

\* The probe is back: prepare() up to its first await, or to its end.
Prepare(off) ==
    LET g == IF call.newSession THEN NewSession(guard) ELSE guard
        prepared == PreparedAtOnce(g, call.base, off)
    IN  /\ call.phase = "probing"
        /\ guard' = Admit(g)
        /\ call' = [call EXCEPT !.phase = IF prepared = None THEN "checking" ELSE "prepared",
                                !.off = off,
                                !.newSession = FALSE,
                                !.shape = ShapeFor(g, call.base),
                                !.prepared = prepared]
        /\ UNCHANGED <<selfChecks, crashes>>

CheckAnswer(answer) ==
    /\ call.phase = "checking"
    /\ guard' = CheckAnswered(guard, call.shape, answer)
    /\ call' = [call EXCEPT !.phase = "prepared",
                            !.prepared = PreparedAfterCheck(call.shape, answer)]
    /\ UNCHANGED <<selfChecks, crashes>>

\* checkFirst refuses the config, or oomStartOptions fails.
GiveUp ==
    /\ call.phase = "prepared"
    /\ call' = NoCall
    /\ UNCHANGED <<guard, selfChecks, crashes>>

HandOver ==
    /\ call.phase = "prepared"
    /\ call.prepared.guarded => MayArm
    /\ guard' = ArmForStart(guard, call.prepared)
    /\ call' = [call EXCEPT !.phase = "starting"]
    /\ UNCHANGED <<selfChecks, crashes>>

\* The end of a start with what [ran], from the guard [g].
EndsRunning(g, ran) ==
    /\ guard' = Started(g, call.off, ran)
    /\ selfChecks' = IF ClaimsDnsCheck(g, ran) THEN selfChecks + 1 ELSE selfChecks
    /\ call' = NoCall
    /\ UNCHANGED crashes

StartSucceeds ==
    /\ call.phase = "starting"
    /\ EndsRunning(guard, call.prepared)

\* Nothing to retry with, or the user asked to stop.
StartFails ==
    /\ call.phase \in {"starting", "retrying"}
    /\ guard' = OnStopped(guard)
    /\ call' = NoCall
    /\ UNCHANGED <<selfChecks, crashes>>

RetryWithout ==
    /\ call.phase = "starting"
    /\ call.prepared.content \notin {"base", TorrentsOnly(call.base)}
    /\ call' = [call EXCEPT !.phase = "retrying"]
    /\ UNCHANGED <<guard, selfChecks, crashes>>

RetrySucceeds ==
    /\ call.phase = "retrying"
    /\ EndsRunning(RolledBack(guard), SafetyOff(call.base))

-----------------------------------------------------------------------------
(* What comes from outside. *)

Lose ==
    /\ guard' = OnDaemonLost(guard)
    /\ crashes' = IF guard.armedHere THEN [crashes EXCEPT ![guard.build] = @ + 1] ELSE crashes

\* The core dies taking the config (daemonDiedDuringCall).
StartKillsDaemon ==
    /\ call.phase = "starting"
    /\ Lose
    /\ call' = NoCall
    /\ UNCHANGED selfChecks

\* The status stream breaks while connected.
DaemonLost ==
    /\ guard.armedHere
    /\ Lose
    /\ UNCHANGED <<call, selfChecks>>

\* IDLE, FATAL or the user's stop request.
Stopped ==
    /\ guard.armedHere
    /\ guard' = OnStopped(guard)
    /\ UNCHANGED <<call, selfChecks, crashes>>

\* getStartedAt answers for a service that no start of ours is behind; while a
\* repair is due, onServiceStarted restarts it and does not ask.
Restored(recent) ==
    /\ call.phase = "idle"
    /\ ~guard.repairPending
    /\ MayArm
    /\ guard' = OnRestored(guard, recent)
    /\ UNCHANGED <<call, selfChecks, crashes>>

SurvivalTimer(serviceRunning) ==
    /\ guard.timer # None
    /\ guard' = SurvivalCheck(guard, serviceRunning)
    /\ crashes' = IF guard.armedHere /\ serviceRunning /\ ~guard'.armedHere
                  THEN [crashes EXCEPT ![guard.build] = 0] ELSE crashes
    /\ UNCHANGED <<call, selfChecks>>

\* Variant: the end of a self-check nobody started.
SelfCheckEndsAnyway(fails) ==
    /\ selfChecks' = selfChecks - 1
    /\ guard' = [guard EXCEPT !.dnsRuFallback = @ \/ fails]
    /\ UNCHANGED <<call, crashes>>

\* A dns-ru self-check ends; [fails] when dns-ru is dead and the proxy is not.
SelfCheckEnds(fails) ==
    /\ selfChecks > 0
    /\ selfChecks' = selfChecks - 1
    /\ guard' = [guard EXCEPT !.dnsRuFallback = @ \/ fails]
    /\ UNCHANGED <<call, crashes>>

\* The app ends, or its computer, and is started again; maybe updated.
AppRestarts(b) ==
    /\ guard' = NewProcess(guard, b)
    /\ call' = NoCall
    /\ selfChecks' = 0
    /\ UNCHANGED crashes

Next ==
    \/ \E base \in Bases, new \in BOOLEAN : BeginStart(base, new)
    \/ \E off \in OffReasons \cup {None} : Prepare(off)
    \/ \E answer \in CheckAnswers : CheckAnswer(answer)
    \/ GiveUp
    \/ HandOver
    \/ StartSucceeds
    \/ StartFails
    \/ RetryWithout
    \/ RetrySucceeds
    \/ StartKillsDaemon
    \/ DaemonLost
    \/ Stopped
    \/ \E recent \in BOOLEAN : Restored(recent)
    \/ \E running \in BOOLEAN : SurvivalTimer(running)
    \/ \E fails \in BOOLEAN : SelfCheckEnds(fails)
    \/ \E b \in Builds : AppRestarts(b)

Spec == Init /\ [][Next]_vars

\* A call to the daemon ends (it answers, or its socket breaks) and a timer
\* fires; nothing is promised of the user, of the network or of the daemon.
Fairness ==
    /\ WF_vars(StartSucceeds \/ StartFails \/ StartKillsDaemon \/ RetrySucceeds)
    /\ WF_vars(\E running \in BOOLEAN : SurvivalTimer(running))

FairSpec == Spec /\ Fairness

-----------------------------------------------------------------------------
(* Properties. *)

\* The config has been prepared.
Handed == {"prepared", "starting", "retrying"}

\* Every variable holds what its declaration says, and a start under way holds
\* what its phase needs.
TypeOK ==
    /\ guard \in Guards
    /\ call \in Calls
    /\ call.phase # "idle" => call.base \in Bases
    /\ call.phase \in Handed \cup {"checking"} =>
           call.shape \in Shapes /\ call.shape.base = call.base
    /\ call.phase \in Handed => call.prepared \in Prepareds
    /\ selfChecks \in Nat
    /\ crashes \in [Builds -> Nat]

\* While a process believes it is guarding a start, the store holds its own
\* uncrashed mark: were the process or the computer to go down now, the next
\* process would find that mark and drop it (admit, onDaemonLost).
ArmedHasOwnMark == guard.armedHere => guard.pending = OwnMark(guard, FALSE)

\* A survival timer that is still scheduled belongs to the arming in force: no
\* timer of an earlier start can take the guard off a later one.
TimerIsOfThisArming ==
    guard.timer # None => guard.armedHere /\ guard.timer.token = guard.armToken

\* An arming is never left behind: either its timer runs or a guarded start is
\* still in the daemon's hands.  An orphan would turn any later restart of the
\* daemon, days after the start, into a strike against the block.
NoOrphanArming ==
    guard.armedHere => \/ guard.timer # None
                       \/ call.phase \in {"starting", "retrying"} /\ call.prepared.guarded

StrikesFor(b) == IF guard.strikes # None /\ guard.strikes.key = b THEN guard.strikes.count ELSE 0
RecordsFor(b) == IF guard.pending # None /\ guard.pending = [key |-> b, crashed |-> TRUE] THEN 1 ELSE 0

\* Strikes never outnumber the crashes they stand for: for every build, the
\* strikes in the store and a crash record still to be counted are at most the
\* armed starts lost since one survived.  The app going down adds none.
NoStrikeWithoutCrash == \A b \in Builds : StrikesFor(b) + RecordsFor(b) <= crashes[b]

\* The config with the block is on its way to the daemon.
BlockUnderWay ==
    \/ call.phase = "checking"
    \/ call.phase \in Handed /\ call.prepared.content = "block"

\* After two strikes in a row, or once the session has turned it off, the block
\* is not put into a start, whatever happens during the start's awaits.
BlockOnlyWhenAdmitted ==
    BlockUnderWay => StrikesOf(guard) < MaxStrikes /\ ~guard.sessionOff

\* A config with the block reaches the daemon only after checkConfig has passed
\* it, or has refused the config without it as well.
BlockWasChecked ==
    call.phase \in Handed /\ call.prepared.content = "block"
        => Verdict(guard, call.shape) = "ok"

\* Strikes against this build go away only in the callback of the survival timer,
\* when it belongs to the arming in force and finds the service STARTED: not by a
\* stop, a failed start or a restart, nor by a timer that gives up.
StrikesForgivenOnlyBySurvival ==
    [][ guard'.build = guard.build /\ StrikesOf(guard') < StrikesOf(guard)
            => /\ guard.armedHere /\ guard.timer.token = guard.armToken
               /\ SurvivalTimer(TRUE) ]_vars

\* A crash on record is not lost on the way to its strike: the record of this
\* build leaves the store as one strike more, or under the mark of a new arming (a
\* start admitted before the crash, a service found running).  No stop, failed
\* start, rollback, timer that gives up or restart of the app drops it.
RecordBecomesStrike ==
    [][ RecordsFor(guard.build) = 1 /\ guard'.build = guard.build
        /\ guard'.pending # guard.pending
            => \/ StrikesOf(guard') = StrikesOf(guard) + 1
               \/ HandOver
               \/ \E recent \in BOOLEAN : Restored(recent) ]_vars

\* A guarded start is resolved in the end, as a survival, a stop or a crash,
\* even when the service never settles (MAX_SURVIVAL_RECHECKS).
ArmingEnds == guard.armedHere ~> ~guard.armedHere
=============================================================================
