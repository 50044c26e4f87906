------------------------ MODULE RussiaDirectRuntime ------------------------
(***************************************************************************)
(* The class RussiaDirectRuntime (src/src/main/vpn4tv/                     *)
(* russiaDirectRuntime.ts): the crash guard around every start and reload  *)
(* of the service, the check of the final config, and the session flags.   *)
(*                                                                         *)
(* The object and its share of the settings database are one record, the   *)
(* guard; each method is an operator from the guard before the call to the *)
(* guard after it.  A method runs to its next await without interruption,  *)
(* so a caller's action may apply several of them in one step.  CrashGuard *)
(* runs the object under every order of calls its callers can make, and    *)
(* ServiceStart under profiles.ts.                                         *)
(*                                                                         *)
(* A config is what the block makes of it: "base" (nothing added),         *)
(* "torrents" (the plain-BitTorrent rule alone) or "block" (the whole of   *)
(* "Russia direct").  Reasons, log lines and the label's revision strings  *)
(* are left out; a reason is kept where it decides something.              *)
(***************************************************************************)
EXTENDS Integers

CONSTANTS
    Builds,       \* app version with the revision of its lists: guardKey()
    OffReasons,   \* why "Russia direct" may be unwanted: "user", "head"
    Bases,        \* the configs without the block that a start may be for
    ForeignBases, \* those applyRussiaDirect leaves alone (not our shape)
    MaxStrikes,   \* MAX_STRIKES
    MaxRechecks,  \* MAX_SURVIVAL_RECHECKS
    None          \* null

ASSUME RuntimeAssumption ==
    /\ ForeignBases \subseteq Bases
    /\ MaxStrikes \in Nat \ {0}
    /\ MaxRechecks \in Nat

Contents == {"base", "torrents", "block"}
Verdicts == {"unknown", "ok", "blamed"}

\* Values of the store's four names, and of the survival timer.
Marks    == [key : Builds, crashed : BOOLEAN]
Tallies  == [key : Builds, count : Nat]
Labels   == [build : Builds, off : OffReasons \cup {None}]
Applieds == [label : Labels, guarded : BOOLEAN]
Shapes   == [base : Bases, fallback : BOOLEAN]
CheckKeys == [build : Builds, shape : Shapes]
Timers   == [token : Nat, rechecks : Nat]

Prepareds == [content : Contents, guarded : BOOLEAN, usesDnsRu : BOOLEAN]

\* null is none of the values it stands in for.
ASSUME NoneAssumption ==
    /\ None \notin Builds \cup Bases \cup OffReasons
    /\ None \notin Marks /\ None \notin Tallies /\ None \notin CheckKeys
    /\ None \notin Applieds /\ None \notin Timers /\ None \notin Prepareds

Guards ==
    [ build        : Builds,                  \* environment.appVersion
      pending      : Marks \cup {None},       \* store: PENDING
      strikes      : Tallies \cup {None},     \* store: STRIKES
      checked      : CheckKeys \cup {None},   \* store: CHECKED
      applied      : Applieds \cup {None},    \* store: APPLIED
      armedHere    : BOOLEAN,
      armToken     : Nat,
      timer        : Timers \cup {None},      \* cancelSurvival and its closure
      sessionOff   : BOOLEAN,                 \* sessionOffReason /= null
      repairPending : BOOLEAN,
      dnsRuFallback : BOOLEAN,
      dnsCheckStarted : BOOLEAN,
      checkVerdicts : [Shapes -> Verdicts] ]

\* A process of the app begins with what an earlier one left in the store.
NewProcess(store, b) ==
    [ build |-> b, pending |-> store.pending, strikes |-> store.strikes,
      checked |-> store.checked, applied |-> store.applied,
      armedHere |-> FALSE, armToken |-> 0, timer |-> None,
      sessionOff |-> FALSE, repairPending |-> FALSE,
      dnsRuFallback |-> FALSE, dnsCheckStarted |-> FALSE,
      checkVerdicts |-> [s \in Shapes |-> "unknown"] ]

EmptyStore == [pending |-> None, strikes |-> None, checked |-> None, applied |-> None]

-----------------------------------------------------------------------------
(* Arming and disarming. *)

OwnMark(g, crashed) == [key |-> g.build, crashed |-> crashed]

\* Variant: any end of an arming clears the strikes.
DisarmForgiving(g, survived) ==
    IF ~g.armedHere THEN g
    ELSE [g EXCEPT !.armedHere = FALSE, !.armToken = @ + 1, !.timer = None,
                   !.pending = None, !.strikes = None]

\* Variant: an end is taken for this process's arming without asking.
DisarmAnyone(g, survived) ==
    [g EXCEPT !.armedHere = FALSE, !.armToken = @ + 1, !.timer = None,
              !.pending = None, !.strikes = IF survived THEN None ELSE @]

Disarm(g, survived) ==
    IF ~g.armedHere THEN g
    ELSE [g EXCEPT !.armedHere = FALSE,
                   !.armToken  = @ + 1,
                   !.timer     = None,
                   !.pending   = None,
                   !.strikes   = IF survived THEN None ELSE @]

StartSurvivalTimer(g) == [g EXCEPT !.timer = [token |-> g.armToken, rechecks |-> 0]]

\* Variant: the timer of the start before is left to run.
ArmKeepingTimer(g, prepared) ==
    IF ~prepared.guarded THEN g
    ELSE [g EXCEPT !.pending   = IF g.armedHere THEN @ ELSE OwnMark(g, FALSE),
                   !.armedHere = TRUE,
                   !.armToken  = @ + 1]

ArmForStart(g, prepared) ==
    IF ~prepared.guarded THEN g
    ELSE [g EXCEPT !.pending   = IF g.armedHere THEN @ ELSE OwnMark(g, FALSE),
                   !.armedHere = TRUE,
                   !.armToken  = @ + 1,
                   !.timer     = None]

OnRunning(g, prepared) ==
    IF prepared.guarded /\ g.armedHere THEN StartSurvivalTimer(g) ELSE g

OnStopped(g) == Disarm(g, FALSE)

RolledBack(g) ==
    Disarm([g EXCEPT !.sessionOff = TRUE, !.repairPending = FALSE], FALSE)

OnDaemonLost(g) ==
    IF ~g.armedHere THEN g
    ELSE [g EXCEPT !.armedHere = FALSE,
                   !.armToken  = @ + 1,
                   !.timer     = None,
                   !.pending   = OwnMark(g, TRUE),
                   !.repairPending = TRUE]

LastStartGuarded(g) == g.applied # None /\ g.applied.guarded

\* Variant: the restored service is armed and no timer started.
OnRestoredUntimed(g, recent) ==
    IF g.armedHere \/ ~recent \/ ~LastStartGuarded(g) THEN g
    ELSE [g EXCEPT !.pending = OwnMark(g, FALSE), !.armedHere = TRUE, !.armToken = @ + 1]

\* The age the daemon reports is less than SURVIVE_MILLISECONDS, or not.
OnRestored(g, recent) ==
    IF g.armedHere \/ ~recent \/ ~LastStartGuarded(g) THEN g
    ELSE StartSurvivalTimer([g EXCEPT !.pending   = OwnMark(g, FALSE),
                                      !.armedHere = TRUE,
                                      !.armToken  = @ + 1])

\* Variant: the timer gives up and leaves the guard armed.
SurvivalCheckEndless(g, serviceRunning) ==
    LET rechecks == g.timer.rechecks + 1
    IN  IF g.timer.token # g.armToken \/ ~g.armedHere THEN [g EXCEPT !.timer = None]
        ELSE IF serviceRunning THEN Disarm([g EXCEPT !.timer = None], TRUE)
        ELSE IF rechecks > MaxRechecks THEN [g EXCEPT !.timer = None]
        ELSE [g EXCEPT !.timer.rechecks = rechecks]

\* Variant: a timer that gives up takes the block for a survivor.
SurvivalCheckForgiving(g, serviceRunning) ==
    LET fired == [g EXCEPT !.timer = None]
        rechecks == g.timer.rechecks + 1
    IN  IF g.timer.token # g.armToken \/ ~g.armedHere THEN fired
        ELSE IF serviceRunning \/ rechecks > MaxRechecks THEN Disarm(fired, TRUE)
        ELSE [g EXCEPT !.timer.rechecks = rechecks]

\* The timer's callback; a cancelled timer never runs it.
SurvivalCheck(g, serviceRunning) ==
    LET fired == [g EXCEPT !.timer = None]
        rechecks == g.timer.rechecks + 1
    IN  IF g.timer.token # g.armToken \/ ~g.armedHere THEN fired
        ELSE IF serviceRunning THEN Disarm(fired, TRUE)
        ELSE IF rechecks > MaxRechecks THEN Disarm(fired, FALSE)
        ELSE [g EXCEPT !.timer.rechecks = rechecks]

-----------------------------------------------------------------------------
(* Preparing a start. *)

NewSession(g) ==
    [g EXCEPT !.sessionOff = FALSE, !.dnsRuFallback = FALSE, !.dnsCheckStarted = FALSE]

\* The strikes in the store that count for this build.
StrikesOf(g) == IF g.strikes # None /\ g.strikes.key = g.build THEN g.strikes.count ELSE 0

\* Variant: this process's own mark is taken for an earlier one's.
MarkLeftByAnyone(g) == g.pending # None

MarkLeft(g)    == g.pending # None /\ ~g.armedHere
\* Variant: a mark without a crash counts too.
AnyMarkLeft(g) == MarkLeft(g) /\ g.pending.key = g.build

CrashLeft(g)   == MarkLeft(g) /\ g.pending.key = g.build /\ g.pending.crashed

\* Variant: one strike more than MAX_STRIKES is let through.
RefusesLate(g) == CrashLeft(g) \/ StrikesOf(g) > MaxStrikes

\* admit(): whether it answers a reason to leave the block out ...
Refuses(g) == CrashLeft(g) \/ StrikesOf(g) >= MaxStrikes

\* ... and what it does to the mark and the strikes.
Admit(g) ==
    IF CrashLeft(g)
    THEN [g EXCEPT !.pending    = None,
                   !.strikes    = [key |-> g.build, count |-> StrikesOf(g) + 1],
                   !.sessionOff = TRUE]
    ELSE IF MarkLeft(g) THEN [g EXCEPT !.pending = None]
    ELSE g

\* applyRussiaDirect: what becomes of [base] when [off] is why the block is unwanted.
Applied(base, off) ==
    IF base \in ForeignBases THEN "base"
    ELSE IF off # None THEN "torrents"
    ELSE "block"

TorrentsOnly(base) == IF base \in ForeignBases THEN "base" ELSE "torrents"

SafetyOff(base) ==
    [content |-> TorrentsOnly(base), guarded |-> FALSE, usesDnsRu |-> FALSE]

Whole(shape) == [content |-> "block", guarded |-> TRUE, usesDnsRu |-> ~shape.fallback]

ShapeFor(g, base) == [base |-> base, fallback |-> g.dnsRuFallback]

\* checkProblem's answer without asking the worker; "unknown" when it has to.
Verdict(g, shape) ==
    IF g.checked = [build |-> g.build, shape |-> shape] THEN "ok"
    ELSE g.checkVerdicts[shape]

\* What prepare() can tell without the worker: [g] is the guard before it.  None
\* when the config with the block has to be checked first.
PreparedAtOnce(g, base, off) ==
    LET content == Applied(base, off)
        verdict == Verdict(g, ShapeFor(g, base))
    IN  IF Refuses(g) \/ g.sessionOff THEN SafetyOff(base)
        ELSE IF content # "block"
             THEN [content |-> content, guarded |-> content # "base", usesDnsRu |-> FALSE]
        ELSE IF verdict = "ok" THEN Whole(ShapeFor(g, base))
        ELSE IF verdict = "blamed" THEN SafetyOff(base)
        ELSE None

\* The worker on the config with the block and, if it refuses, without it.
CheckAnswers == {"passed", "refused", "refused both"}

CheckAnswered(g, shape, answer) ==
    [g EXCEPT !.checked = IF answer = "passed" THEN [build |-> g.build, shape |-> shape] ELSE @,
              !.checkVerdicts[shape] = IF answer = "refused" THEN "blamed" ELSE "ok"]

PreparedAfterCheck(shape, answer) ==
    IF answer = "refused" THEN SafetyOff(shape.base) ELSE Whole(shape)

-----------------------------------------------------------------------------
(* After a start. *)

RecordApplied(g, off, ran) ==
    [g EXCEPT !.applied = [label |-> [build |-> g.build, off |-> off], guarded |-> ran.guarded]]

ClaimsDnsCheck(g, prepared) ==
    prepared.usesDnsRu /\ ~g.dnsRuFallback /\ ~g.dnsCheckStarted

ClaimDnsCheck(g, prepared) ==
    IF ClaimsDnsCheck(g, prepared) THEN [g EXCEPT !.dnsCheckStarted = TRUE] ELSE g

\* The tail of a start that went through.
Started(g, off, ran) == ClaimDnsCheck(OnRunning(RecordApplied(g, off, ran), ran), ran)
=============================================================================
