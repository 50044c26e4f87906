------------------------- MODULE CrashGuard_proofs -------------------------
(***************************************************************************)
(* Proofs about CrashGuard, for every value of its constants.              *)
(*                                                                         *)
(* The methods of the class are treated one by one: a lemma says that the  *)
(* method keeps the guard in Guards, and the step of Next that calls it    *)
(* only cites the lemma.                                                   *)
(***************************************************************************)
EXTENDS CrashGuard, TLAPS

-----------------------------------------------------------------------------
(* The methods keep the guard well typed. *)

\* Arming and disarming count on.
LEMMA TokenType == ASSUME NEW g \in Guards PROVE g.armToken + 1 \in Nat
BY DEF Guards
\* disarm() and its callers onStopped() and rolledBack().
LEMMA DisarmType ==
    ASSUME NEW g \in Guards, NEW survived \in BOOLEAN
    PROVE  Disarm(g, survived) \in Guards
<1> DEFINE left == IF survived THEN None ELSE g.strikes
<1>1. left \in Tallies \cup {None}
  BY DEF Guards
<1>2. [g EXCEPT !.armedHere = FALSE, !.armToken = @ + 1, !.timer = None,
                !.pending = None, !.strikes = left] \in Guards
  <2> HIDE DEF left
  <2> QED BY <1>1, TokenType DEF Guards
<1> QED
  BY <1>2 DEF Disarm


LEMMA RolledBackType == ASSUME NEW g \in Guards PROVE RolledBack(g) \in Guards
<1>1. [g EXCEPT !.sessionOff = TRUE, !.repairPending = FALSE] \in Guards
  BY DEF Guards
<1> QED
  BY <1>1, DisarmType DEF RolledBack

\* The mark of this build.
LEMMA OwnMarkType ==
    ASSUME NEW g \in Guards, NEW crashed \in BOOLEAN PROVE OwnMark(g, crashed) \in Marks
BY DEF Guards, OwnMark, Marks

LEMMA ArmForStartType ==
    ASSUME NEW g \in Guards, NEW p \in Prepareds PROVE ArmForStart(g, p) \in Guards
<1> DEFINE mark == IF g.armedHere THEN g.pending ELSE OwnMark(g, FALSE)
<1>1. mark \in Marks \cup {None}
  BY OwnMarkType DEF Guards
<1>2. [g EXCEPT !.pending = mark, !.armedHere = TRUE, !.armToken = @ + 1,
                !.timer = None] \in Guards
  <2> HIDE DEF mark
  <2> QED BY <1>1, TokenType DEF Guards
<1> QED
  BY <1>2 DEF ArmForStart

LEMMA OnDaemonLostType == ASSUME NEW g \in Guards PROVE OnDaemonLost(g) \in Guards
<1> DEFINE mark == OwnMark(g, TRUE)
<1>1. mark \in Marks
  BY OwnMarkType
<1>2. [g EXCEPT !.armedHere = FALSE, !.armToken = @ + 1, !.timer = None,
                !.pending = mark, !.repairPending = TRUE] \in Guards
  <2> HIDE DEF mark
  <2> QED BY <1>1, TokenType DEF Guards
<1> QED
  BY <1>2 DEF OnDaemonLost

LEMMA StartSurvivalTimerType ==
    ASSUME NEW g \in Guards PROVE StartSurvivalTimer(g) \in Guards
BY DEF Guards, StartSurvivalTimer, Timers

LEMMA OnRunningType ==
    ASSUME NEW g \in Guards, NEW p \in Prepareds PROVE OnRunning(g, p) \in Guards
BY StartSurvivalTimerType DEF OnRunning

LEMMA OnRestoredType ==
    ASSUME NEW g \in Guards, NEW recent \in BOOLEAN PROVE OnRestored(g, recent) \in Guards
<1> DEFINE armed == [g EXCEPT !.pending = OwnMark(g, FALSE), !.armedHere = TRUE,
                              !.armToken = @ + 1]
<1>1. armed \in Guards
  <2>1. OwnMark(g, FALSE) \in Marks
    BY OwnMarkType
  <2> QED
    BY <2>1, TokenType DEF Guards
<1>2. StartSurvivalTimer(armed) \in Guards
  BY <1>1, StartSurvivalTimerType
<1> QED
  BY <1>2 DEF OnRestored

LEMMA SurvivalCheckType ==
    ASSUME NEW g \in Guards, g.timer # None, NEW running \in BOOLEAN
    PROVE  SurvivalCheck(g, running) \in Guards
<1>1. g.timer \in Timers
  BY DEF Guards
<1> DEFINE fired == [g EXCEPT !.timer = None]
<1>2. fired \in Guards
  BY DEF Guards
<1>3. [g EXCEPT !.timer.rechecks = g.timer.rechecks + 1] \in Guards
  BY <1>1 DEF Guards, Timers
<1>4. Disarm(fired, TRUE) \in Guards /\ Disarm(fired, FALSE) \in Guards
  BY <1>2, DisarmType
<1> QED
  BY <1>2, <1>3, <1>4 DEF SurvivalCheck

LEMMA NewSessionType == ASSUME NEW g \in Guards PROVE NewSession(g) \in Guards
BY DEF Guards, NewSession

LEMMA StrikesOfType == ASSUME NEW g \in Guards PROVE StrikesOf(g) \in Nat
BY DEF Guards, StrikesOf, Tallies

LEMMA AdmitType == ASSUME NEW g \in Guards PROVE Admit(g) \in Guards
<1> DEFINE struck == [key |-> g.build, count |-> StrikesOf(g) + 1]
<1>1. struck \in Tallies
  BY StrikesOfType DEF Guards, Tallies
<1>2. [g EXCEPT !.pending = None, !.strikes = struck, !.sessionOff = TRUE] \in Guards
  BY <1>1 DEF Guards
<1>3. [g EXCEPT !.pending = None] \in Guards
  BY DEF Guards
<1> QED
  BY <1>2, <1>3 DEF Admit

LEMMA SafetyOffType == ASSUME NEW base \in Bases PROVE SafetyOff(base) \in Prepareds
BY DEF SafetyOff, TorrentsOnly, Prepareds, Contents

LEMMA WholeType == ASSUME NEW shape \in Shapes PROVE Whole(shape) \in Prepareds
BY DEF Whole, Shapes, Prepareds, Contents

LEMMA ShapeForType ==
    ASSUME NEW g \in Guards, NEW base \in Bases
    PROVE  ShapeFor(g, base) \in Shapes /\ ShapeFor(g, base).base = base
BY DEF ShapeFor, Shapes, Guards

\* What prepare() answers before its first await.
LEMMA PreparedAtOnceType ==
    ASSUME NEW g \in Guards, NEW base \in Bases, NEW off \in OffReasons \cup {None}
    PROVE  PreparedAtOnce(g, base, off) \in Prepareds \cup {None}
<1> DEFINE content == Applied(base, off)
<1>1. content \in Contents
  BY DEF Applied, Contents
<1>2. [content |-> content, guarded |-> content # "base", usesDnsRu |-> FALSE] \in Prepareds
  BY <1>1 DEF Prepareds
<1> QED
  BY <1>2, SafetyOffType, ShapeForType, WholeType DEF PreparedAtOnce

LEMMA CheckAnsweredType ==
    ASSUME NEW g \in Guards, NEW shape \in Shapes, NEW answer \in CheckAnswers
    PROVE  CheckAnswered(g, shape, answer) \in Guards
<1> DEFINE passed == IF answer = "passed" THEN [build |-> g.build, shape |-> shape] ELSE g.checked
           verdict == IF answer = "refused" THEN "blamed" ELSE "ok"
<1>1. passed \in CheckKeys \cup {None}
  BY DEF Guards, CheckKeys
<1>2. verdict \in Verdicts
  BY DEF Verdicts
<1>3. [g EXCEPT !.checked = passed, !.checkVerdicts[shape] = verdict] \in Guards
  <2> HIDE DEF passed, verdict
  <2> QED
    BY <1>1, <1>2 DEF Guards
<1> QED
  BY <1>3 DEF CheckAnswered

\* recordApplied(), onRunning() and claimDnsCheck() after a start.
LEMMA StartedType ==
    ASSUME NEW g \in Guards, NEW off \in OffReasons \cup {None}, NEW ran \in Prepareds
    PROVE  Started(g, off, ran) \in Guards
<1>1. RecordApplied(g, off, ran) \in Guards
  BY DEF RecordApplied, Guards, Applieds, Labels, Prepareds
<1>2. OnRunning(RecordApplied(g, off, ran), ran) \in Guards
  BY <1>1, OnRunningType
<1>3. ASSUME NEW h \in Guards PROVE ClaimDnsCheck(h, ran) \in Guards
  BY DEF ClaimDnsCheck, Guards
<1> QED
  BY <1>2, <1>3 DEF Started

LEMMA NewProcessType ==
    ASSUME NEW g \in Guards, NEW b \in Builds PROVE NewProcess(g, b) \in Guards
BY DEF NewProcess, Guards, Verdicts

LEMMA FirstProcessType ==
    ASSUME NEW applied \in Applieds \cup {None}, NEW b \in Builds
    PROVE  NewProcess([EmptyStore EXCEPT !.applied = applied], b) \in Guards
BY DEF NewProcess, EmptyStore, Guards, Verdicts

-----------------------------------------------------------------------------
(* Type correctness. *)

LEMMA InitType == Init => TypeOK
<1> SUFFICES ASSUME Init PROVE TypeOK
  OBVIOUS
<1>1. guard \in Guards
  BY FirstProcessType DEF Init
<1>2. call \in Calls /\ call.phase = "idle"
  BY DEF Init, Calls, NoCall, Phases
<1> QED
  BY <1>1, <1>2 DEF Init, TypeOK, Handed

LEMMA NoCallType == NoCall \in Calls /\ NoCall.phase = "idle"
BY DEF Calls, NoCall, Phases

\* The end of a start leaves no call behind, so only the guard is to be looked at.
LEMMA EndOfCallType ==
    ASSUME TypeOK, guard' \in Guards, call' = NoCall,
           selfChecks' \in Nat, crashes' \in [Builds -> Nat]
    PROVE  TypeOK'
BY NoCallType DEF TypeOK, Handed

\* An event that leaves the call alone.
LEMMA EventType ==
    ASSUME TypeOK, guard' \in Guards, call' = call,
           selfChecks' \in Nat, crashes' \in [Builds -> Nat]
    PROVE  TypeOK'
BY DEF TypeOK

LEMMA LoseType == ASSUME TypeOK, Lose PROVE guard' \in Guards /\ crashes' \in [Builds -> Nat]
<1>1. guard' \in Guards
  BY OnDaemonLostType DEF TypeOK, Lose
<1>2. guard.build \in Builds /\ crashes[guard.build] + 1 \in Nat
  BY DEF TypeOK, Guards
<1>3. crashes' = crashes \/ crashes' = [crashes EXCEPT ![guard.build] = @ + 1]
  BY DEF Lose
<1>4. crashes' \in [Builds -> Nat]
  BY <1>2, <1>3 DEF TypeOK
<1> QED
  BY <1>1, <1>4

LEMMA EndsRunningType ==
    ASSUME TypeOK, NEW g \in Guards, NEW ran \in Prepareds, EndsRunning(g, ran) PROVE TypeOK'
<1>1. guard' \in Guards
  BY StartedType DEF EndsRunning, TypeOK, Calls
<1>2. selfChecks' \in Nat
  <2>1. selfChecks \in Nat /\ (selfChecks' = selfChecks \/ selfChecks' = selfChecks + 1)
    BY DEF EndsRunning, TypeOK
  <2> QED
    BY <2>1
<1>3. call' = NoCall /\ crashes' \in [Builds -> Nat]
  BY DEF EndsRunning, TypeOK
<1> QED
  BY <1>1, <1>2, <1>3, EndOfCallType

LEMMA NextType == TypeOK /\ [Next]_vars => TypeOK'
<1> SUFFICES ASSUME TypeOK, [Next]_vars PROVE TypeOK'
  OBVIOUS
<1> USE DEF Handed
<1>1. ASSUME NEW base \in Bases, NEW new \in BOOLEAN, BeginStart(base, new) PROVE TypeOK'
  <2>1. guard' \in Guards
    BY <1>1 DEF BeginStart, TypeOK, Guards
  <2>2. call' \in Calls /\ call'.phase = "probing" /\ call'.base \in Bases
    BY <1>1 DEF BeginStart, Calls, NoCall, Phases
  <2> QED
    BY <1>1, <2>1, <2>2 DEF BeginStart, TypeOK
<1>2. ASSUME NEW off \in OffReasons \cup {None}, Prepare(off) PROVE TypeOK'
  <2> DEFINE g == IF call.newSession THEN NewSession(guard) ELSE guard
             prepared == PreparedAtOnce(g, call.base, off)
  <2>1. g \in Guards
    BY NewSessionType DEF TypeOK
  <2>2. call.base \in Bases
    BY <1>2 DEF Prepare, TypeOK
  <2>3. guard' \in Guards
    BY <1>2, <2>1, AdmitType DEF Prepare
  <2>4. prepared \in Prepareds \cup {None}
    BY <2>1, <2>2, PreparedAtOnceType
  <2>5. ShapeFor(g, call.base) \in Shapes /\ ShapeFor(g, call.base).base = call.base
    BY <2>1, <2>2, ShapeForType
  <2>6. call' = [call EXCEPT !.phase = IF prepared = None THEN "checking" ELSE "prepared",
                             !.off = off, !.newSession = FALSE,
                             !.shape = ShapeFor(g, call.base), !.prepared = prepared]
    BY <1>2 DEF Prepare
  <2> HIDE DEF g, prepared
  <2>7. /\ call' \in Calls
        /\ call'.base = call.base
        /\ call'.shape = ShapeFor(g, call.base)
        /\ call'.prepared = prepared
        /\ call'.phase = IF prepared = None THEN "checking" ELSE "prepared"
    BY <2>4, <2>5, <2>6 DEF TypeOK, Calls, Phases
  <2> QED
    BY <1>2, <2>2, <2>3, <2>4, <2>5, <2>7 DEF Prepare, TypeOK
<1>3. ASSUME NEW answer \in CheckAnswers, CheckAnswer(answer) PROVE TypeOK'
  <2>1. call.base \in Bases /\ call.shape \in Shapes /\ call.shape.base = call.base
    BY <1>3 DEF CheckAnswer, TypeOK
  <2>2. guard' \in Guards
    BY <1>3, <2>1, CheckAnsweredType DEF CheckAnswer, TypeOK
  <2>3. PreparedAfterCheck(call.shape, answer) \in Prepareds
    BY <2>1, SafetyOffType, WholeType DEF PreparedAfterCheck
  <2>4. /\ call' \in Calls
        /\ call'.phase = "prepared"
        /\ call'.prepared \in Prepareds
        /\ call'.base = call.base /\ call'.shape = call.shape
    BY <1>3, <2>3 DEF CheckAnswer, TypeOK, Calls, Phases
  <2> QED
    BY <1>3, <2>1, <2>2, <2>4 DEF CheckAnswer, TypeOK
<1>4. CASE GiveUp
  BY <1>4, EndOfCallType DEF GiveUp, TypeOK
<1>5. CASE HandOver
  <2>1. guard' \in Guards
    BY <1>5, ArmForStartType DEF HandOver, TypeOK
  <2>2. /\ call' \in Calls
        /\ call'.phase = "starting"
        /\ call'.base = call.base /\ call'.shape = call.shape /\ call'.prepared = call.prepared
    BY <1>5 DEF HandOver, TypeOK, Calls, Phases
  <2> QED
    BY <1>5, <2>1, <2>2 DEF HandOver, TypeOK
<1>6. CASE StartSucceeds
  BY <1>6, EndsRunningType DEF StartSucceeds, TypeOK
<1>7. CASE StartFails
  BY <1>7, DisarmType, EndOfCallType DEF StartFails, OnStopped, TypeOK
<1>8. CASE RetryWithout
  <2>1. /\ call' \in Calls
        /\ call'.phase = "retrying"
        /\ call'.base = call.base /\ call'.shape = call.shape /\ call'.prepared = call.prepared
    BY <1>8 DEF RetryWithout, TypeOK, Calls, Phases
  <2> QED
    BY <1>8, <2>1 DEF RetryWithout, TypeOK
<1>9. CASE RetrySucceeds
  <2>1. call.base \in Bases /\ RolledBack(guard) \in Guards
    BY <1>9, RolledBackType DEF RetrySucceeds, TypeOK
  <2> QED
    BY <1>9, <2>1, SafetyOffType, EndsRunningType DEF RetrySucceeds
<1>10. CASE StartKillsDaemon
  BY <1>10, LoseType, EndOfCallType DEF StartKillsDaemon, TypeOK
<1>11. CASE DaemonLost
  BY <1>11, LoseType, EventType DEF DaemonLost, TypeOK
<1>12. CASE Stopped
  BY <1>12, DisarmType, EventType DEF Stopped, OnStopped, TypeOK
<1>13. ASSUME NEW recent \in BOOLEAN, Restored(recent) PROVE TypeOK'
  BY <1>13, OnRestoredType, EventType DEF Restored, TypeOK
<1>14. ASSUME NEW running \in BOOLEAN, SurvivalTimer(running) PROVE TypeOK'
  <2>1. guard' \in Guards
    BY <1>14, SurvivalCheckType DEF SurvivalTimer, TypeOK
  <2>2. crashes' \in [Builds -> Nat]
    BY <1>14 DEF SurvivalTimer, TypeOK
  <2> QED
    BY <1>14, <2>1, <2>2, EventType DEF SurvivalTimer, TypeOK
<1>15. ASSUME NEW fails \in BOOLEAN, SelfCheckEnds(fails) PROVE TypeOK'
  <2>1. guard' \in Guards
    BY <1>15 DEF SelfCheckEnds, TypeOK, Guards
  <2>2. selfChecks' \in Nat
    BY <1>15 DEF SelfCheckEnds, TypeOK
  <2> QED
    BY <1>15, <2>1, <2>2, EventType DEF SelfCheckEnds, TypeOK
<1>16. ASSUME NEW b \in Builds, AppRestarts(b) PROVE TypeOK'
  BY <1>16, NewProcessType, EndOfCallType DEF AppRestarts, TypeOK
<1>17. CASE UNCHANGED vars
  BY <1>17 DEF vars, TypeOK
<1> QED
  BY <1>1, <1>2, <1>3, <1>4, <1>5, <1>6, <1>7, <1>8, <1>9, <1>10, <1>11, <1>12,
     <1>13, <1>14, <1>15, <1>16, <1>17 DEF Next

\* The guard's object and store, and the start under way, keep their types.
THEOREM TypeCorrect == Spec => []TypeOK
BY InitType, NextType, PTL DEF Spec

-----------------------------------------------------------------------------
(* The mark, the timer and the arming. *)

\* A start's tail touches neither the mark nor the strikes; a guarded one starts
\* the timer of the arming in force.
LEMMA StartedEffect ==
    ASSUME NEW g \in Guards, NEW off \in OffReasons \cup {None}, NEW ran \in Prepareds
    PROVE  LET h == Started(g, off, ran) IN
           /\ h.build = g.build /\ h.pending = g.pending /\ h.strikes = g.strikes
           /\ h.armedHere = g.armedHere /\ h.armToken = g.armToken
           /\ h.sessionOff = g.sessionOff
           /\ h.checked = g.checked /\ h.checkVerdicts = g.checkVerdicts
           /\ \/ h.timer = [token |-> g.armToken, rechecks |-> 0] /\ g.armedHere /\ ran.guarded
              \/ h.timer = g.timer /\ ~(g.armedHere /\ ran.guarded)
<1> DEFINE r == RecordApplied(g, off, ran)
           o == OnRunning(r, ran)
<1>1. /\ r.build = g.build /\ r.pending = g.pending /\ r.strikes = g.strikes
      /\ r.armedHere = g.armedHere /\ r.armToken = g.armToken /\ r.timer = g.timer
      /\ r.sessionOff = g.sessionOff
      /\ r.checked = g.checked /\ r.checkVerdicts = g.checkVerdicts
      /\ r \in Guards
  BY DEF RecordApplied, Guards, Applieds, Labels, Prepareds
<1> HIDE DEF r
<1>2. /\ o.build = g.build /\ o.pending = g.pending /\ o.strikes = g.strikes
      /\ o.armedHere = g.armedHere /\ o.armToken = g.armToken
      /\ o.sessionOff = g.sessionOff
      /\ o.checked = g.checked /\ o.checkVerdicts = g.checkVerdicts
      /\ \/ o.timer = [token |-> g.armToken, rechecks |-> 0] /\ g.armedHere /\ ran.guarded
         \/ o.timer = g.timer /\ ~(g.armedHere /\ ran.guarded)
      /\ o \in Guards
  BY <1>1, OnRunningType DEF OnRunning, StartSurvivalTimer, Guards
<1> HIDE DEF o
<1>3. Started(g, off, ran) = o \/ Started(g, off, ran) = [o EXCEPT !.dnsCheckStarted = TRUE]
  BY DEF Started, ClaimDnsCheck, r, o
<1> QED
  BY <1>2, <1>3 DEF Guards

\* Guarding a service the daemon brought back: nothing, or an arming with its timer.
LEMMA OnRestoredEffect ==
    ASSUME NEW g \in Guards, NEW recent \in BOOLEAN
    PROVE  LET h == OnRestored(g, recent) IN
           \/ h = g
           \/ /\ ~g.armedHere /\ h.armedHere
              /\ h.pending = OwnMark(g, FALSE)
              /\ h.timer = [token |-> h.armToken, rechecks |-> 0]
              /\ h.build = g.build /\ h.strikes = g.strikes /\ h.sessionOff = g.sessionOff
              /\ h.checked = g.checked /\ h.checkVerdicts = g.checkVerdicts
<1>1. CASE g.armedHere \/ ~recent \/ ~LastStartGuarded(g)
  BY <1>1 DEF OnRestored
<1>2. CASE ~(g.armedHere \/ ~recent \/ ~LastStartGuarded(g))
  <2>1. OnRestored(g, recent)
          = StartSurvivalTimer([g EXCEPT !.pending = OwnMark(g, FALSE), !.armedHere = TRUE,
                                         !.armToken = @ + 1])
    BY <1>2 DEF OnRestored
  <2> QED
    BY <1>2, <2>1 DEF StartSurvivalTimer, Guards
<1> QED
  BY <1>1, <1>2

\* The timer of the arming in force looks again, or takes the guard off; only a
\* running service takes the strikes with it.
LEMMA SurvivalCheckEffect ==
    ASSUME NEW g \in Guards, NEW running \in BOOLEAN,
           g.timer # None, g.armedHere, g.timer.token = g.armToken
    PROVE  LET h == SurvivalCheck(g, running) IN
           /\ h.build = g.build /\ h.sessionOff = g.sessionOff
           /\ h.checked = g.checked /\ h.checkVerdicts = g.checkVerdicts
           /\ \/ /\ ~running /\ h.armedHere
                 /\ h.pending = g.pending /\ h.strikes = g.strikes /\ h.armToken = g.armToken
                 /\ h.timer # None /\ h.timer.token = g.timer.token
              \/ /\ ~h.armedHere /\ h.timer = None /\ h.pending = None
                 /\ h.strikes = IF running THEN None ELSE g.strikes
<1> DEFINE fired == [g EXCEPT !.timer = None]
           again == [g EXCEPT !.timer.rechecks = g.timer.rechecks + 1]
<1>1. g.timer \in Timers
  BY DEF Guards
<1>2. /\ fired \in Guards /\ fired.armedHere
      /\ fired.build = g.build /\ fired.sessionOff = g.sessionOff /\ fired.strikes = g.strikes
      /\ fired.checked = g.checked /\ fired.checkVerdicts = g.checkVerdicts
  BY DEF Guards
<1>3. /\ again.timer # None /\ again.timer.token = g.timer.token
      /\ again.build = g.build /\ again.sessionOff = g.sessionOff
      /\ again.checked = g.checked /\ again.checkVerdicts = g.checkVerdicts
      /\ again.armedHere /\ again.pending = g.pending /\ again.strikes = g.strikes
      /\ again.armToken = g.armToken
  BY <1>1, NoneAssumption DEF Guards, Timers
<1>4. SurvivalCheck(g, running)
        = IF running THEN Disarm(fired, TRUE)
          ELSE IF g.timer.rechecks + 1 > MaxRechecks THEN Disarm(fired, FALSE)
          ELSE again
  BY DEF SurvivalCheck
<1> HIDE DEF fired, again
<1>5. CASE running
  BY <1>2, <1>4, <1>5 DEF Disarm, Guards
<1>6. CASE ~running /\ g.timer.rechecks + 1 > MaxRechecks
  BY <1>2, <1>4, <1>6 DEF Disarm, Guards
<1>7. CASE ~running /\ ~(g.timer.rechecks + 1 > MaxRechecks)
  BY <1>3, <1>4, <1>7
<1> QED
  BY <1>5, <1>6, <1>7

Arming == ArmedHasOwnMark /\ TimerIsOfThisArming /\ NoOrphanArming

LEMMA InitArming == Init => Arming
BY DEF Init, NewProcess, Arming, ArmedHasOwnMark, TimerIsOfThisArming, NoOrphanArming

LEMMA NextArming == TypeOK /\ Arming /\ [Next]_vars => Arming'
<1> SUFFICES ASSUME TypeOK, Arming, [Next]_vars PROVE Arming'
  OBVIOUS
<1> USE DEF Arming, ArmedHasOwnMark, TimerIsOfThisArming, NoOrphanArming, OwnMark
<1>0. guard \in Guards /\ call \in Calls
  BY DEF TypeOK
<1>1. ASSUME NEW base \in Bases, NEW new \in BOOLEAN, BeginStart(base, new) PROVE Arming'
  BY <1>0, <1>1 DEF BeginStart, Guards
<1>2. ASSUME NEW off \in OffReasons \cup {None}, Prepare(off) PROVE Arming'
  BY <1>0, <1>2 DEF Prepare, NewSession, Admit, CrashLeft, MarkLeft, Guards
<1>3. ASSUME NEW answer \in CheckAnswers, CheckAnswer(answer) PROVE Arming'
  BY <1>0, <1>3 DEF CheckAnswer, CheckAnswered, Guards
<1>4. CASE GiveUp
  BY <1>0, <1>4 DEF GiveUp, NoCall
<1>5. CASE HandOver
  BY <1>0, <1>5 DEF HandOver, ArmForStart, Guards, Calls
<1>6. CASE StartSucceeds
  <2>1. call.prepared \in Prepareds /\ call.off \in OffReasons \cup {None}
    BY <1>6 DEF StartSucceeds, TypeOK, Handed, Calls
  <2> QED
    <3>1. guard' = Started(guard, call.off, call.prepared) /\ call' = NoCall
      BY <1>6 DEF StartSucceeds, EndsRunning
    <3>2. [token |-> guard.armToken, rechecks |-> 0] # None
      BY <1>0, NoneAssumption DEF Guards, Timers
    <3>3. /\ guard'.pending = guard.pending /\ guard'.build = guard.build
          /\ guard'.armedHere = guard.armedHere /\ guard'.armToken = guard.armToken
          /\ \/ guard'.timer = [token |-> guard.armToken, rechecks |-> 0] /\ guard.armedHere
             \/ guard'.timer = guard.timer /\ ~(guard.armedHere /\ call.prepared.guarded)
      BY <1>0, <2>1, <3>1, StartedEffect
    <3>4. ArmedHasOwnMark'
      BY <3>3
    <3>5. TimerIsOfThisArming'
      BY <3>3
    <3>6. NoOrphanArming'
      BY <3>2, <3>3
    <3> QED
      BY <3>4, <3>5, <3>6
<1>7. CASE StartFails
  BY <1>0, <1>7 DEF StartFails, OnStopped, Disarm, Guards
<1>8. CASE RetryWithout
  BY <1>0, <1>8 DEF RetryWithout, Calls
<1>9. CASE RetrySucceeds
  BY <1>0, <1>9 DEF RetrySucceeds, RolledBack, Disarm, EndsRunning, Started, ClaimDnsCheck,
     OnRunning, StartSurvivalTimer, RecordApplied, NoCall, Guards
<1>10. CASE StartKillsDaemon
  BY <1>0, <1>10 DEF StartKillsDaemon, Lose, OnDaemonLost, Guards
<1>11. CASE DaemonLost
  BY <1>0, <1>11 DEF DaemonLost, Lose, OnDaemonLost, Guards
<1>12. CASE Stopped
  BY <1>0, <1>12 DEF Stopped, OnStopped, Disarm, Guards
<1>13. ASSUME NEW recent \in BOOLEAN, Restored(recent) PROVE Arming'
  <2>1. CASE guard' = guard
    BY <1>13, <2>1 DEF Restored
  <2>2. CASE /\ guard'.armedHere /\ guard'.build = guard.build
             /\ guard'.pending = OwnMark(guard, FALSE)
             /\ guard'.timer = [token |-> guard'.armToken, rechecks |-> 0]
    <3>1. guard'.timer # None
      BY <1>0, <1>13, <2>2, OnRestoredType, NoneAssumption DEF Restored, Guards, Timers
    <3> QED
      BY <2>2, <3>1
  <2> QED
    BY <1>0, <1>13, <2>1, <2>2, OnRestoredEffect DEF Restored
<1>14. ASSUME NEW running \in BOOLEAN, SurvivalTimer(running) PROVE Arming'
  BY <1>0, <1>14, SurvivalCheckEffect DEF SurvivalTimer
<1>15. ASSUME NEW fails \in BOOLEAN, SelfCheckEnds(fails) PROVE Arming'
  BY <1>0, <1>15 DEF SelfCheckEnds, Guards
<1>16. ASSUME NEW b \in Builds, AppRestarts(b) PROVE Arming'
  BY <1>16 DEF AppRestarts, NewProcess
<1>17. CASE UNCHANGED vars
  BY <1>17 DEF vars
<1> QED
  BY <1>1, <1>2, <1>3, <1>4, <1>5, <1>6, <1>7, <1>8, <1>9, <1>10, <1>11, <1>12,
     <1>13, <1>14, <1>15, <1>16, <1>17 DEF Next

\* Arming, the three invariants about the mark and its timer, is inductive
\* together with the types.
THEOREM ArmingHolds == Spec => []Arming
BY TypeCorrect, InitArming, NextArming, PTL DEF Spec

-----------------------------------------------------------------------------
(* Strikes and the crashes they stand for. *)

\* What the strikes and the crash record of one guard come to for build b.
StrikesIn(g, b) == IF g.strikes # None /\ g.strikes.key = b THEN g.strikes.count ELSE 0
RecordsIn(g, b) == IF g.pending # None /\ g.pending = [key |-> b, crashed |-> TRUE] THEN 1 ELSE 0
Counted(g, b) == StrikesIn(g, b) + RecordsIn(g, b)

LEMMA CountedType ==
    ASSUME NEW g \in Guards, NEW b \in Builds PROVE Counted(g, b) \in Nat
<1>1. g.strikes # None => g.strikes.count \in Nat
  BY DEF Guards, Tallies
<1> QED
  BY <1>1 DEF Counted, StrikesIn, RecordsIn

\* A method that keeps the strikes, or drops them, and leaves no crash record
\* that was not there, adds nothing to count.
LEMMA CountedFalls ==
    ASSUME NEW g \in Guards, NEW h \in Guards, NEW b \in Builds,
           h.strikes = g.strikes \/ h.strikes = None,
           h.pending = g.pending \/ h.pending = None \/ h.pending = OwnMark(h, FALSE)
    PROVE  Counted(h, b) <= Counted(g, b)
<1>1. g.strikes # None => g.strikes.count \in Nat
  BY DEF Guards, Tallies
<1>2. StrikesIn(h, b) <= StrikesIn(g, b) /\ StrikesIn(g, b) \in Nat /\ StrikesIn(h, b) \in Nat
  BY <1>1 DEF StrikesIn
<1>3. OwnMark(h, FALSE) # [key |-> b, crashed |-> TRUE]
  BY DEF OwnMark
<1>4. RecordsIn(g, b) \in {0, 1} /\ RecordsIn(h, b) \in {0, 1}
  BY DEF RecordsIn
<1>5. RecordsIn(h, b) = RecordsIn(g, b) \/ RecordsIn(h, b) = 0
  <2>1. CASE h.pending = g.pending
    BY <2>1 DEF RecordsIn
  <2>2. CASE h.pending = None
    BY <2>2 DEF RecordsIn
  <2>3. CASE h.pending = OwnMark(h, FALSE)
    BY <1>3, <2>3 DEF RecordsIn
  <2> QED
    BY <2>1, <2>2, <2>3
<1> QED
  BY <1>2, <1>4, <1>5 DEF Counted

\* Counting a strike uses up the record it stands for.
LEMMA CountedByAdmit ==
    ASSUME NEW g \in Guards, NEW b \in Builds PROVE Counted(Admit(g), b) <= Counted(g, b)
<1> DEFINE h == [g EXCEPT !.pending = None,
                          !.strikes = [key |-> g.build, count |-> StrikesOf(g) + 1],
                          !.sessionOff = TRUE]
           d == [g EXCEPT !.pending = None]
<1>1. CASE CrashLeft(g)
  <2>1. Admit(g) = h
    BY <1>1 DEF Admit
  <2>2. g.pending = [key |-> g.build, crashed |-> TRUE] /\ g.pending # None
    <3>1. g.pending \in Marks /\ g.pending # None /\ g.pending.key = g.build /\ g.pending.crashed
      BY <1>1 DEF CrashLeft, MarkLeft, Guards
    <3> QED
      BY <3>1 DEF Marks
  <2>3. h.pending = None /\ h.strikes = [key |-> g.build, count |-> StrikesOf(g) + 1]
    BY DEF Guards
  <2>4. h.strikes # None
    BY <2>3, StrikesOfType, NoneAssumption DEF Guards, Tallies
  <2>5. g.strikes # None => g.strikes.count \in Nat
    BY DEF Guards, Tallies
  <2> HIDE DEF h
  <2>6. CASE b = g.build
    <3>1. Counted(h, b) = StrikesOf(g) + 1
      BY <2>3, <2>4, <2>6, StrikesOfType DEF Counted, StrikesIn, RecordsIn
    <3>2. Counted(g, b) = StrikesOf(g) + 1
      BY <2>2, <2>6 DEF Counted, StrikesIn, RecordsIn, StrikesOf
    <3> QED
      BY <2>1, <3>1, <3>2, StrikesOfType
  <2>7. CASE b # g.build
    <3>1. Counted(h, b) = 0
      BY <2>3, <2>7 DEF Counted, StrikesIn, RecordsIn
    <3> QED
      BY <2>1, <3>1, CountedType
  <2> QED
    BY <2>6, <2>7
<1>2. CASE ~CrashLeft(g) /\ MarkLeft(g)
  <2>1. Admit(g) = d
    BY <1>2 DEF Admit
  <2>2. d \in Guards /\ d.pending = None /\ d.strikes = g.strikes
    BY DEF Guards
  <2> QED
    BY <2>1, <2>2, CountedFalls
<1>3. CASE ~CrashLeft(g) /\ ~MarkLeft(g)
  <2>1. Admit(g) = g
    BY <1>3 DEF Admit
  <2> QED
    BY <2>1, CountedType
<1> QED
  BY <1>1, <1>2, <1>3

LEMMA DisarmEffect ==
    ASSUME NEW g \in Guards, NEW survived \in BOOLEAN
    PROVE  LET h == Disarm(g, survived) IN
           /\ h \in Guards
           /\ h.build = g.build /\ h.sessionOff = g.sessionOff
           /\ h.checked = g.checked /\ h.checkVerdicts = g.checkVerdicts
           /\ \/ h.strikes = g.strikes
              \/ survived /\ g.armedHere /\ h.strikes = None
           /\ h.pending = g.pending \/ h.pending = None
<1>1. Disarm(g, survived) \in Guards
  BY DisarmType
<1>2. CASE g.armedHere
  BY <1>1, <1>2 DEF Disarm, Guards
<1>3. CASE ~g.armedHere
  BY <1>1, <1>3 DEF Disarm
<1> QED
  BY <1>2, <1>3

LEMMA RolledBackEffect ==
    ASSUME NEW g \in Guards
    PROVE  LET h == RolledBack(g) IN
           /\ h \in Guards /\ h.build = g.build /\ h.strikes = g.strikes
           /\ h.pending = g.pending \/ h.pending = None
<1> DEFINE r == [g EXCEPT !.sessionOff = TRUE, !.repairPending = FALSE]
<1>1. r \in Guards /\ r.build = g.build /\ r.strikes = g.strikes /\ r.pending = g.pending
  BY DEF Guards
<1>2. RolledBack(g) = Disarm(r, FALSE)
  BY DEF RolledBack
<1> QED
  BY <1>1, <1>2, DisarmEffect

LEMMA ArmForStartEffect ==
    ASSUME NEW g \in Guards, NEW p \in Prepareds
    PROVE  LET h == ArmForStart(g, p) IN
           /\ h \in Guards
           /\ h.build = g.build /\ h.strikes = g.strikes /\ h.sessionOff = g.sessionOff
           /\ h.checked = g.checked /\ h.checkVerdicts = g.checkVerdicts
           /\ h.pending = g.pending \/ h.pending = OwnMark(h, FALSE)
<1>1. ArmForStart(g, p) \in Guards
  BY ArmForStartType
<1>2. CASE p.guarded
  BY <1>1, <1>2 DEF ArmForStart, Guards, OwnMark
<1>3. CASE ~p.guarded
  BY <1>1, <1>3 DEF ArmForStart
<1> QED
  BY <1>2, <1>3

\* A loss while armed: the only method that makes a crash record.
LEMMA OnDaemonLostEffect ==
    ASSUME NEW g \in Guards
    PROVE  LET h == OnDaemonLost(g) IN
           /\ h.build = g.build /\ h.strikes = g.strikes /\ h.sessionOff = g.sessionOff
           /\ h.checked = g.checked /\ h.checkVerdicts = g.checkVerdicts
           /\ g.armedHere => h.pending = OwnMark(g, TRUE) /\ ~h.armedHere
           /\ ~g.armedHere => h = g
<1>1. CASE g.armedHere
  BY <1>1 DEF OnDaemonLost, Guards
<1>2. CASE ~g.armedHere
  BY <1>2 DEF OnDaemonLost
<1> QED
  BY <1>1, <1>2

\* A step that counts nothing new and forgets no crash.
LEMMA QuietStep ==
    ASSUME TypeOK, TypeOK', NoStrikeWithoutCrash, crashes' = crashes,
           \A b \in Builds : Counted(guard', b) <= Counted(guard, b)
    PROVE  NoStrikeWithoutCrash'
<1> SUFFICES ASSUME NEW b \in Builds PROVE Counted(guard', b) <= crashes'[b]
  BY DEF NoStrikeWithoutCrash, StrikesFor, RecordsFor, Counted, StrikesIn, RecordsIn
<1>1. Counted(guard, b) <= crashes[b]
  BY DEF NoStrikeWithoutCrash, StrikesFor, RecordsFor, Counted, StrikesIn, RecordsIn
<1>2. Counted(guard, b) \in Nat /\ Counted(guard', b) \in Nat /\ crashes[b] \in Nat
  BY CountedType DEF TypeOK
<1>3. Counted(guard', b) <= Counted(guard, b)
  OBVIOUS
<1> QED
  BY <1>1, <1>2, <1>3

\* The same for a step whose method counts nothing by CountedFalls.
LEMMA QuietMethod ==
    ASSUME TypeOK, TypeOK', NoStrikeWithoutCrash, crashes' = crashes,
           guard'.strikes = guard.strikes \/ guard'.strikes = None,
           \/ guard'.pending = guard.pending \/ guard'.pending = None
           \/ guard'.pending = OwnMark(guard', FALSE)
    PROVE  NoStrikeWithoutCrash'
<1>1. guard \in Guards /\ guard' \in Guards
  BY DEF TypeOK
<1>2. \A b \in Builds : Counted(guard', b) <= Counted(guard, b)
  BY <1>1, CountedFalls
<1> QED
  BY <1>2, QuietStep

\* A loss while armed replaces the process's own uncrashed mark by a record, and
\* is one crash more.
LEMMA LoseStrikes ==
    ASSUME TypeOK, TypeOK', Arming, NoStrikeWithoutCrash, Lose PROVE NoStrikeWithoutCrash'
<1>0. guard \in Guards /\ guard' \in Guards /\ guard' = OnDaemonLost(guard)
      /\ crashes \in [Builds -> Nat]
  BY DEF TypeOK, Lose
<1>1. CASE guard.armedHere
  <2> SUFFICES ASSUME NEW b \in Builds PROVE Counted(guard', b) <= crashes'[b]
    BY DEF NoStrikeWithoutCrash, StrikesFor, RecordsFor, Counted, StrikesIn, RecordsIn
  <2>1. Counted(guard, b) <= crashes[b]
    BY DEF NoStrikeWithoutCrash, StrikesFor, RecordsFor, Counted, StrikesIn, RecordsIn
  <2>2. /\ guard.pending = OwnMark(guard, FALSE) /\ guard'.pending = OwnMark(guard, TRUE)
        /\ guard'.strikes = guard.strikes
    BY <1>0, <1>1, OnDaemonLostEffect DEF Arming, ArmedHasOwnMark
  <2>3. StrikesIn(guard', b) = StrikesIn(guard, b)
    BY <2>2 DEF StrikesIn
  <2>4. StrikesIn(guard, b) \in Nat
    BY <1>0 DEF StrikesIn, Guards, Tallies
  <2>5. RecordsIn(guard, b) = 0
    BY <2>2 DEF RecordsIn, OwnMark
  <2>6. StrikesIn(guard, b) <= crashes[b]
    BY <2>1, <2>4, <2>5 DEF Counted
  <2>7. CASE b = guard.build
    <3>1. crashes'[b] = crashes[b] + 1
      BY <1>0, <1>1, <2>7 DEF Lose, Guards
    <3>2. RecordsIn(guard', b) \in {0, 1}
      BY DEF RecordsIn
    <3>3. crashes[b] \in Nat
      BY <1>0
    <3> QED
      BY <2>3, <2>4, <2>6, <3>1, <3>2, <3>3 DEF Counted
  <2>8. CASE b # guard.build
    <3>1. crashes'[b] = crashes[b]
      BY <1>0, <1>1, <2>8 DEF Lose
    <3>2. RecordsIn(guard', b) = 0
      BY <2>2, <2>8 DEF RecordsIn, OwnMark
    <3> QED
      BY <2>3, <2>4, <2>6, <3>1, <3>2 DEF Counted
  <2> QED
    BY <2>7, <2>8
<1>2. CASE ~guard.armedHere
  <2>1. guard' = guard /\ crashes' = crashes
    BY <1>0, <1>2, OnDaemonLostEffect DEF Lose
  <2> QED
    BY <2>1, QuietMethod
<1> QED
  BY <1>1, <1>2

LEMMA InitStrikes == Init => NoStrikeWithoutCrash
<1> SUFFICES ASSUME Init, NEW b \in Builds PROVE StrikesFor(b) + RecordsFor(b) <= crashes[b]
  BY DEF NoStrikeWithoutCrash
<1>1. guard.strikes = None /\ guard.pending = None /\ crashes[b] = 0
  BY DEF Init, NewProcess, EmptyStore
<1> QED
  BY <1>1 DEF StrikesFor, RecordsFor

\* The tail of a start, from a guard that counts no more than the present one.
LEMMA EndsRunningStrikes ==
    ASSUME TypeOK, TypeOK', NoStrikeWithoutCrash, call.off \in OffReasons \cup {None},
           NEW g \in Guards, NEW ran \in Prepareds, EndsRunning(g, ran),
           g.strikes = guard.strikes, g.pending = guard.pending \/ g.pending = None
    PROVE  NoStrikeWithoutCrash'
<1>1. guard' = Started(g, call.off, ran) /\ crashes' = crashes
  BY DEF EndsRunning
<1>2. guard'.strikes = g.strikes /\ guard'.pending = g.pending
  BY <1>1, StartedEffect
<1> QED
  BY <1>1, <1>2, QuietMethod

LEMMA NextStrikes ==
    TypeOK /\ TypeOK' /\ Arming /\ NoStrikeWithoutCrash /\ [Next]_vars => NoStrikeWithoutCrash'
<1> SUFFICES ASSUME TypeOK, TypeOK', Arming, NoStrikeWithoutCrash, [Next]_vars
             PROVE  NoStrikeWithoutCrash'
  OBVIOUS
<1>0. guard \in Guards /\ call \in Calls /\ guard' \in Guards
  BY DEF TypeOK
<1>1. ASSUME NEW base \in Bases, NEW new \in BOOLEAN, BeginStart(base, new)
      PROVE  NoStrikeWithoutCrash'
  BY <1>0, <1>1, QuietMethod DEF BeginStart, Guards
<1>2. ASSUME NEW off \in OffReasons \cup {None}, Prepare(off) PROVE NoStrikeWithoutCrash'
  <2> DEFINE g == IF call.newSession THEN NewSession(guard) ELSE guard
  <2>1. g \in Guards /\ g.strikes = guard.strikes /\ g.pending = guard.pending
    <3>1. NewSession(guard) \in Guards /\ NewSession(guard).strikes = guard.strikes
          /\ NewSession(guard).pending = guard.pending
      BY <1>0, NewSessionType DEF NewSession, Guards
    <3> QED
      BY <1>0, <3>1
  <2>2. guard' = Admit(g) /\ crashes' = crashes
    BY <1>2 DEF Prepare
  <2> HIDE DEF g
  <2>3. ASSUME NEW b \in Builds PROVE Counted(guard', b) <= Counted(guard, b)
    <3>1. Counted(g, b) = Counted(guard, b)
      BY <2>1 DEF Counted, StrikesIn, RecordsIn
    <3> QED
      BY <2>1, <2>2, <3>1, CountedByAdmit
  <2> QED
    BY <2>2, <2>3, QuietStep
<1>3. ASSUME NEW answer \in CheckAnswers, CheckAnswer(answer) PROVE NoStrikeWithoutCrash'
  <2>1. guard'.strikes = guard.strikes /\ guard'.pending = guard.pending
    BY <1>0, <1>3 DEF CheckAnswer, CheckAnswered, Guards
  <2> QED
    BY <1>3, <2>1, QuietMethod DEF CheckAnswer
<1>4. CASE GiveUp
  BY <1>4, QuietMethod DEF GiveUp
<1>5. CASE HandOver
  <2>1. call.prepared \in Prepareds
    BY <1>5 DEF HandOver, TypeOK, Handed
  <2> QED
    BY <1>0, <1>5, <2>1, ArmForStartEffect, QuietMethod DEF HandOver
<1>6. CASE StartSucceeds
  <2>1. call.prepared \in Prepareds /\ call.off \in OffReasons \cup {None}
    BY <1>6 DEF StartSucceeds, TypeOK, Handed, Calls
  <2> QED
    BY <1>0, <1>6, <2>1, EndsRunningStrikes DEF StartSucceeds
<1>7. CASE StartFails
  BY <1>0, <1>7, DisarmEffect, QuietMethod DEF StartFails, OnStopped
<1>8. CASE RetryWithout
  BY <1>8, QuietMethod DEF RetryWithout
<1>9. CASE RetrySucceeds
  <2>1. call.base \in Bases /\ call.off \in OffReasons \cup {None}
    BY <1>9 DEF RetrySucceeds, TypeOK, Calls
  <2>2. SafetyOff(call.base) \in Prepareds
    BY <2>1, SafetyOffType
  <2> QED
    BY <1>0, <1>9, <2>1, <2>2, RolledBackEffect, EndsRunningStrikes DEF RetrySucceeds
<1>10. CASE StartKillsDaemon
  BY <1>10, LoseStrikes DEF StartKillsDaemon
<1>11. CASE DaemonLost
  BY <1>11, LoseStrikes DEF DaemonLost
<1>12. CASE Stopped
  BY <1>0, <1>12, DisarmEffect, QuietMethod DEF Stopped, OnStopped
<1>13. ASSUME NEW recent \in BOOLEAN, Restored(recent) PROVE NoStrikeWithoutCrash'
  <2>1. CASE guard' = guard
    BY <1>13, <2>1, QuietMethod DEF Restored
  <2>2. CASE /\ guard'.pending = OwnMark(guard, FALSE) /\ guard'.build = guard.build
             /\ guard'.strikes = guard.strikes
    BY <1>13, <2>2, QuietMethod DEF Restored, OwnMark
  <2> QED
    BY <1>0, <1>13, <2>1, <2>2, OnRestoredEffect DEF Restored
<1>14. ASSUME NEW running \in BOOLEAN, SurvivalTimer(running) PROVE NoStrikeWithoutCrash'
  <2>1. guard.timer # None /\ guard.armedHere /\ guard.timer.token = guard.armToken
    BY <1>14 DEF SurvivalTimer, Arming, TimerIsOfThisArming
  <2>2. guard' = SurvivalCheck(guard, running)
    BY <1>14 DEF SurvivalTimer
  <2>3. CASE running
    <3>1. guard'.strikes = None /\ guard'.pending = None
      BY <1>0, <2>1, <2>2, <2>3, SurvivalCheckEffect
    <3>2. \A b \in Builds : crashes'[b] \in Nat
      BY DEF TypeOK
    <3> QED
      BY <3>1, <3>2 DEF NoStrikeWithoutCrash, StrikesFor, RecordsFor
  <2>4. CASE ~running
    <3>1. /\ guard'.strikes = guard.strikes
          /\ guard'.pending = guard.pending \/ guard'.pending = None
      BY <1>0, <2>1, <2>2, <2>4, SurvivalCheckEffect
    <3>2. crashes' = crashes
      BY <1>14, <2>4 DEF SurvivalTimer
    <3> QED
      BY <3>1, <3>2, QuietMethod
  <2> QED
    BY <2>3, <2>4
<1>15. ASSUME NEW fails \in BOOLEAN, SelfCheckEnds(fails) PROVE NoStrikeWithoutCrash'
  <2>1. guard'.strikes = guard.strikes /\ guard'.pending = guard.pending
    BY <1>0, <1>15 DEF SelfCheckEnds, Guards
  <2> QED
    BY <1>15, <2>1, QuietMethod DEF SelfCheckEnds
<1>16. ASSUME NEW b \in Builds, AppRestarts(b) PROVE NoStrikeWithoutCrash'
  BY <1>16, QuietMethod DEF AppRestarts, NewProcess
<1>17. CASE UNCHANGED vars
  BY <1>17, QuietMethod DEF vars
<1> QED
  BY <1>1, <1>2, <1>3, <1>4, <1>5, <1>6, <1>7, <1>8, <1>9, <1>10, <1>11, <1>12,
     <1>13, <1>14, <1>15, <1>16, <1>17 DEF Next

\* For any number of builds, crashes, restarts and restores: a build is never
\* charged with more strikes than guarded starts of it were lost.
THEOREM StrikesAreCrashes == Spec => []NoStrikeWithoutCrash
BY TypeCorrect, ArmingHolds, InitStrikes, NextStrikes, PTL DEF Spec

\* Each part of Arming by itself.
THEOREM ArmedMark == Spec => []ArmedHasOwnMark
<1>1. Arming => ArmedHasOwnMark
  BY DEF Arming
<1> QED
  BY <1>1, ArmingHolds, PTL

\* A survival timer in force is of the arming in force.
THEOREM TimerMatchesArming == Spec => []TimerIsOfThisArming
<1>1. Arming => TimerIsOfThisArming
  BY DEF Arming
<1> QED
  BY <1>1, ArmingHolds, PTL

\* No arming is left without a timer or a start to end it.
THEOREM ArmingHasAnEnd == Spec => []NoOrphanArming
<1>1. Arming => NoOrphanArming
  BY DEF Arming
<1> QED
  BY <1>1, ArmingHolds, PTL

-----------------------------------------------------------------------------
(* The block in a start under way. *)

BlockGuarded == BlockOnlyWhenAdmitted /\ BlockWasChecked

\* What the admission and the check of the config look at.
SameAdmission(g, h) ==
    /\ h.build = g.build /\ h.sessionOff = g.sessionOff
    /\ h.strikes = g.strikes \/ h.strikes = None
    /\ h.checked = g.checked /\ h.checkVerdicts = g.checkVerdicts

\* No start is under way after the step.
LEMMA NoBlock == ASSUME call' = NoCall PROVE BlockGuarded'
BY DEF BlockGuarded, BlockOnlyWhenAdmitted, BlockWasChecked, BlockUnderWay, Handed, NoCall

\* The start goes on with what it has, and the guard admits it as before.
LEMMA SameBlock ==
    ASSUME BlockGuarded, TypeOK, SameAdmission(guard, guard'),
           call'.shape = call.shape, call'.prepared = call.prepared,
           \/ call'.phase = call.phase
           \/ call.phase \in Handed /\ call'.phase \in Handed
    PROVE  BlockGuarded'
<1>1. StrikesOf(guard') = StrikesOf(guard) \/ StrikesOf(guard') = 0
  BY DEF SameAdmission, StrikesOf
<1>2. 0 < MaxStrikes
  BY RuntimeAssumption
<1>3. Verdict(guard', call.shape) = Verdict(guard, call.shape)
  BY DEF SameAdmission, Verdict
<1>4. BlockUnderWay' => BlockUnderWay
  BY DEF BlockUnderWay, Handed
<1>5. BlockOnlyWhenAdmitted'
  <2>1. StrikesOf(guard) < MaxStrikes => StrikesOf(guard') < MaxStrikes
    BY <1>1, <1>2
  <2>2. guard'.sessionOff = guard.sessionOff
    BY DEF SameAdmission
  <2> QED
    BY <1>4, <2>1, <2>2 DEF BlockGuarded, BlockOnlyWhenAdmitted
<1>6. BlockWasChecked'
  BY <1>3 DEF BlockGuarded, BlockWasChecked, Handed
<1> QED
  BY <1>5, <1>6 DEF BlockGuarded

\* An event that leaves the start alone.
LEMMA EventBlock ==
    ASSUME BlockGuarded, TypeOK, SameAdmission(guard, guard'), call' = call PROVE BlockGuarded'
<1>1. call'.shape = call.shape /\ call'.prepared = call.prepared /\ call'.phase = call.phase
  OBVIOUS
<1> QED
  BY <1>1, SameBlock

\* prepare() up to its first await: a config with the block passes the strikes
\* and the session flag, and has its verdict or goes to the check.
LEMMA PrepareBlock ==
    ASSUME TypeOK, NEW off \in OffReasons \cup {None}, Prepare(off) PROVE BlockGuarded'
<1> DEFINE g == IF call.newSession THEN NewSession(guard) ELSE guard
<1>0. guard \in Guards /\ call \in Calls /\ call.base \in Bases
  BY DEF TypeOK, Prepare
<1>1. g \in Guards
  BY <1>0, NewSessionType
<1> DEFINE p == PreparedAtOnce(g, call.base, off)
           s == ShapeFor(g, call.base)
<1>2. /\ guard' = Admit(g) /\ call'.prepared = p /\ call'.shape = s
      /\ call'.phase = IF p = None THEN "checking" ELSE "prepared"
  BY <1>0 DEF Prepare, Calls
<1> HIDE DEF g
<1>3. CASE Refuses(g) \/ g.sessionOff
  <2>1. p = SafetyOff(call.base)
    BY <1>3 DEF PreparedAtOnce
  <2>2. p.content # "block"
    BY <2>1 DEF SafetyOff, TorrentsOnly
  <2>3. p # None
    BY <1>0, <2>1, SafetyOffType, NoneAssumption
  <2> QED
    BY <1>2, <2>2, <2>3 DEF BlockGuarded, BlockOnlyWhenAdmitted, BlockWasChecked, BlockUnderWay
<1>4. CASE ~Refuses(g) /\ ~g.sessionOff
  <2>1. StrikesOf(g) < MaxStrikes /\ ~CrashLeft(g)
    BY <1>4, StrikesOfType, <1>1, RuntimeAssumption DEF Refuses
  <2>2. guard' = g \/ guard' = [g EXCEPT !.pending = None]
    BY <1>2, <2>1 DEF Admit
  <2>3. /\ guard'.strikes = g.strikes /\ guard'.build = g.build
        /\ guard'.sessionOff = g.sessionOff
        /\ guard'.checked = g.checked /\ guard'.checkVerdicts = g.checkVerdicts
    BY <1>1, <2>2 DEF Guards
  <2>4. BlockOnlyWhenAdmitted'
    <3>1. StrikesOf(guard') = StrikesOf(g)
      BY <2>3 DEF StrikesOf
    <3>2. ~guard'.sessionOff
      BY <1>4, <2>3
    <3> QED
      BY <2>1, <3>1, <3>2 DEF BlockOnlyWhenAdmitted
  <2>5. Verdict(guard', s) = Verdict(g, s)
    BY <2>3 DEF Verdict
  <2>6. p.content = "block" /\ p # None => Verdict(g, s) = "ok"
    <3> SUFFICES ASSUME p.content = "block", p # None PROVE Verdict(g, s) = "ok"
      OBVIOUS
    <3>1. SafetyOff(call.base).content # "block"
      BY DEF SafetyOff, TorrentsOnly
    <3> QED
      BY <1>4, <3>1 DEF PreparedAtOnce
  <2>7. BlockWasChecked'
    BY <1>2, <2>5, <2>6 DEF BlockWasChecked, Handed
  <2> QED
    BY <2>4, <2>7 DEF BlockGuarded
<1> QED
  BY <1>3, <1>4

\* The worker's answer settles the shape's verdict.
LEMMA CheckBlock ==
    ASSUME TypeOK, BlockGuarded, NEW answer \in CheckAnswers, CheckAnswer(answer)
    PROVE  BlockGuarded'
<1>0. guard \in Guards /\ call \in Calls /\ call.shape \in Shapes /\ call.phase = "checking"
  BY DEF TypeOK, CheckAnswer
<1>1. /\ guard' = CheckAnswered(guard, call.shape, answer)
      /\ call'.shape = call.shape /\ call'.phase = "prepared"
      /\ call'.prepared = PreparedAfterCheck(call.shape, answer)
  BY <1>0 DEF CheckAnswer, Calls
<1>2. /\ guard'.strikes = guard.strikes /\ guard'.build = guard.build
      /\ guard'.sessionOff = guard.sessionOff
  BY <1>0, <1>1 DEF CheckAnswered, Guards
<1>3. BlockOnlyWhenAdmitted'
  <2>1. StrikesOf(guard') = StrikesOf(guard)
    BY <1>2 DEF StrikesOf
  <2> QED
    BY <1>0, <1>2, <2>1 DEF BlockGuarded, BlockOnlyWhenAdmitted, BlockUnderWay
<1>4. BlockWasChecked'
  <2>1. CASE answer = "refused"
    BY <1>1, <2>1 DEF BlockWasChecked, PreparedAfterCheck, SafetyOff, TorrentsOnly
  <2>2. CASE answer # "refused"
    <3>1. guard'.checkVerdicts[call.shape] = "ok"
      BY <1>0, <1>1, <2>2 DEF CheckAnswered, Guards
    <3> QED
      BY <1>1, <3>1 DEF BlockWasChecked, Verdict
  <2> QED
    BY <2>1, <2>2
<1> QED
  BY <1>3, <1>4 DEF BlockGuarded

LEMMA NextBlock ==
    TypeOK /\ Arming /\ BlockGuarded /\ [Next]_vars => BlockGuarded'
<1> SUFFICES ASSUME TypeOK, Arming, BlockGuarded, [Next]_vars PROVE BlockGuarded'
  OBVIOUS
<1>0. guard \in Guards /\ call \in Calls
  BY DEF TypeOK
<1>1. ASSUME NEW base \in Bases, NEW new \in BOOLEAN, BeginStart(base, new) PROVE BlockGuarded'
  BY <1>0, <1>1 DEF BeginStart, NoCall, BlockGuarded, BlockOnlyWhenAdmitted, BlockWasChecked,
     BlockUnderWay, Handed
<1>2. ASSUME NEW off \in OffReasons \cup {None}, Prepare(off) PROVE BlockGuarded'
  BY <1>2, PrepareBlock
<1>3. ASSUME NEW answer \in CheckAnswers, CheckAnswer(answer) PROVE BlockGuarded'
  BY <1>3, CheckBlock
<1>4. CASE GiveUp
  BY <1>4, NoBlock DEF GiveUp
<1>5. CASE HandOver
  <2>1. /\ call.prepared \in Prepareds /\ call.phase = "prepared"
        /\ call'.phase = "starting" /\ call'.shape = call.shape
        /\ call'.prepared = call.prepared
    BY <1>0, <1>5 DEF HandOver, TypeOK, Handed, Calls
  <2>2. SameAdmission(guard, guard')
    BY <1>0, <1>5, <2>1, ArmForStartEffect DEF HandOver, SameAdmission
  <2> QED
    BY <2>1, <2>2, SameBlock DEF Handed
<1>6. CASE StartSucceeds
  BY <1>6, NoBlock DEF StartSucceeds, EndsRunning
<1>7. CASE StartFails
  BY <1>7, NoBlock DEF StartFails
<1>8. CASE RetryWithout
  <2>1. /\ call.phase = "starting" /\ call'.phase = "retrying"
        /\ call'.shape = call.shape /\ call'.prepared = call.prepared /\ guard' = guard
    BY <1>0, <1>8 DEF RetryWithout, Calls
  <2> QED
    BY <2>1, SameBlock DEF SameAdmission, Handed
<1>9. CASE RetrySucceeds
  BY <1>9, NoBlock DEF RetrySucceeds, EndsRunning
<1>10. CASE StartKillsDaemon
  BY <1>10, NoBlock DEF StartKillsDaemon
<1>11. CASE DaemonLost
  <2>1. SameAdmission(guard, guard')
    BY <1>0, <1>11, OnDaemonLostEffect DEF DaemonLost, Lose, SameAdmission
  <2> QED
    BY <1>11, <2>1, EventBlock DEF DaemonLost
<1>12. CASE Stopped
  <2>1. SameAdmission(guard, guard')
    BY <1>0, <1>12, DisarmEffect DEF Stopped, OnStopped, SameAdmission
  <2> QED
    BY <1>12, <2>1, EventBlock DEF Stopped
<1>13. ASSUME NEW recent \in BOOLEAN, Restored(recent) PROVE BlockGuarded'
  <2>1. SameAdmission(guard, guard')
    BY <1>0, <1>13, OnRestoredEffect DEF Restored, SameAdmission
  <2> QED
    BY <1>13, <2>1, EventBlock DEF Restored
<1>14. ASSUME NEW running \in BOOLEAN, SurvivalTimer(running) PROVE BlockGuarded'
  <2>1. guard.timer # None /\ guard.armedHere /\ guard.timer.token = guard.armToken
    BY <1>14 DEF SurvivalTimer, Arming, TimerIsOfThisArming
  <2>2. SameAdmission(guard, guard')
    BY <1>0, <1>14, <2>1, SurvivalCheckEffect DEF SurvivalTimer, SameAdmission
  <2> QED
    BY <1>14, <2>2, EventBlock DEF SurvivalTimer
<1>15. ASSUME NEW fails \in BOOLEAN, SelfCheckEnds(fails) PROVE BlockGuarded'
  <2>1. SameAdmission(guard, guard')
    BY <1>0, <1>15 DEF SelfCheckEnds, SameAdmission, Guards
  <2> QED
    BY <1>15, <2>1, EventBlock DEF SelfCheckEnds
<1>16. ASSUME NEW b \in Builds, AppRestarts(b) PROVE BlockGuarded'
  BY <1>16, NoBlock DEF AppRestarts
<1>17. CASE UNCHANGED vars
  BY <1>17, EventBlock DEF vars, SameAdmission
<1> QED
  BY <1>1, <1>2, <1>3, <1>4, <1>5, <1>6, <1>7, <1>8, <1>9, <1>10, <1>11, <1>12,
     <1>13, <1>14, <1>15, <1>16, <1>17 DEF Next

\* Whatever happens during a start's awaits, a config with the block is under way
\* only below the limit of strikes and in a session that has not turned it off.
THEOREM BlockAdmitted == Spec => []BlockOnlyWhenAdmitted
<1>1. Init => BlockGuarded
  BY DEF Init, NoCall, BlockGuarded, BlockOnlyWhenAdmitted, BlockWasChecked, BlockUnderWay, Handed
<1>2. Spec => []BlockGuarded
  BY <1>1, TypeCorrect, ArmingHolds, NextBlock, PTL DEF Spec
<1>3. BlockGuarded => BlockOnlyWhenAdmitted
  BY DEF BlockGuarded
<1> QED
  BY <1>2, <1>3, PTL

\* No config with the block goes to the daemon unchecked.
THEOREM BlockChecked == Spec => []BlockWasChecked
<1>1. Init => BlockGuarded
  BY DEF Init, NoCall, BlockGuarded, BlockOnlyWhenAdmitted, BlockWasChecked, BlockUnderWay, Handed
<1>2. Spec => []BlockGuarded
  BY <1>1, TypeCorrect, ArmingHolds, NextBlock, PTL DEF Spec
<1>3. BlockGuarded => BlockWasChecked
  BY DEF BlockGuarded
<1> QED
  BY <1>2, <1>3, PTL

-----------------------------------------------------------------------------
(* Strikes are forgiven only by a survival. *)

LEMMA SameStrikes ==
    ASSUME NEW g \in Guards, NEW h \in Guards, h.strikes = g.strikes, h.build = g.build
    PROVE  ~(StrikesOf(h) < StrikesOf(g))
<1>1. StrikesOf(h) = StrikesOf(g)
  BY DEF StrikesOf
<1> QED
  BY <1>1, StrikesOfType

\* A crash record left by an arming that is over is a strike more.
LEMMA AdmitCounts ==
    ASSUME NEW g \in Guards, CrashLeft(g) PROVE StrikesOf(Admit(g)) = StrikesOf(g) + 1
<1> DEFINE tally == [key |-> g.build, count |-> StrikesOf(g) + 1]
           h == [g EXCEPT !.pending = None, !.strikes = tally, !.sessionOff = TRUE]
<1>1. Admit(g) = h
  BY DEF Admit
<1>2. tally # None /\ tally.key = g.build /\ tally.count = StrikesOf(g) + 1
  BY StrikesOfType, NoneAssumption DEF Guards, Tallies
<1> HIDE DEF tally
<1>3. h.strikes = tally /\ h.build = g.build
  BY DEF Guards
<1> HIDE DEF h
<1> QED
  BY <1>1, <1>2, <1>3 DEF StrikesOf

\* Admitting a start never takes a strike away.
LEMMA AdmitKeepsStrikes ==
    ASSUME NEW g \in Guards PROVE ~(StrikesOf(Admit(g)) < StrikesOf(g))
<1> DEFINE d == [g EXCEPT !.pending = None]
<1>1. CASE CrashLeft(g)
  BY <1>1, AdmitCounts, StrikesOfType
<1>2. CASE ~CrashLeft(g) /\ MarkLeft(g)
  <2>1. Admit(g) = d /\ d \in Guards /\ d.strikes = g.strikes /\ d.build = g.build
    BY <1>2 DEF Admit, Guards
  <2> QED
    BY <2>1, SameStrikes
<1>3. CASE ~CrashLeft(g) /\ ~MarkLeft(g)
  BY <1>3, SameStrikes DEF Admit
<1> QED
  BY <1>1, <1>2, <1>3

\* Every step but the survival timer's leaves this build's strikes or adds one.
LEMMA StrikesKept ==
    ASSUME TypeOK, TypeOK', [Next]_vars, guard'.build = guard.build,
           \A running \in BOOLEAN : ~SurvivalTimer(running)
    PROVE  ~(StrikesOf(guard') < StrikesOf(guard))
<1>0. guard \in Guards /\ call \in Calls /\ guard' \in Guards
  BY DEF TypeOK
<1>1. guard'.strikes = guard.strikes => ~(StrikesOf(guard') < StrikesOf(guard))
  BY <1>0, SameStrikes
<1>2. ASSUME NEW base \in Bases, NEW new \in BOOLEAN, BeginStart(base, new)
      PROVE  guard'.strikes = guard.strikes
  BY <1>0, <1>2 DEF BeginStart, Guards
<1>3. ASSUME NEW off \in OffReasons \cup {None}, Prepare(off)
      PROVE  ~(StrikesOf(guard') < StrikesOf(guard))
  <2> DEFINE g == IF call.newSession THEN NewSession(guard) ELSE guard
  <2>1. g \in Guards /\ g.strikes = guard.strikes /\ g.build = guard.build
    <3>1. /\ NewSession(guard) \in Guards /\ NewSession(guard).strikes = guard.strikes
          /\ NewSession(guard).build = guard.build
      BY <1>0, NewSessionType DEF NewSession, Guards
    <3> QED
      BY <1>0, <3>1
  <2>2. guard' = Admit(g)
    BY <1>3 DEF Prepare
  <2> HIDE DEF g
  <2>3. StrikesOf(g) = StrikesOf(guard)
    BY <2>1 DEF StrikesOf
  <2> QED
    BY <2>1, <2>2, <2>3, AdmitKeepsStrikes
<1>4. ASSUME NEW answer \in CheckAnswers, CheckAnswer(answer) PROVE guard'.strikes = guard.strikes
  BY <1>0, <1>4 DEF CheckAnswer, CheckAnswered, Guards
<1>6. ASSUME HandOver PROVE guard'.strikes = guard.strikes
  <2>1. call.prepared \in Prepareds
    BY <1>6 DEF HandOver, TypeOK, Handed
  <2> QED
    BY <1>0, <1>6, <2>1, ArmForStartEffect DEF HandOver
<1>7. ASSUME StartSucceeds PROVE guard'.strikes = guard.strikes
  <2>1. call.prepared \in Prepareds /\ call.off \in OffReasons \cup {None}
    BY <1>7 DEF StartSucceeds, TypeOK, Handed, Calls
  <2> QED
    BY <1>0, <1>7, <2>1, StartedEffect DEF StartSucceeds, EndsRunning
<1>8. ASSUME RetrySucceeds PROVE guard'.strikes = guard.strikes
  <2>1. call.base \in Bases /\ call.off \in OffReasons \cup {None}
    BY <1>8 DEF RetrySucceeds, TypeOK, Calls
  <2>2. SafetyOff(call.base) \in Prepareds /\ RolledBack(guard) \in Guards
    BY <1>0, <2>1, SafetyOffType, RolledBackType
  <2>3. guard' = Started(RolledBack(guard), call.off, SafetyOff(call.base))
    BY <1>8 DEF RetrySucceeds, EndsRunning
  <2>4. guard'.strikes = RolledBack(guard).strikes
    BY <2>1, <2>2, <2>3, StartedEffect
  <2>5. RolledBack(guard).strikes = guard.strikes
    BY <1>0, RolledBackEffect
  <2> QED
    BY <2>4, <2>5
<1>9. ASSUME StartFails \/ Stopped PROVE guard'.strikes = guard.strikes
  <2>1. guard' = Disarm(guard, FALSE)
    BY <1>9 DEF StartFails, Stopped, OnStopped
  <2>2. CASE guard.armedHere
    BY <1>0, <2>1, <2>2 DEF Disarm, Guards
  <2>3. CASE ~guard.armedHere
    BY <2>1, <2>3 DEF Disarm
  <2> QED
    BY <2>2, <2>3
<1>10. ASSUME StartKillsDaemon \/ DaemonLost PROVE guard'.strikes = guard.strikes
  <2>1. guard' = OnDaemonLost(guard)
    BY <1>10 DEF StartKillsDaemon, DaemonLost, Lose
  <2> QED
    BY <1>0, <2>1, OnDaemonLostEffect
<1>11. ASSUME NEW recent \in BOOLEAN, Restored(recent) PROVE guard'.strikes = guard.strikes
  <2>1. guard' = OnRestored(guard, recent)
    BY <1>11 DEF Restored
  <2> QED
    BY <1>0, <2>1, OnRestoredEffect
<1>12. ASSUME NEW fails \in BOOLEAN, SelfCheckEnds(fails) PROVE guard'.strikes = guard.strikes
  BY <1>0, <1>12 DEF SelfCheckEnds, Guards
<1>13. ASSUME NEW b \in Builds, AppRestarts(b) PROVE guard'.strikes = guard.strikes
  BY <1>13 DEF AppRestarts, NewProcess
<1>14. ASSUME GiveUp \/ RetryWithout \/ UNCHANGED vars PROVE guard'.strikes = guard.strikes
  BY <1>14 DEF GiveUp, RetryWithout, vars
<1> QED
  BY <1>1, <1>2, <1>3, <1>4, <1>6, <1>7, <1>8, <1>9, <1>10, <1>11, <1>12, <1>13, <1>14 DEF Next

\* A timer that does not find the service STARTED leaves the strikes, even when it
\* gives up.
LEMMA UnseenForgivesNothing ==
    ASSUME NEW g \in Guards, g.timer # None
    PROVE  SurvivalCheck(g, FALSE).strikes = g.strikes
<1> DEFINE fired == [g EXCEPT !.timer = None]
<1>1. fired.strikes = g.strikes /\ fired.armedHere = g.armedHere
  BY DEF Guards
<1>2. Disarm(fired, FALSE).strikes = g.strikes
  <2>1. CASE fired.armedHere
    BY <1>1, <2>1 DEF Disarm, Guards
  <2>2. CASE ~fired.armedHere
    BY <1>1, <2>2 DEF Disarm
  <2> QED
    BY <2>1, <2>2
<1>3. [g EXCEPT !.timer.rechecks = g.timer.rechecks + 1].strikes = g.strikes
  BY DEF Guards
<1> QED
  BY <1>1, <1>2, <1>3 DEF SurvivalCheck

\* In every behaviour the strikes against a build go away only in the callback of the
\* timer, which is that of the arming in force and has found the service STARTED.
THEOREM ForgivenBySurvival == Spec => StrikesForgivenOnlyBySurvival
<1>1. TypeOK /\ TypeOK' /\ Arming /\ [Next]_vars
        => [ guard'.build = guard.build /\ StrikesOf(guard') < StrikesOf(guard)
               => /\ guard.armedHere /\ guard.timer.token = guard.armToken
                  /\ SurvivalTimer(TRUE) ]_vars
  <2> SUFFICES ASSUME TypeOK, TypeOK', Arming, [Next]_vars,
                      guard'.build = guard.build, StrikesOf(guard') < StrikesOf(guard)
               PROVE  /\ guard.armedHere /\ guard.timer.token = guard.armToken
                      /\ SurvivalTimer(TRUE)
    OBVIOUS
  <2>1. PICK running \in BOOLEAN : SurvivalTimer(running)
    BY StrikesKept
  <2>2. ASSUME ~running PROVE FALSE
    <3>1. guard' = SurvivalCheck(guard, FALSE) /\ guard.timer # None
      BY <2>1, <2>2 DEF SurvivalTimer
    <3>2. guard'.strikes = guard.strikes
      BY <3>1, UnseenForgivesNothing DEF TypeOK
    <3> QED
      BY <3>2, SameStrikes DEF TypeOK
  <2>3. SurvivalTimer(TRUE)
    BY <2>1, <2>2
  <2> QED
    BY <2>3 DEF SurvivalTimer, Arming, TimerIsOfThisArming
<1> QED
  BY <1>1, TypeCorrect, ArmingHolds, PTL DEF Spec, StrikesForgivenOnlyBySurvival

-----------------------------------------------------------------------------
(* A crash on record becomes a strike. *)

\* The store holds a crash record of the build that runs.
OnRecord(g) == g.pending # None /\ g.pending = [key |-> g.build, crashed |-> TRUE]

\* With a crash on record nothing is armed, so that no timer runs.
LEMMA RecordUnarmed ==
    ASSUME TypeOK, Arming, OnRecord(guard)
    PROVE  ~guard.armedHere /\ guard.timer = None
  BY DEF Arming, ArmedHasOwnMark, TimerIsOfThisArming, OwnMark, OnRecord

\* An end of an arming leaves a record alone: only what is armed ends.
LEMMA DisarmKeepsRecord ==
    ASSUME NEW g \in Guards, ~g.armedHere PROVE Disarm(g, FALSE) = g
  BY DEF Disarm

LEMMA RolledBackKeepsRecord ==
    ASSUME NEW g \in Guards, ~g.armedHere PROVE RolledBack(g).pending = g.pending
<1> DEFINE r == [g EXCEPT !.sessionOff = TRUE, !.repairPending = FALSE]
<1>1. r \in Guards /\ ~r.armedHere /\ r.pending = g.pending
  BY DEF Guards
<1>2. RolledBack(g) = Disarm(r, FALSE)
  BY DEF RolledBack
<1> QED
  BY <1>1, <1>2, DisarmKeepsRecord

\* A start that meets the record counts it.
LEMMA PrepareCounts ==
    ASSUME TypeOK, Arming, OnRecord(guard), NEW off \in OffReasons \cup {None}, Prepare(off)
    PROVE  StrikesOf(guard') = StrikesOf(guard) + 1
<1> DEFINE g == IF call.newSession THEN NewSession(guard) ELSE guard
<1>1. guard \in Guards /\ ~guard.armedHere
  BY RecordUnarmed DEF TypeOK
<1>2. /\ NewSession(guard) \in Guards /\ NewSession(guard).strikes = guard.strikes
      /\ NewSession(guard).pending = guard.pending
      /\ NewSession(guard).build = guard.build /\ ~NewSession(guard).armedHere
  BY <1>1, NewSessionType DEF NewSession, Guards
<1>3. /\ g \in Guards /\ g.strikes = guard.strikes /\ g.pending = guard.pending
      /\ g.build = guard.build /\ ~g.armedHere
  BY <1>1, <1>2
<1>4. guard' = Admit(g)
  BY DEF Prepare
<1> HIDE DEF g
<1>5. CrashLeft(g) /\ StrikesOf(g) = StrikesOf(guard)
  BY <1>3 DEF CrashLeft, MarkLeft, OnRecord, StrikesOf
<1> QED
  BY <1>3, <1>4, <1>5, AdmitCounts

\* Every step but a start's admission and a new arming leaves the record there.
LEMMA RecordKept ==
    ASSUME TypeOK, Arming, [Next]_vars, OnRecord(guard), guard'.pending # guard.pending
    PROVE  \/ StrikesOf(guard') = StrikesOf(guard) + 1
           \/ HandOver
           \/ \E recent \in BOOLEAN : Restored(recent)
<1>0. guard \in Guards /\ call \in Calls /\ ~guard.armedHere /\ guard.timer = None
  BY RecordUnarmed DEF TypeOK
<1>1. ASSUME NEW base \in Bases, NEW new \in BOOLEAN, BeginStart(base, new) PROVE FALSE
  BY <1>0, <1>1 DEF BeginStart, Guards
<1>2. ASSUME NEW off \in OffReasons \cup {None}, Prepare(off)
      PROVE  StrikesOf(guard') = StrikesOf(guard) + 1
  BY <1>2, PrepareCounts
<1>3. ASSUME NEW answer \in CheckAnswers, CheckAnswer(answer) PROVE FALSE
  BY <1>0, <1>3 DEF CheckAnswer, CheckAnswered, Guards
<1>4. ASSUME StartSucceeds PROVE FALSE
  <2>1. call.prepared \in Prepareds /\ call.off \in OffReasons \cup {None}
    BY <1>4 DEF StartSucceeds, TypeOK, Handed, Calls
  <2> QED
    BY <1>0, <1>4, <2>1, StartedEffect DEF StartSucceeds, EndsRunning
<1>5. ASSUME RetrySucceeds PROVE FALSE
  <2>1. call.base \in Bases /\ call.off \in OffReasons \cup {None}
    BY <1>5 DEF RetrySucceeds, TypeOK, Calls
  <2>2. SafetyOff(call.base) \in Prepareds /\ RolledBack(guard) \in Guards
    BY <1>0, <2>1, SafetyOffType, RolledBackType
  <2>3. guard' = Started(RolledBack(guard), call.off, SafetyOff(call.base))
    BY <1>5 DEF RetrySucceeds, EndsRunning
  <2>4. guard'.pending = RolledBack(guard).pending
    BY <2>1, <2>2, <2>3, StartedEffect
  <2> QED
    BY <1>0, <2>4, RolledBackKeepsRecord
<1>6. ASSUME StartFails \/ Stopped PROVE FALSE
  <2>1. guard' = Disarm(guard, FALSE)
    BY <1>6 DEF StartFails, Stopped, OnStopped
  <2> QED
    BY <1>0, <2>1, DisarmKeepsRecord
<1>7. ASSUME StartKillsDaemon \/ DaemonLost PROVE FALSE
  <2>1. guard' = OnDaemonLost(guard)
    BY <1>7 DEF StartKillsDaemon, DaemonLost, Lose
  <2> QED
    BY <1>0, <2>1, OnDaemonLostEffect
<1>8. ASSUME NEW running \in BOOLEAN, SurvivalTimer(running) PROVE FALSE
  BY <1>0, <1>8 DEF SurvivalTimer
<1>9. ASSUME NEW fails \in BOOLEAN, SelfCheckEnds(fails) PROVE FALSE
  BY <1>0, <1>9 DEF SelfCheckEnds, Guards
<1>10. ASSUME NEW b \in Builds, AppRestarts(b) PROVE FALSE
  BY <1>10 DEF AppRestarts, NewProcess
<1>11. ASSUME GiveUp \/ RetryWithout \/ UNCHANGED vars PROVE FALSE
  BY <1>11 DEF GiveUp, RetryWithout, vars
<1> QED
  BY <1>1, <1>2, <1>3, <1>4, <1>5, <1>6, <1>7, <1>8, <1>9, <1>10, <1>11 DEF Next

\* In every behaviour a crash record of the running build leaves the store only as a
\* strike more, or under the mark of a start that was admitted before the crash or of
\* a service found running.
THEOREM RecordsAreCounted == Spec => RecordBecomesStrike
<1>1. TypeOK /\ Arming /\ [Next]_vars
        => [ RecordsFor(guard.build) = 1 /\ guard'.build = guard.build
             /\ guard'.pending # guard.pending
                 => \/ StrikesOf(guard') = StrikesOf(guard) + 1
                    \/ HandOver
                    \/ \E recent \in BOOLEAN : Restored(recent) ]_vars
  <2> SUFFICES ASSUME TypeOK, Arming, [Next]_vars,
                      RecordsFor(guard.build) = 1, guard'.pending # guard.pending
               PROVE  \/ StrikesOf(guard') = StrikesOf(guard) + 1
                      \/ HandOver
                      \/ \E recent \in BOOLEAN : Restored(recent)
    OBVIOUS
  <2>1. OnRecord(guard)
    BY DEF RecordsFor, OnRecord
  <2> QED
    BY <2>1, RecordKept
<1> QED
  BY <1>1, TypeCorrect, ArmingHolds, PTL DEF Spec, RecordBecomesStrike
=============================================================================
