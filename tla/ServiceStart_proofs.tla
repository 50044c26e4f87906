------------------------ MODULE ServiceStart_proofs ------------------------
(***************************************************************************)
(* Proofs about ServiceStart, for every value of its constants: profiles.ts *)
(* and the daemon call the guard only as CrashGuard allows, so what is     *)
(* proved of CrashGuard holds of the guard among them; reloads merge, and  *)
(* a repair that is due is in the chain.                                   *)
(*                                                                         *)
(* The guard and the start under way are typed by CrashGuard's own lemmas, *)
(* through the step of CrashGuard that each step is.                       *)
(***************************************************************************)
EXTENDS ServiceStart, SequenceTheorems, FiniteSetTheorems, TLAPS

G == INSTANCE CrashGuard_proofs WITH
    MaxArmings <- None, MaxCrashes <- None,
    selfChecks <- session.selfChecks,
    call <- [phase |-> call.phase,
             base |-> IF call.phase = "idle" THEN None ELSE Base,
             off |-> call.off, newSession |-> call.newSession,
             shape |-> call.shape, prepared |-> call.prepared]

-----------------------------------------------------------------------------
(* The invariant. *)

\* The types of what CrashGuard does not have.
OwnTypes ==
    /\ queue \in Seq(Kinds)
    /\ call \in Calls
    /\ session \in Sessions
    /\ wanted \in OffReasons \cup {None}
    /\ conn \in Conns
    /\ daemon \in Daemons
    /\ budget \in [Events -> Nat]

Reachable == daemon.up /\ daemon.ours

\* The client hears nothing without a stream, and a stream that has lost its daemon
\* ends: the daemon is gone, or another user's, exactly when the end is on its way.
StreamInv ==
    /\ ~conn.streaming => conn.stream = <<>> /\ conn.seen = None
    /\ conn.streaming => conn.phase = "connected" /\ (StreamOpen <=> Reachable)
    /\ call.answer = "reset" => ~daemon.up

\* getStartedAt is asked of the run that is on screen, and never while a repair is
\* due: the age of that run may arm the guard.
AskingInv == session.asking => Reachable /\ ~guard.repairPending

ServiceInv == G!TypeOK /\ OwnTypes /\ StreamInv /\ AskingInv

-----------------------------------------------------------------------------
(* Sequences. *)

Clear(s) == \A i \in DOMAIN s : s[i] # "END"

LEMMA ClearConcat ==
    ASSUME NEW S, NEW s \in Seq(S), NEW t \in Seq(S)
    PROVE  Clear(s \o t) <=> Clear(s) /\ Clear(t)
<1>1. ASSUME Clear(s \o t) PROVE Clear(s) /\ Clear(t)
  <2>1. ASSUME NEW i \in DOMAIN s PROVE s[i] # "END"
    <3>1. i \in DOMAIN (s \o t) /\ (s \o t)[i] = s[i]
      OBVIOUS
    <3> QED
      BY <1>1, <3>1 DEF Clear
  <2>2. ASSUME NEW i \in DOMAIN t PROVE t[i] # "END"
    <3>1. i + Len(s) \in DOMAIN (s \o t) /\ (s \o t)[i + Len(s)] = t[i]
      OBVIOUS
    <3> QED
      BY <1>1, <3>1 DEF Clear
  <2> QED
    BY <2>1, <2>2 DEF Clear
<1>2. ASSUME Clear(s), Clear(t) PROVE Clear(s \o t)
  BY <1>2 DEF Clear
<1> QED
  BY <1>1, <1>2

LEMMA ClearTail ==
    ASSUME NEW S, NEW s \in Seq(S), s # <<>>
    PROVE  /\ Tail(s) \in Seq(S) /\ Head(s) \in S
           /\ Head(s) # "END" => (Clear(Tail(s)) <=> Clear(s))
           /\ Head(s) = "END" => ~Clear(s)
<1>1. Tail(s) \in Seq(S) /\ Head(s) \in S
  OBVIOUS
<1>2. 1 \in DOMAIN s /\ s[1] = Head(s)
  OBVIOUS
<1>3. Clear(s) => Clear(Tail(s))
  BY DEF Clear
<1>4. ASSUME Head(s) # "END", Clear(Tail(s)) PROVE Clear(s)
  <2> SUFFICES ASSUME NEW i \in DOMAIN s, i # 1 PROVE s[i] # "END"
    BY <1>2, <1>4 DEF Clear
  <2>1. i - 1 \in DOMAIN Tail(s) /\ Tail(s)[i - 1] = s[i]
    OBVIOUS
  <2> QED
    BY <1>4, <2>1 DEF Clear
<1> QED
  BY <1>1, <1>2, <1>3, <1>4 DEF Clear
-----------------------------------------------------------------------------
(* The guard of ServiceStart is that of CrashGuard. *)

LEMMA SameSets ==
    /\ G!Guards = Guards /\ G!Shapes = Shapes /\ G!Prepareds = Prepareds
    /\ G!CheckAnswers = CheckAnswers
BY DEF G!Guards, Guards, G!Shapes, Shapes, G!Prepareds, Prepareds, G!CheckAnswers,
   CheckAnswers, G!Marks, Marks, G!Tallies, Tallies, G!CheckKeys, CheckKeys, G!Applieds,
   Applieds, G!Labels, Labels, G!Timers, Timers, G!Verdicts, Verdicts, G!Contents, Contents

LEMMA SamePreparing ==
    ASSUME NEW g, NEW base, NEW off, NEW shape, NEW answer
    PROVE  /\ NewSession(g) = G!NewSession(g)
           /\ Admit(g) = G!Admit(g)
           /\ ShapeFor(g, base) = G!ShapeFor(g, base)
           /\ PreparedAtOnce(g, base, off) = G!PreparedAtOnce(g, base, off)
           /\ CheckAnswered(g, shape, answer) = G!CheckAnswered(g, shape, answer)
           /\ PreparedAfterCheck(shape, answer) = G!PreparedAfterCheck(shape, answer)
           /\ TorrentsOnly(base) = G!TorrentsOnly(base)
           /\ SafetyOff(base) = G!SafetyOff(base)
<1> USE DEF StrikesOf, G!StrikesOf, MarkLeft, G!MarkLeft, CrashLeft, G!CrashLeft,
            TorrentsOnly, G!TorrentsOnly, SafetyOff, G!SafetyOff, Whole, G!Whole,
            ShapeFor, G!ShapeFor
<1>1. NewSession(g) = G!NewSession(g)
  BY DEF NewSession, G!NewSession
<1>2. Admit(g) = G!Admit(g)
  BY DEF Admit, G!Admit
<1>3. PreparedAtOnce(g, base, off) = G!PreparedAtOnce(g, base, off)
  BY DEF PreparedAtOnce, G!PreparedAtOnce, Applied, G!Applied, Verdict, G!Verdict,
         Refuses, G!Refuses
<1>4. CheckAnswered(g, shape, answer) = G!CheckAnswered(g, shape, answer)
  BY DEF CheckAnswered, G!CheckAnswered
<1>5. PreparedAfterCheck(shape, answer) = G!PreparedAfterCheck(shape, answer)
  BY DEF PreparedAfterCheck, G!PreparedAfterCheck
<1>6. ShapeFor(g, base) = G!ShapeFor(g, base) /\ TorrentsOnly(base) = G!TorrentsOnly(base)
      /\ SafetyOff(base) = G!SafetyOff(base)
  OBVIOUS
<1> QED
  BY <1>1, <1>2, <1>3, <1>4, <1>5, <1>6

LEMMA SameArming ==
    ASSUME NEW g, NEW p, NEW off, NEW flag
    PROVE  /\ ArmForStart(g, p) = G!ArmForStart(g, p)
           /\ OnStopped(g) = G!OnStopped(g)
           /\ RolledBack(g) = G!RolledBack(g)
           /\ OnDaemonLost(g) = G!OnDaemonLost(g)
           /\ OnRestored(g, flag) = G!OnRestored(g, flag)
           /\ SurvivalCheck(g, flag) = G!SurvivalCheck(g, flag)
           /\ Started(g, off, p) = G!Started(g, off, p)
           /\ ClaimsDnsCheck(g, p) = G!ClaimsDnsCheck(g, p)
<1> USE DEF Disarm, G!Disarm, OwnMark, G!OwnMark, StartSurvivalTimer, G!StartSurvivalTimer
<1>1. ArmForStart(g, p) = G!ArmForStart(g, p)
  BY DEF ArmForStart, G!ArmForStart
<1>2. OnStopped(g) = G!OnStopped(g)
  BY DEF OnStopped, G!OnStopped
<1>3. RolledBack(g) = G!RolledBack(g)
  BY DEF RolledBack, G!RolledBack
<1>4. OnDaemonLost(g) = G!OnDaemonLost(g)
  BY DEF OnDaemonLost, G!OnDaemonLost
<1>5. OnRestored(g, flag) = G!OnRestored(g, flag)
  BY DEF OnRestored, G!OnRestored, LastStartGuarded, G!LastStartGuarded
<1>6. SurvivalCheck(g, flag) = G!SurvivalCheck(g, flag)
  BY DEF SurvivalCheck, G!SurvivalCheck
<1>7. Started(g, off, p) = G!Started(g, off, p)
  BY DEF Started, G!Started, ClaimDnsCheck, G!ClaimDnsCheck, ClaimsDnsCheck, G!ClaimsDnsCheck,
         OnRunning, G!OnRunning, RecordApplied, G!RecordApplied
<1>8. ClaimsDnsCheck(g, p) = G!ClaimsDnsCheck(g, p)
  BY DEF ClaimsDnsCheck, G!ClaimsDnsCheck
<1> QED
  BY <1>1, <1>2, <1>3, <1>4, <1>5, <1>6, <1>7, <1>8

\* What CrashGuard sees of a call.
Seen(c) == [phase |-> c.phase, base |-> IF c.phase = "idle" THEN None ELSE Base,
            off |-> c.off, newSession |-> c.newSession,
            shape |-> c.shape, prepared |-> c.prepared]

LEMMA SeenIs ==
    ASSUME NEW c \in Calls, NEW q \in G!Calls,
           q.phase = c.phase, q.base = IF c.phase = "idle" THEN None ELSE Base,
           q.off = c.off, q.newSession = c.newSession, q.shape = c.shape, q.prepared = c.prepared
    PROVE  q = Seen(c)
<1>1. Seen(c) \in G!Calls
  BY SameSets, ServiceAssumption DEF Seen, Calls, G!Calls, Phases, G!Phases
<1>2. /\ Seen(c).phase = q.phase /\ Seen(c).base = q.base /\ Seen(c).off = q.off
      /\ Seen(c).newSession = q.newSession /\ Seen(c).shape = q.shape
      /\ Seen(c).prepared = q.prepared
  BY DEF Seen
<1> HIDE DEF Seen
<1> QED
  BY <1>1, <1>2 DEF G!Calls

LEMMA GuardAssumptions == G!RuntimeAssumption /\ G!NoneAssumption /\ G!BoundsAssumption
BY RuntimeAssumption, NoneAssumption, SameSets
   DEF G!RuntimeAssumption, G!NoneAssumption, G!BoundsAssumption, G!Marks, Marks,
       G!Tallies, Tallies, G!CheckKeys, CheckKeys, G!Applieds, Applieds,
       G!Labels, Labels, G!Timers, Timers, G!Contents, Contents

LEMMA MethodTypes ==
    ASSUME NEW g \in Guards
    PROVE  /\ NewSession(g) \in Guards
           /\ \A base \in Bases, off \in OffReasons \cup {None} :
                ShapeFor(g, base) \in Shapes
                /\ PreparedAtOnce(g, base, off) \in Prepareds \cup {None}
           /\ \A base \in Bases : SafetyOff(base) \in Prepareds
           /\ \A shape \in Shapes, answer \in CheckAnswers :
                PreparedAfterCheck(shape, answer) \in Prepareds
<1>1. NewSession(g) \in Guards
  BY G!NewSessionType, GuardAssumptions, SameSets, SamePreparing
<1>2. ASSUME NEW base \in Bases, NEW off \in OffReasons \cup {None}
      PROVE  ShapeFor(g, base) \in Shapes /\ PreparedAtOnce(g, base, off) \in Prepareds \cup {None}
  BY G!ShapeForType, G!PreparedAtOnceType, GuardAssumptions, SameSets, SamePreparing
<1>3. ASSUME NEW base \in Bases PROVE SafetyOff(base) \in Prepareds
  BY G!SafetyOffType, GuardAssumptions, SameSets, SamePreparing
<1>4. ASSUME NEW shape \in Shapes, NEW answer \in CheckAnswers
      PROVE  PreparedAfterCheck(shape, answer) \in Prepareds
  BY <1>3, G!WholeType, GuardAssumptions, SameSets DEF PreparedAfterCheck, Whole, G!Whole,
     Shapes
<1> QED
  BY <1>1, <1>2, <1>3, <1>4

-----------------------------------------------------------------------------
(* Every step is one of CrashGuard, or none of its. *)

LEMMA TypeFacts ==
    ASSUME G!TypeOK, OwnTypes
    PROVE  /\ guard \in Guards /\ Base \in Bases
           /\ Seen(call) \in G!Calls
           /\ call.phase \in {"checking", "prepared", "starting", "retrying"}
                => call.shape \in Shapes /\ call.shape.base = Base
           /\ call.phase \in {"prepared", "starting", "retrying"} => call.prepared \in Prepareds
BY SameSets, ServiceAssumption DEF G!TypeOK, Seen, G!Handed

LEMMA NoCallType == NoCall \in Calls /\ NoCall.phase = "idle"
BY DEF NoCall, Calls, Phases

LEMMA SeenNothing == Seen(NoCall) = G!NoCall
BY DEF Seen, NoCall, G!NoCall

LEMMA BeginRefines ==
    ASSUME G!TypeOK, OwnTypes, Begin
    PROVE  call' \in Calls /\ \E new \in BOOLEAN : G!BeginStart(Base, new)
<1> DEFINE new == Head(queue) \in {"connect", "repair", "update"}
           next == [G!NoCall EXCEPT !.phase = "probing", !.base = Base, !.newSession = new]
<1>1. call' = [NoCall EXCEPT !.phase = "probing", !.kind = Head(queue), !.newSession = new]
  BY DEF Begin
<1>2. Head(queue) \in Kinds
  BY DEF Begin, OwnTypes
<1>3. call' \in Calls /\ call'.phase = "probing" /\ call'.newSession = new
      /\ call'.off = None /\ call'.shape = None /\ call'.prepared = None
  <2> HIDE DEF new
  <2>1. new \in BOOLEAN
    BY DEF new
  <2> QED
    BY <1>1, <1>2, <2>1 DEF NoCall, Calls, Phases
<1>4. next = Seen(call')
  <2> HIDE DEF new, next
  <2>1. new \in BOOLEAN /\ Base \in Bases
    BY ServiceAssumption DEF new
  <2>2. /\ next \in G!Calls /\ next.phase = "probing" /\ next.base = Base
        /\ next.newSession = new /\ next.off = None /\ next.shape = None
        /\ next.prepared = None
    BY <2>1 DEF next, G!NoCall, G!Calls, G!Phases
  <2> QED
    BY <1>3, <2>1, <2>2, SeenIs
<1>5. UNCHANGED <<session.selfChecks, crashes>> /\ call.phase = "idle"
      /\ guard' = [guard EXCEPT !.repairPending = FALSE]
  BY DEF Begin, Taken, OwnTypes, Sessions
<1>6. G!BeginStart(Base, new)
  BY <1>4, <1>5 DEF G!BeginStart, Seen
<1>7. new \in BOOLEAN
  OBVIOUS
<1> HIDE DEF new
<1> QED
  BY <1>3, <1>6, <1>7

LEMMA PrepareRefines ==
    ASSUME G!TypeOK, OwnTypes, Prepare PROVE call' \in Calls /\ G!Prepare(wanted)
<1> DEFINE g == IF call.newSession THEN NewSession(guard) ELSE guard
           prepared == PreparedAtOnce(g, Base, wanted)
           shape == ShapeFor(g, Base)
           phase == IF prepared = None THEN "checking" ELSE "prepared"
           next == [Seen(call) EXCEPT !.phase = phase, !.off = wanted, !.newSession = FALSE,
                                      !.shape = shape, !.prepared = prepared]
<1>1. call.phase = "probing" /\ guard' = Admit(g) /\ UNCHANGED <<session, crashes>>
      /\ call' = [call EXCEPT !.phase = phase, !.off = wanted, !.newSession = FALSE,
                              !.shape = shape, !.prepared = prepared]
  BY DEF Prepare
<1>2. g \in Guards /\ Base \in Bases
  BY TypeFacts, MethodTypes
<1>3. shape \in Shapes /\ prepared \in Prepareds \cup {None}
      /\ wanted \in OffReasons \cup {None}
      /\ phase \in Phases \ {"idle"}
  <2>1. shape \in Shapes /\ prepared \in Prepareds \cup {None}
    <3> HIDE DEF g
    <3> QED
      BY <1>2, MethodTypes DEF OwnTypes
  <2> QED
    BY <2>1 DEF OwnTypes, Phases
<1>4. next = Seen(call') /\ call' \in Calls
  <2> HIDE DEF shape, prepared, phase, next
  <2>1. /\ call' \in Calls /\ call'.phase = phase /\ call'.off = wanted
        /\ call'.newSession = FALSE /\ call'.shape = shape /\ call'.prepared = prepared
    BY <1>1, <1>3 DEF OwnTypes, Calls
  <2>2. Seen(call) \in G!Calls /\ Seen(call).base = Base
    BY <1>1, TypeFacts DEF Seen
  <2>3. /\ next \in G!Calls /\ next.phase = phase /\ next.off = wanted /\ next.base = Base
        /\ next.newSession = FALSE /\ next.shape = shape /\ next.prepared = prepared
    <3> HIDE DEF Seen
    <3> QED
      BY <1>3, <2>2, SameSets DEF next, G!Calls, Phases, G!Phases
  <2> QED
    BY <1>3, <2>1, <2>3, SeenIs
<1>5. g = IF Seen(call).newSession THEN G!NewSession(guard) ELSE guard
  BY SamePreparing DEF Seen
<1>6. Admit(g) = G!Admit(g) /\ prepared = G!PreparedAtOnce(g, Base, wanted)
      /\ shape = G!ShapeFor(g, Base)
  BY SamePreparing
<1>7. Seen(call).base = Base /\ Seen(call).phase = "probing"
      /\ session'.selfChecks = session.selfChecks
  BY <1>1 DEF Seen
<1> HIDE DEF g, prepared, shape
<1> QED
  BY <1>1, <1>4, <1>5, <1>6, <1>7, Zenon DEF G!Prepare, Seen, g, prepared, shape

\* A call that goes on.
LEMMA Moved ==
    ASSUME NEW c \in Calls, NEW d \in Calls, c.phase # "idle", d.phase # "idle",
           d.off = c.off, d.newSession = c.newSession, d.shape = c.shape
    PROVE  /\ [Seen(c) EXCEPT !.phase = d.phase, !.prepared = d.prepared] = Seen(d)
           /\ d.prepared = c.prepared => [Seen(c) EXCEPT !.phase = d.phase] = Seen(d)
<1> DEFINE p == [Seen(c) EXCEPT !.phase = d.phase, !.prepared = d.prepared]
           q == [Seen(c) EXCEPT !.phase = d.phase]
<1>1. Seen(c) \in G!Calls /\ Seen(c).base = Base
  BY SameSets, ServiceAssumption DEF Seen, Calls, G!Calls, Phases, G!Phases
<1>2. /\ Seen(c).off = c.off /\ Seen(c).newSession = c.newSession /\ Seen(c).shape = c.shape
      /\ Seen(c).prepared = c.prepared
  BY DEF Seen
<1>3. /\ p \in G!Calls /\ p.phase = d.phase /\ p.prepared = d.prepared
      /\ p.base = Base /\ p.off = d.off /\ p.newSession = d.newSession /\ p.shape = d.shape
  <2> HIDE DEF Seen
  <2> QED
    BY <1>1, <1>2, SameSets DEF Calls, G!Calls, Phases, G!Phases
<1>4. /\ q \in G!Calls /\ q.phase = d.phase /\ q.prepared = c.prepared
      /\ q.base = Base /\ q.off = d.off /\ q.newSession = d.newSession /\ q.shape = d.shape
  <2> HIDE DEF Seen
  <2> QED
    BY <1>1, <1>2, SameSets DEF Calls, G!Calls, Phases, G!Phases
<1> HIDE DEF p, q
<1>5. p = Seen(d)
  BY <1>3, SeenIs
<1>6. d.prepared = c.prepared => q = Seen(d)
  BY <1>4, SeenIs
<1> QED
  BY <1>5, <1>6 DEF p, q

\* What CrashGuard does not see.
LEMMA Unseen ==
    ASSUME UNCHANGED <<guard, crashes>>, session'.selfChecks = session.selfChecks,
           /\ call'.phase = call.phase /\ call'.off = call.off /\ call'.shape = call.shape
           /\ call'.newSession = call.newSession /\ call'.prepared = call.prepared
    PROVE  UNCHANGED G!vars
BY DEF G!vars

LEMMA CheckAnswerRefines ==
    ASSUME G!TypeOK, OwnTypes, NEW answer \in CheckAnswers, CheckAnswer(answer)
    PROVE  call' \in Calls /\ G!CheckAnswer(answer)
<1> DEFINE prepared == PreparedAfterCheck(call.shape, answer)
<1>1. /\ call.phase = "checking" /\ guard' = CheckAnswered(guard, call.shape, answer)
      /\ call' = [call EXCEPT !.phase = "prepared", !.prepared = prepared]
      /\ UNCHANGED <<session, crashes>>
  BY DEF CheckAnswer
<1>2. call.shape \in Shapes
  BY <1>1, TypeFacts
<1>3. prepared \in Prepareds
  BY <1>2, TypeFacts, MethodTypes
<1>4. /\ call' \in Calls /\ call'.phase = "prepared" /\ call'.prepared = prepared
      /\ call'.off = call.off /\ call'.newSession = call.newSession /\ call'.shape = call.shape
  <2> HIDE DEF prepared
  <2> QED
    BY <1>1, <1>3 DEF OwnTypes, Calls, Phases
<1>5. [Seen(call) EXCEPT !.phase = "prepared", !.prepared = prepared] = Seen(call')
  <2> HIDE DEF prepared, Seen
  <2>1. [Seen(call) EXCEPT !.phase = call'.phase, !.prepared = call'.prepared] = Seen(call')
    BY <1>1, <1>4, Moved DEF OwnTypes
  <2> QED
    BY <1>4, <2>1
<1>6. prepared = G!PreparedAfterCheck(call.shape, answer)
      /\ guard' = G!CheckAnswered(guard, call.shape, answer)
  BY <1>1, SamePreparing
<1> HIDE DEF prepared
<1> QED
  BY <1>1, <1>4, <1>5, <1>6, Zenon DEF G!CheckAnswer, Seen

LEMMA GiveUpRefines ==
    ASSUME OwnTypes, GiveUp PROVE call' \in Calls /\ G!GiveUp
<1>1. call.phase = "prepared" /\ call' = NoCall /\ UNCHANGED <<guard, session, crashes>>
  BY DEF GiveUp
<1> QED
  BY <1>1, NoCallType, SeenNothing DEF G!GiveUp, Seen

LEMMA HandOverRefines ==
    ASSUME G!TypeOK, OwnTypes, HandOver PROVE call' \in Calls /\ G!HandOver
<1>1. /\ call.phase = "prepared" /\ guard' = ArmForStart(guard, call.prepared)
      /\ call' = [call EXCEPT !.phase = "starting", !.daemonWasUp = conn.phase = "connected"]
      /\ UNCHANGED <<session, crashes>>
  BY DEF HandOver
<1>2. /\ call' \in Calls /\ call'.phase = "starting" /\ call'.prepared = call.prepared
      /\ call'.off = call.off /\ call'.newSession = call.newSession /\ call'.shape = call.shape
  BY <1>1 DEF OwnTypes, Calls, Phases
<1>3. [Seen(call) EXCEPT !.phase = "starting"] = Seen(call')
  <2> HIDE DEF Seen
  <2>1. [Seen(call) EXCEPT !.phase = call'.phase] = Seen(call')
    BY <1>1, <1>2, Moved DEF OwnTypes
  <2> QED
    BY <1>2, <2>1
<1>4. G!ArmForStart(guard, call.prepared) = guard'
  BY <1>1, SameArming
<1>5. G!MayArm
  BY DEF G!MayArm, G!Below
<1> QED
  BY <1>1, <1>2, <1>3, <1>4, <1>5, Zenon DEF G!HandOver, Seen

LEMMA RetryWithoutRefines ==
    ASSUME G!TypeOK, OwnTypes, RetryWithout PROVE call' \in Calls /\ G!RetryWithout
<1>1. /\ call.phase = "starting" /\ call' = [call EXCEPT !.phase = "retrying", !.answer = None]
      /\ call.prepared.content \notin {"base", TorrentsOnly(Base)}
      /\ UNCHANGED <<guard, session, crashes>>
  BY DEF RetryWithout, MayRetry
<1>2. /\ call' \in Calls /\ call'.phase = "retrying" /\ call'.prepared = call.prepared
      /\ call'.off = call.off /\ call'.newSession = call.newSession /\ call'.shape = call.shape
  BY <1>1 DEF OwnTypes, Calls, Phases
<1>3. [Seen(call) EXCEPT !.phase = "retrying"] = Seen(call')
  <2> HIDE DEF Seen
  <2>1. [Seen(call) EXCEPT !.phase = call'.phase] = Seen(call')
    BY <1>1, <1>2, Moved DEF OwnTypes
  <2> QED
    BY <1>2, <2>1
<1>4. Seen(call).base = Base /\ G!TorrentsOnly(Base) = TorrentsOnly(Base)
  BY <1>1, SamePreparing DEF Seen
<1> QED
  BY <1>1, <1>2, <1>3, <1>4, Zenon DEF G!RetryWithout, Seen

\* The end of a start.
LEMMA EndsRunningRefines ==
    ASSUME OwnTypes, NEW g, NEW ran, EndsRunning(g, ran)
    PROVE  call' \in Calls /\ G!EndsRunning(g, ran)
<1>1. guard' = Started(g, call.off, ran) /\ call' = NoCall /\ UNCHANGED crashes
  BY DEF EndsRunning
<1>2. session'.selfChecks = IF ClaimsDnsCheck(g, ran) THEN session.selfChecks + 1
                            ELSE session.selfChecks
  BY DEF EndsRunning, OwnTypes, Sessions
<1>3. Started(g, call.off, ran) = G!Started(g, call.off, ran)
      /\ ClaimsDnsCheck(g, ran) = G!ClaimsDnsCheck(g, ran)
  BY SameArming
<1>4. Seen(call').phase = "idle" /\ Seen(call') = G!NoCall /\ call' \in Calls
  BY <1>1, NoCallType, SeenNothing DEF Seen
<1>5. guard' = G!Started(g, Seen(call).off, ran)
  BY <1>1, <1>3 DEF Seen
<1>6. session'.selfChecks = IF G!ClaimsDnsCheck(g, ran) THEN session.selfChecks + 1
                            ELSE session.selfChecks
  BY <1>2, <1>3
<1> QED
  BY <1>1, <1>4, <1>5, <1>6, Zenon DEF G!EndsRunning, Seen

LEMMA StartSucceedsRefines ==
    ASSUME OwnTypes, StartSucceeds PROVE call' \in Calls /\ G!StartSucceeds
BY EndsRunningRefines DEF StartSucceeds, G!StartSucceeds

LEMMA RetrySucceedsRefines ==
    ASSUME OwnTypes, RetrySucceeds PROVE call' \in Calls /\ G!RetrySucceeds
<1>1. RolledBack(guard) = G!RolledBack(guard) /\ SafetyOff(Base) = G!SafetyOff(Base)
  BY SameArming, SamePreparing
<1>2. call.phase = "retrying" /\ EndsRunning(RolledBack(guard), SafetyOff(Base))
  BY DEF RetrySucceeds
<1>3. call' \in Calls /\ G!EndsRunning(RolledBack(guard), SafetyOff(Base))
  BY <1>2, EndsRunningRefines
<1>4. Seen(call).phase = "retrying" /\ Seen(call).base = Base
  BY <1>2 DEF Seen
<1>5. G!EndsRunning(G!RolledBack(guard), G!SafetyOff(Seen(call).base))
  BY <1>1, <1>3, <1>4
<1> QED
  BY <1>3, <1>4, <1>5 DEF G!RetrySucceeds, Seen

LEMMA LoseRefines == ASSUME Lose PROVE G!Lose
BY SameArming DEF Lose, G!Lose

LEMMA StartKillsDaemonRefines ==
    ASSUME OwnTypes, StartKillsDaemon PROVE call' \in Calls /\ G!StartKillsDaemon
<1>1. call.phase = "starting" /\ Lose /\ call' = NoCall /\ UNCHANGED session
  BY DEF StartKillsDaemon
<1>2. G!Lose /\ Seen(call') = G!NoCall /\ Seen(call).phase = "starting" /\ call' \in Calls
  BY <1>1, LoseRefines, NoCallType, SeenNothing DEF Seen
<1> QED
  BY <1>1, <1>2 DEF G!StartKillsDaemon, Seen

LEMMA StartFailsRefines ==
    ASSUME OwnTypes, StartFails PROVE call' \in Calls /\ G!StartFails
<1>1. /\ call.phase \in {"starting", "retrying"} /\ guard' = OnStopped(guard)
      /\ call' = NoCall /\ UNCHANGED <<session, crashes>>
  BY DEF StartFails
<1>2. guard' = G!OnStopped(guard) /\ Seen(call') = G!NoCall /\ call' \in Calls
  BY <1>1, SameArming, NoCallType, SeenNothing
<1> QED
  BY <1>1, <1>2 DEF G!StartFails, Seen

\* An event that leaves the call alone: the daemon is lost, or has stopped, or it is
\* none of the guard's business.
LEMMA LoseStep ==
    ASSUME Lose, UNCHANGED call, session'.selfChecks = session.selfChecks
    PROVE  [G!Next]_(G!vars)
<1>1. CASE guard.armedHere
  <2>1. G!DaemonLost
    BY <1>1, LoseRefines DEF G!DaemonLost
  <2> QED
    BY <2>1 DEF G!Next
<1>2. CASE ~guard.armedHere
  <2>1. UNCHANGED <<guard, crashes>>
    BY <1>2 DEF Lose, OnDaemonLost
  <2> QED
    BY <2>1, Unseen
<1> QED
  BY <1>1, <1>2

LEMMA StopStep ==
    ASSUME guard' = OnStopped(guard), UNCHANGED crashes, Seen(call') = Seen(call),
           session'.selfChecks = session.selfChecks
    PROVE  [G!Next]_(G!vars)
<1>1. CASE guard.armedHere
  <2>1. guard' = G!OnStopped(guard)
    BY SameArming
  <2>2. G!Stopped
    BY <1>1, <2>1 DEF G!Stopped, Seen
  <2> QED
    BY <2>2 DEF G!Next
<1>2. CASE ~guard.armedHere
  <2>1. guard' = guard
    BY <1>2 DEF OnStopped, Disarm
  <2> QED
    BY <2>1 DEF G!vars, Seen
<1> QED
  BY <1>1, <1>2

LEMMA DeliverStep == ASSUME OwnTypes, Deliver PROVE [G!Next]_(G!vars)
<1>1. UNCHANGED call
  BY DEF Deliver
<1>2. CASE Head(conn.stream) = "END"
  <2>1. OnLost
    BY <1>2 DEF Deliver
  <2>2. CASE Lose
    BY <1>1, <2>1, <2>2, LoseStep DEF OnLost
  <2>3. CASE UNCHANGED <<guard, crashes>>
    BY <1>1, <2>1, <2>3, Unseen DEF OnLost
  <2> QED
    BY <2>1, <2>2, <2>3 DEF OnLost
<1>3. CASE Head(conn.stream) # "END"
  <2>1. OnStatus(Head(conn.stream))
    BY <1>3 DEF Deliver
  <2>2. session'.selfChecks = session.selfChecks
    BY <2>1 DEF OnStatus, OnServiceStarted, OwnTypes, Sessions
  <2>3. UNCHANGED crashes /\ (guard' = OnStopped(guard) \/ guard' = guard)
    BY <2>1 DEF OnStatus
  <2>4. CASE guard' = OnStopped(guard)
    BY <1>1, <2>2, <2>3, <2>4, StopStep
  <2>5. CASE guard' = guard
    BY <1>1, <2>2, <2>3, <2>5, Unseen
  <2> QED
    BY <2>3, <2>4, <2>5
<1> QED
  BY <1>2, <1>3

LEMMA StartedAtAnswerStep ==
    ASSUME OwnTypes, AskingInv, NEW recent \in BOOLEAN, StartedAtAnswer(recent)
    PROVE  [G!Next]_(G!vars)
<1>1. /\ session.asking /\ UNCHANGED <<call, crashes>>
      /\ session'.selfChecks = session.selfChecks
  BY DEF StartedAtAnswer, OwnTypes, Sessions
<1>2. CASE call.phase = "idle" /\ daemon.status = "STARTED"
  <2>1. guard' = G!OnRestored(guard, recent)
    BY <1>2, SameArming DEF StartedAtAnswer
  <2>2. ~guard.repairPending /\ G!MayArm
    BY <1>1 DEF AskingInv, G!MayArm, G!Below
  <2>3. G!Restored(recent)
    BY <1>1, <1>2, <2>1, <2>2 DEF G!Restored
  <2> QED
    BY <2>3 DEF G!Next
<1>3. CASE ~(call.phase = "idle" /\ daemon.status = "STARTED")
  <2>1. guard' = guard
    BY <1>3 DEF StartedAtAnswer
  <2> QED
    BY <1>1, <2>1, Unseen
<1> QED
  BY <1>2, <1>3

LEMMA SurvivalTimerStep == ASSUME OwnTypes, SurvivalTimer PROVE [G!Next]_(G!vars)
<1>1. PICK running \in BOOLEAN : running = ServiceRunning
  BY DEF ServiceRunning
<1>2. /\ guard.timer # None /\ UNCHANGED <<call, session>>
      /\ guard' = SurvivalCheck(guard, running)
      /\ crashes' = IF guard.armedHere /\ running /\ ~guard'.armedHere
                    THEN [crashes EXCEPT ![guard.build] = 0] ELSE crashes
  BY <1>1 DEF SurvivalTimer
<1>3. guard' = G!SurvivalCheck(guard, running)
  BY <1>2, SameArming
<1>4. G!SurvivalTimer(running)
  BY <1>2, <1>3 DEF G!SurvivalTimer
<1> QED
  BY <1>4 DEF G!Next

LEMMA SelfCheckEndsStep ==
    ASSUME G!TypeOK, OwnTypes, NEW fails \in BOOLEAN, SelfCheckEnds(fails)
    PROVE  [G!Next]_(G!vars)
<1>1. /\ UNCHANGED <<call, crashes>> /\ session.selfChecks > 0
      /\ session'.selfChecks = session.selfChecks - 1
  BY DEF SelfCheckEnds, Reloading, OwnTypes, Sessions
<1>2. guard' = [guard EXCEPT !.dnsRuFallback = @ \/ fails]
  <2>1. guard \in Guards
    BY TypeFacts
  <2>2. CASE fails
    <3>1. guard' = [guard EXCEPT !.dnsRuFallback = TRUE]
      BY <2>2 DEF SelfCheckEnds
    <3> QED
      BY <2>2, <3>1
  <2>3. CASE ~fails
    <3>1. guard' = guard
      BY <2>3 DEF SelfCheckEnds
    <3>2. guard.dnsRuFallback \/ fails <=> guard.dnsRuFallback
      BY <2>3
    <3>3. [guard EXCEPT !.dnsRuFallback = @ \/ fails] = guard
      BY <2>1, <3>2 DEF Guards
    <3> QED
      BY <3>1, <3>3
  <2> QED
    BY <2>2, <2>3
<1>3. G!SelfCheckEnds(fails)
  BY <1>1, <1>2 DEF G!SelfCheckEnds
<1> QED
  BY <1>3 DEF G!Next

LEMMA RequestStopStep == ASSUME OwnTypes, RequestStop PROVE [G!Next]_(G!vars)
<1>1. /\ guard' = OnStopped(guard) /\ UNCHANGED crashes
      /\ session'.selfChecks = session.selfChecks
  BY DEF RequestStop, OwnTypes, Sessions
<1>2. Seen(call') = Seen(call)
  BY DEF RequestStop, OwnTypes, Calls, Seen
<1> QED
  BY <1>1, <1>2, StopStep

LEMMA StartsStep ==
    ASSUME G!TypeOK, OwnTypes, Starts PROVE call' \in Calls /\ [G!Next]_(G!vars)
<1>1. CASE Skip
  <2>1. UNCHANGED <<guard, crashes, call>> /\ session'.selfChecks = session.selfChecks
    BY <1>1 DEF Skip, Taken, OwnTypes, Sessions
  <2> QED
    BY <2>1, Unseen DEF OwnTypes
<1>2. CASE Begin
  BY <1>2, BeginRefines, ServiceAssumption, SameSets DEF G!Next
<1>3. CASE Prepare
  <2>1. wanted \in OffReasons \cup {None}
    BY DEF OwnTypes
  <2> QED
    BY <1>3, <2>1, PrepareRefines DEF G!Next
<1>4. ASSUME NEW answer \in CheckAnswers, CheckAnswer(answer)
      PROVE  call' \in Calls /\ G!Next
  BY <1>4, CheckAnswerRefines, SameSets DEF G!Next
<1>5. CASE GiveUp
  BY <1>5, GiveUpRefines DEF G!Next
<1>6. CASE HandOver
  BY <1>6, HandOverRefines DEF G!Next
<1>7. CASE StartSucceeds
  BY <1>7, StartSucceedsRefines DEF G!Next
<1>8. CASE StartKillsDaemon
  BY <1>8, StartKillsDaemonRefines DEF G!Next
<1>9. CASE RetryWithout
  BY <1>9, RetryWithoutRefines DEF G!Next
<1>10. CASE StartFails
  BY <1>10, StartFailsRefines DEF G!Next
<1>11. CASE RetrySucceeds
  BY <1>11, RetrySucceedsRefines DEF G!Next
<1> QED
  BY <1>1, <1>2, <1>3, <1>4, <1>5, <1>6, <1>7, <1>8, <1>9, <1>10, <1>11 DEF Starts

\* The daemon answers, goes and comes.
LEMMA DaemonCall ==
    ASSUME OwnTypes,
           \/ Taking \/ DaemonReturns \/ DaemonStops \/ OtherTakesOver
           \/ \E taking \in BOOLEAN : DaemonCrashes(taking)
    PROVE  /\ call' \in Calls /\ UNCHANGED <<guard, crashes, queue, wanted>>
           /\ call'.phase = call.phase /\ call'.off = call.off /\ call'.shape = call.shape
           /\ call'.newSession = call.newSession /\ call'.prepared = call.prepared
           /\ session'.selfChecks = session.selfChecks
<1> USE DEF OwnTypes, Sessions, Calls, Answers, Answer
<1>1. CASE DaemonRefuses
  BY <1>1 DEF DaemonRefuses
<1>2. CASE DaemonStarts
  BY <1>2 DEF DaemonStarts
<1>3. ASSUME NEW taking \in BOOLEAN, DaemonCrashes(taking)
      PROVE  call' \in Calls /\ UNCHANGED <<guard, crashes, queue, wanted>>
           /\ call'.phase = call.phase /\ call'.off = call.off /\ call'.shape = call.shape
           /\ call'.newSession = call.newSession /\ call'.prepared = call.prepared
           /\ session'.selfChecks = session.selfChecks
  BY <1>3 DEF DaemonCrashes
<1>4. CASE DaemonReturns
  BY <1>4 DEF DaemonReturns
<1>5. CASE DaemonStops
  BY <1>5 DEF DaemonStops
<1>6. CASE OtherTakesOver
  BY <1>6 DEF OtherTakesOver
<1> QED
  BY <1>1, <1>2, <1>3, <1>4, <1>5, <1>6 DEF Taking

\* Every step of ServiceStart is one of CrashGuard or changes nothing it has.
LEMMA GuardStep ==
    ASSUME G!TypeOK, OwnTypes, AskingInv, [Next]_vars
    PROVE  call' \in Calls /\ [G!Next]_(G!vars)
<1>1. CASE Starts
  BY <1>1, StartsStep
<1>2. CASE Watching
  <2>1. call' = call
    BY <1>2 DEF Watching, Deliver, Reconnect, SurvivalTimer, StartedAtAnswer
  <2>2. ASSUME Reconnect PROVE [G!Next]_(G!vars)
    BY <2>2, Unseen DEF Reconnect
  <2>3. ASSUME NEW recent \in BOOLEAN, StartedAtAnswer(recent) PROVE [G!Next]_(G!vars)
    BY <2>3, StartedAtAnswerStep
  <2>4. [G!Next]_(G!vars)
    <3> HIDE DEF OwnTypes
    <3> QED
      BY <1>2, <2>2, <2>3, DeliverStep, SurvivalTimerStep DEF Watching
  <2> QED
    BY <2>1, <2>4 DEF OwnTypes
<1>3. CASE \/ Taking \/ DaemonReturns \/ DaemonStops \/ OtherTakesOver
           \/ \E taking \in BOOLEAN : DaemonCrashes(taking)
  BY <1>3, DaemonCall, Unseen
<1>4. CASE Connect \/ Refresh \/ SwitchSetting \/ TakeOverService
  <2>1. UNCHANGED <<guard, crashes, call>> /\ session'.selfChecks = session.selfChecks
    BY <1>4 DEF Connect, Refresh, SwitchSetting, TakeOverService, Ask, Reloading, OwnTypes,
       Sessions
  <2> QED
    BY <2>1, Unseen DEF OwnTypes
<1>5. CASE RequestStop
  <2>1. call' \in Calls
    <3> DEFINE stopped == call.phase \in {"starting", "retrying"}
    <3>1. call' = call \/ call' = [call EXCEPT !.stopped = stopped]
      BY <1>5 DEF RequestStop
    <3>2. stopped \in BOOLEAN
      OBVIOUS
    <3> HIDE DEF stopped
    <3> QED
      BY <3>1, <3>2 DEF OwnTypes, Calls
  <2> QED
    BY <1>5, <2>1, RequestStopStep
<1>6. ASSUME NEW fails \in BOOLEAN, SelfCheckEnds(fails)
      PROVE  call' \in Calls /\ [G!Next]_(G!vars)
  BY <1>6, SelfCheckEndsStep DEF SelfCheckEnds, OwnTypes
<1>7. CASE UNCHANGED vars
  BY <1>7, Unseen DEF vars, OwnTypes
<1>8. ASSUME NEW taking \in BOOLEAN, DaemonCrashes(taking)
      PROVE  call' \in Calls /\ [G!Next]_(G!vars)
  BY <1>3, <1>8
<1> DEFINE done == call' \in Calls /\ [G!Next]_(G!vars)
<1>9. done
  <2> HIDE DEF done
  <2>1. Starts \/ Watching \/ Taking \/ DaemonReturns \/ DaemonStops \/ OtherTakesOver
        \/ Connect \/ Refresh \/ SwitchSetting \/ TakeOverService \/ RequestStop
        \/ UNCHANGED vars => done
    BY <1>1, <1>2, <1>3, <1>4, <1>5, <1>7, Zenon DEF done
  <2>2. (\E fails \in BOOLEAN : SelfCheckEnds(fails)) => done
    BY <1>6, Zenon DEF done
  <2>3. (\E taking \in BOOLEAN : DaemonCrashes(taking)) => done
    BY <1>8, Zenon DEF done
  <2> QED
    BY <2>1, <2>2, <2>3, Zenon DEF Next
<1> QED
  BY <1>9

-----------------------------------------------------------------------------
(* The invariant. *)

LEMMA PushedType ==
    ASSUME conn \in Conns, NEW s \in Seq(Statuses \cup {"END"})
    PROVE  /\ Pushed(s) \in Conns
           /\ Pushed(s).phase = conn.phase /\ Pushed(s).seen = conn.seen
           /\ Pushed(s).streaming = conn.streaming
           /\ Pushed(s).stream = IF StreamOpen THEN conn.stream \o s ELSE conn.stream
<1>1. conn.stream \in Seq(Statuses \cup {"END"})
  BY DEF Conns
<1>2. conn.stream \o s \in Seq(Statuses \cup {"END"})
  BY <1>1
<1> QED
  BY <1>2 DEF Pushed, Conns

LEMMA PushedStatuses ==
    /\ <<"STARTING", "FATAL">> \in Seq(Statuses \cup {"END"})
    /\ <<"STARTING", "STARTED">> \in Seq(Statuses \cup {"END"})
    /\ <<"IDLE">> \in Seq(Statuses \cup {"END"})
    /\ <<"END">> \in Seq(Statuses \cup {"END"})
    /\ Clear(<<"STARTING", "FATAL">>) /\ Clear(<<"STARTING", "STARTED">>) /\ Clear(<<"IDLE">>)
    /\ ~Clear(<<"END">>)
BY DEF Statuses, Clear

LEMMA SpendType ==
    ASSUME budget \in [Events -> Nat], NEW event \in Events, Spend(event)
    PROVE  budget' \in [Events -> Nat]
BY DEF Spend

\* A due repair stays due until a start or the end of the session.
LEMMA RepairsKept ==
    ASSUME NEW g \in Guards
    PROVE  /\ NewSession(g).repairPending = g.repairPending
           /\ Admit(g).repairPending = g.repairPending
           /\ \A shape, answer : CheckAnswered(g, shape, answer).repairPending = g.repairPending
           /\ \A p : ArmForStart(g, p).repairPending = g.repairPending
           /\ OnStopped(g).repairPending = g.repairPending
           /\ \A off, ran : Started(g, off, ran).repairPending = g.repairPending
           /\ \A recent : OnRestored(g, recent).repairPending = g.repairPending
           /\ \A running : SurvivalCheck(g, running).repairPending = g.repairPending
<1> USE DEF Guards
<1>1. NewSession(g).repairPending = g.repairPending
  BY DEF NewSession
<1>2. Admit(g).repairPending = g.repairPending
  BY DEF Admit
<1>3. ASSUME NEW shape, NEW answer
      PROVE  CheckAnswered(g, shape, answer).repairPending = g.repairPending
  BY DEF CheckAnswered
<1>4. ASSUME NEW p PROVE ArmForStart(g, p).repairPending = g.repairPending
  BY DEF ArmForStart
<1>5. OnStopped(g).repairPending = g.repairPending
  BY DEF OnStopped, Disarm
<1>6. ASSUME NEW off, NEW ran PROVE Started(g, off, ran).repairPending = g.repairPending
  <2>1. RecordApplied(g, off, ran).repairPending = g.repairPending
    BY DEF RecordApplied
  <2> QED
    BY <2>1 DEF Started, ClaimDnsCheck, OnRunning, StartSurvivalTimer, RecordApplied
<1>7. ASSUME NEW recent PROVE OnRestored(g, recent).repairPending = g.repairPending
  BY DEF OnRestored, StartSurvivalTimer
<1>8. ASSUME NEW running PROVE SurvivalCheck(g, running).repairPending = g.repairPending
  BY DEF SurvivalCheck, Disarm
<1> QED
  BY <1>1, <1>2, <1>3, <1>4, <1>5, <1>6, <1>7, <1>8

LEMMA RolledBackRepair ==
    ASSUME NEW g \in Guards
    PROVE  RolledBack(g) \in Guards /\ RolledBack(g).repairPending = FALSE
<1>1. RolledBack(g) \in Guards
  BY G!RolledBackType, GuardAssumptions, SameSets, SameArming
<1>2. RolledBack(g).repairPending = FALSE
  BY DEF RolledBack, Disarm, Guards
<1> QED
  BY <1>1, <1>2

\* The chain is left alone, or its first operation is taken out.
Advanced(q, r) == r = q \/ (q # <<>> /\ r = Tail(q))

\* The steps of a start: the daemon and the status stream are not touched.
StartKeeps ==
    /\ UNCHANGED <<wanted, conn, daemon>>
    /\ Advanced(queue, queue')
    /\ session' \in Sessions /\ session'.asking = session.asking
    /\ call'.answer \in {call.answer, None}
    /\ budget' = budget \/ Spend("give up")
    /\ guard'.repairPending => guard.repairPending \/ call.answer = "reset"

LEMMA StartsKeep == ASSUME ServiceInv, Starts PROVE StartKeeps
<1>0. /\ call \in Calls /\ session \in Sessions /\ session.selfChecks + 1 \in Nat
      /\ guard \in Guards
  BY TypeFacts DEF ServiceInv, OwnTypes, Sessions
<1> USE DEF StartKeeps, Advanced
<1>1. CASE Skip
  BY <1>0, <1>1 DEF Skip, Taken, Sessions, Calls, Guards
<1>2. CASE Begin
  BY <1>0, <1>2 DEF Begin, Taken, Sessions, NoCall, Calls, Guards
<1>3. CASE Prepare
  <2> DEFINE g == IF call.newSession THEN NewSession(guard) ELSE guard
  <2>1. g \in Guards /\ g.repairPending = guard.repairPending
    BY <1>0, MethodTypes, RepairsKept
  <2>2. guard' = Admit(g)
    BY <1>3 DEF Prepare
  <2>3. guard'.repairPending = guard.repairPending
    <3> HIDE DEF g
    <3> QED
      BY <2>1, <2>2, RepairsKept
  <2>4. UNCHANGED <<wanted, conn, daemon, queue, session, budget>>
        /\ call'.answer = call.answer
    BY <1>0, <1>3 DEF Prepare, Calls
  <2> QED
    BY <1>0, <2>3, <2>4
<1>4. ASSUME NEW answer \in CheckAnswers, CheckAnswer(answer) PROVE StartKeeps
  <2>1. guard'.repairPending = guard.repairPending
    BY <1>0, <1>4, RepairsKept DEF CheckAnswer
  <2> QED
    BY <1>0, <1>4, <2>1 DEF CheckAnswer, Calls
<1>5. CASE GiveUp
  BY <1>0, <1>5 DEF GiveUp, NoCall, Calls, Guards
<1>6. CASE HandOver
  <2>1. guard'.repairPending = guard.repairPending
    BY <1>0, <1>6, RepairsKept DEF HandOver
  <2> QED
    BY <1>0, <1>6, <2>1 DEF HandOver, Calls
<1>7. CASE StartSucceeds
  <2>1. guard'.repairPending = guard.repairPending
    BY <1>0, <1>7, RepairsKept DEF StartSucceeds, EndsRunning
  <2> QED
    BY <1>0, <1>7, <2>1 DEF StartSucceeds, EndsRunning, NoCall, Sessions, Calls
<1>8. CASE StartKillsDaemon
  BY <1>0, <1>8 DEF StartKillsDaemon, DiedDuringCall, NoCall, Lose
<1>9. CASE RetryWithout
  BY <1>0, <1>9 DEF RetryWithout, Calls, Guards
<1>10. CASE StartFails
  <2>1. guard'.repairPending = guard.repairPending
    BY <1>0, <1>10, RepairsKept DEF StartFails
  <2> QED
    BY <1>0, <1>10, <2>1 DEF StartFails, NoCall, Calls
<1>11. CASE RetrySucceeds
  <2>1. RolledBack(guard) \in Guards /\ ~RolledBack(guard).repairPending
    BY <1>0, RolledBackRepair
  <2>2. guard' = Started(RolledBack(guard), call.off, SafetyOff(Base))
    BY <1>11 DEF RetrySucceeds, EndsRunning
  <2>3. ~guard'.repairPending
    BY <2>1, <2>2, RepairsKept
  <2> QED
    BY <1>0, <1>11, <2>3 DEF RetrySucceeds, EndsRunning, NoCall, Sessions
<1> HIDE DEF StartKeeps
<1> QED
  BY <1>1, <1>2, <1>3, <1>4, <1>5, <1>6, <1>7, <1>8, <1>9, <1>10, <1>11 DEF Starts

LEMMA StartsOwn ==
    ASSUME ServiceInv, Starts PROVE OwnTypes' /\ StreamInv' /\ AskingInv'
<1>1. call' \in Calls /\ StartKeeps
  BY StartsStep, StartsKeep DEF ServiceInv
<1>2. queue' \in Seq(Kinds)
  <2>1. queue \in Seq(Kinds) /\ (queue' = queue \/ (queue # <<>> /\ queue' = Tail(queue)))
    BY <1>1 DEF ServiceInv, OwnTypes, StartKeeps, Advanced
  <2>2. CASE queue # <<>> /\ queue' = Tail(queue)
    BY <2>1, <2>2
  <2> QED
    BY <2>1, <2>2
<1>3. budget' \in [Events -> Nat]
  BY <1>1, SpendType DEF ServiceInv, OwnTypes, Events, StartKeeps
<1>4. OwnTypes'
  BY <1>1, <1>2, <1>3 DEF ServiceInv, OwnTypes, StartKeeps
<1>5. StreamInv'
  BY <1>1, NothingAssumption DEF ServiceInv, StreamInv, StreamOpen, Reachable, StartKeeps,
     Answers
<1>6. AskingInv'
  BY <1>1 DEF ServiceInv, StreamInv, AskingInv, Reachable, StartKeeps
<1> QED
  BY <1>4, <1>5, <1>6

LEMMA StreamStays ==
    ASSUME StreamInv, UNCHANGED <<conn, daemon>>, call'.answer = call.answer PROVE StreamInv'
BY DEF StreamInv, StreamOpen, Reachable

\* A run of the service that has just been seen.
LEMMA OnServiceStartedOwn ==
    ASSUME OwnTypes, OnServiceStarted
    PROVE  /\ session' \in Sessions
           /\ queue' \in {queue, Append(queue, "repair"), Append(queue, "update")}
           /\ guard.repairPending => queue' = Append(queue, "repair")
           /\ session'.asking => session.asking \/ (Reachable /\ ~guard.repairPending)
           /\ session'.reloadQueued = session.reloadQueued
<1>1. (daemon.up /\ daemon.ours) \in BOOLEAN
  BY DEF OwnTypes, Daemons
<1>2. session' = session \/ session' = [session EXCEPT !.asking = daemon.up /\ daemon.ours,
                                                        !.firstSeen = TRUE]
  BY DEF OnServiceStarted
<1>3. session' \in Sessions
  BY <1>1, <1>2 DEF OwnTypes, Sessions
<1>4. session'.reloadQueued = session.reloadQueued
  BY <1>2 DEF OwnTypes, Sessions
<1>5. session'.asking => session.asking \/ (Reachable /\ ~guard.repairPending)
  <2>1. CASE guard.repairPending
    BY <2>1 DEF OnServiceStarted
  <2>2. CASE ~guard.repairPending
    BY <1>2, <2>2 DEF Reachable, OwnTypes, Sessions
  <2> QED
    BY <2>1, <2>2
<1>6. /\ queue' \in {queue, Append(queue, "repair"), Append(queue, "update")}
      /\ guard.repairPending => queue' = Append(queue, "repair")
  BY DEF OnServiceStarted
<1> QED
  BY <1>3, <1>4, <1>5, <1>6

LEMMA DeliverOwn ==
    ASSUME ServiceInv, Deliver PROVE OwnTypes' /\ StreamInv' /\ AskingInv'
<1>0. /\ OwnTypes /\ StreamInv /\ AskingInv /\ conn \in Conns /\ queue \in Seq(Kinds)
      /\ conn.stream \in Seq(Statuses \cup {"END"}) /\ conn.stream # <<>> /\ conn.streaming
      /\ guard \in Guards
  BY TypeFacts DEF ServiceInv, OwnTypes, Conns, Deliver, StreamInv
<1>1. UNCHANGED <<call, wanted, daemon, budget>>
  BY DEF Deliver
<1>2. /\ Tail(conn.stream) \in Seq(Statuses \cup {"END"})
      /\ Head(conn.stream) \in Statuses \cup {"END"}
      /\ Head(conn.stream) # "END" => (Clear(Tail(conn.stream)) <=> Clear(conn.stream))
      /\ Head(conn.stream) = "END" => ~Clear(conn.stream)
  BY <1>0, ClearTail
<1>3. CASE Head(conn.stream) = "END"
  <2>1. /\ conn' = [conn EXCEPT !.seen = None, !.streaming = FALSE, !.stream = <<>>]
        /\ UNCHANGED <<queue, session>>
    BY <1>3 DEF Deliver, OnLost
  <2>2. conn' \in Conns /\ conn'.seen = None /\ ~conn'.streaming /\ conn'.stream = <<>>
    <3>1. <<>> \in Seq(Statuses \cup {"END"})
      OBVIOUS
    <3> QED
      BY <1>0, <2>1, <3>1 DEF Conns
  <2>3. ~Reachable /\ ~session.asking
    BY <1>0, <1>2, <1>3 DEF StreamInv, StreamOpen, Clear, AskingInv
  <2>4. OwnTypes'
    BY <1>0, <1>1, <2>1, <2>2 DEF OwnTypes
  <2>5. StreamInv'
    BY <1>0, <1>1, <2>2 DEF StreamInv
  <2> QED
    BY <2>1, <2>3, <2>4, <2>5 DEF AskingInv
<1>4. CASE Head(conn.stream) # "END"
  <2> DEFINE status == Head(conn.stream)
  <2>1. OnStatus(status) /\ status \in Statuses
    BY <1>2, <1>4 DEF Deliver
  <2>2. conn' = [conn EXCEPT !.seen = status, !.stream = Tail(@)]
    BY <2>1 DEF OnStatus
  <2>3. /\ conn' \in Conns /\ conn'.stream = Tail(conn.stream)
        /\ conn'.streaming = conn.streaming
        /\ conn'.phase = conn.phase /\ conn'.seen = status
    <3> HIDE DEF status
    <3> QED
      BY <1>0, <1>2, <2>1, <2>2 DEF Conns
  <2>4. /\ session' \in Sessions /\ queue' \in Seq(Kinds)
        /\ session'.asking => session.asking \/ (Reachable /\ ~guard.repairPending)
    <3>1. CASE OnServiceStarted
      <4>1. Append(queue, "repair") \in Seq(Kinds) /\ Append(queue, "update") \in Seq(Kinds)
        BY <1>0 DEF Kinds
      <4> QED
        BY <1>0, <3>1, <4>1, OnServiceStartedOwn
    <3>2. CASE UNCHANGED <<queue, session>>
      BY <1>0, <3>2 DEF OwnTypes
    <3> QED
      BY <2>1, <3>1, <3>2 DEF OnStatus
  <2>5. guard'.repairPending = guard.repairPending
    BY <1>0, <2>1, RepairsKept DEF OnStatus
  <2>6. OwnTypes'
    BY <1>0, <1>1, <2>3, <2>4 DEF OwnTypes
  <2>7. StreamInv'
    <3>1. StreamOpen' <=> StreamOpen
      BY <1>0, <1>2, <1>4, <2>3 DEF StreamOpen, Clear
    <3> QED
      BY <1>0, <1>1, <2>3, <3>1 DEF StreamInv, Reachable
  <2>8. AskingInv'
    BY <1>0, <1>1, <2>4, <2>5 DEF AskingInv, Reachable
  <2> QED
    BY <2>6, <2>7, <2>8
<1> QED
  BY <1>3, <1>4

LEMMA WatchingOwn ==
    ASSUME ServiceInv, Watching PROVE OwnTypes' /\ StreamInv' /\ AskingInv'
<1>0. OwnTypes /\ StreamInv /\ AskingInv /\ conn \in Conns /\ guard \in Guards
      /\ session \in Sessions
  BY TypeFacts DEF ServiceInv, OwnTypes
<1>1. CASE Deliver
  BY <1>1, DeliverOwn
<1>2. CASE Reconnect
  <2>1. /\ ~conn.streaming /\ conn.stream = <<>> /\ conn.seen = None
        /\ UNCHANGED <<guard, queue, call, session, wanted, daemon, crashes, budget>>
    BY <1>0, <1>2 DEF Reconnect, StreamInv
  <2>2. CASE ~daemon.up \/ ~daemon.ours
    <3>1. /\ conn' \in Conns /\ conn'.stream = conn.stream /\ conn'.seen = conn.seen
          /\ conn'.streaming = conn.streaming
      BY <1>0, <1>2, <2>2 DEF Reconnect, Conns, Links
    <3> QED
      BY <1>0, <2>1, <3>1 DEF OwnTypes, StreamInv, AskingInv, Reachable
  <2>3. CASE daemon.up /\ daemon.ours
    <3>1. <<daemon.status>> \in Seq(Statuses \cup {"END"}) /\ Clear(<<daemon.status>>)
      BY <1>0 DEF OwnTypes, Daemons, Statuses, Clear
    <3>2. /\ conn' \in Conns /\ conn'.stream = <<daemon.status>> /\ conn'.streaming
          /\ conn'.phase = "connected"
      BY <1>0, <1>2, <2>3, <3>1 DEF Reconnect, Conns, Links
    <3>3. StreamOpen' /\ Reachable'
      BY <2>1, <2>3, <3>1, <3>2 DEF StreamOpen, Clear, Reachable
    <3> QED
      BY <1>0, <2>1, <3>2, <3>3 DEF OwnTypes, StreamInv, AskingInv, Reachable
  <2> QED
    BY <2>2, <2>3
<1>3. CASE SurvivalTimer
  <2>1. /\ UNCHANGED <<queue, call, session, wanted, conn, daemon, budget>>
        /\ guard'.repairPending = guard.repairPending
    BY <1>0, <1>3, RepairsKept DEF SurvivalTimer
  <2> QED
    BY <1>0, <2>1, StreamStays DEF OwnTypes, AskingInv, Reachable
<1>4. ASSUME NEW recent \in BOOLEAN, StartedAtAnswer(recent)
      PROVE  OwnTypes' /\ StreamInv' /\ AskingInv'
  <2>1. /\ UNCHANGED <<queue, call, wanted, conn, daemon, budget>>
        /\ session' \in Sessions /\ ~session'.asking
    BY <1>0, <1>4 DEF StartedAtAnswer, Sessions
  <2> QED
    BY <1>0, <2>1, StreamStays DEF OwnTypes, AskingInv
<1> QED
  BY <1>1, <1>2, <1>3, <1>4 DEF Watching

\* What the daemon says on the stream, while it is there.
LEMMA Pushing ==
    ASSUME OwnTypes, StreamInv, Reachable, NEW s \in Seq(Statuses \cup {"END"}), Clear(s),
           conn' = Pushed(s), call'.answer # "reset",
           daemon'.up = daemon.up, daemon'.ours = daemon.ours
    PROVE  conn' \in Conns /\ StreamInv'
<1>1. /\ conn' \in Conns /\ conn'.phase = conn.phase /\ conn'.seen = conn.seen
      /\ conn'.streaming = conn.streaming
      /\ conn'.stream = IF StreamOpen THEN conn.stream \o s ELSE conn.stream
      /\ conn.stream \in Seq(Statuses \cup {"END"})
  BY PushedType DEF OwnTypes, Conns
<1>2. Clear(conn.stream \o s) <=> Clear(conn.stream)
  BY <1>1, ClearConcat
<1>3. StreamOpen' <=> StreamOpen
  BY <1>1, <1>2 DEF StreamOpen, Clear
<1>4. ~conn.streaming => ~StreamOpen
  BY DEF StreamOpen
<1> QED
  BY <1>1, <1>3, <1>4 DEF StreamInv, Reachable

LEMMA PushEnd ==
    ASSUME OwnTypes, StreamInv, conn' = Pushed(<<"END">>), ~Reachable',
           call'.answer = "reset" => ~daemon'.up
    PROVE  conn' \in Conns /\ StreamInv'
<1>1. /\ conn' \in Conns /\ conn'.phase = conn.phase /\ conn'.seen = conn.seen
      /\ conn'.streaming = conn.streaming
      /\ conn'.stream = IF StreamOpen THEN conn.stream \o <<"END">> ELSE conn.stream
      /\ conn.stream \in Seq(Statuses \cup {"END"})
  BY PushedType, PushedStatuses DEF OwnTypes, Conns
<1>2. ~Clear(conn.stream \o <<"END">>)
  BY <1>1, ClearConcat, PushedStatuses
<1>3. ~StreamOpen'
  BY <1>1, <1>2 DEF StreamOpen, Clear
<1>4. ~conn.streaming => ~StreamOpen
  BY DEF StreamOpen
<1> QED
  BY <1>1, <1>3, <1>4 DEF StreamInv

LEMMA DaemonOwn ==
    ASSUME ServiceInv,
           \/ Taking \/ DaemonReturns \/ DaemonStops \/ OtherTakesOver
           \/ \E taking \in BOOLEAN : DaemonCrashes(taking)
    PROVE  OwnTypes' /\ StreamInv' /\ AskingInv'
<1>0. /\ OwnTypes /\ StreamInv /\ AskingInv /\ session \in Sessions /\ daemon \in Daemons
      /\ call' \in Calls /\ UNCHANGED <<guard, queue, wanted>> /\ call \in Calls
  BY DaemonCall DEF ServiceInv, OwnTypes
<1>1. Contents \subseteq Contents \cup {None} /\ None \in Contents \cup {None}
  OBVIOUS
<1>2. InFlight => Asking \in Contents
  <2>1. call.phase = "starting" => call.prepared.content \in Contents
    BY TypeFacts DEF ServiceInv, Prepareds
  <2>2. TorrentsOnly(Base) \in Contents
    BY DEF TorrentsOnly, Contents
  <2> QED
    BY <2>1, <2>2 DEF Asking
<1>3. CASE DaemonRefuses
  <2>1. UNCHANGED <<guard, queue, session, wanted, crashes, budget>>
    BY <1>3 DEF DaemonRefuses
  <2>2. CASE Reachable
    <3>1. /\ daemon' \in Daemons /\ daemon'.up = daemon.up /\ daemon'.ours = daemon.ours
          /\ call'.answer = "refused" /\ conn' = Pushed(<<"STARTING", "FATAL">>)
      BY <1>0, <1>1, <1>3, <2>2 DEF DaemonRefuses, Reachable, Daemons, Statuses, Answer, Calls
    <3>2. call.answer # "reset"
      BY <1>0, <2>2 DEF StreamInv, Reachable
    <3>3. conn' \in Conns /\ StreamInv'
      BY <1>0, <2>2, <3>1, <3>2, PushedStatuses, Pushing DEF Reachable
    <3> QED
      BY <1>0, <2>1, <3>1, <3>3 DEF OwnTypes, AskingInv, Reachable
  <2>3. CASE ~Reachable
    <3>1. UNCHANGED <<daemon, conn>> /\ call'.answer # "reset"
      BY <1>0, <1>3, <2>3 DEF DaemonRefuses, Reachable, Answer, Calls
    <3> QED
      BY <1>0, <2>1, <3>1 DEF OwnTypes, AskingInv, StreamInv, StreamOpen, Reachable
  <2> QED
    BY <2>2, <2>3
<1>4. CASE DaemonStarts
  <2>1. /\ UNCHANGED <<guard, queue, session, wanted, crashes, budget>> /\ Reachable
        /\ conn' = Pushed(<<"STARTING", "STARTED">>)
    BY <1>4 DEF DaemonStarts, Reachable
  <2>2. /\ daemon' \in Daemons /\ daemon'.up = daemon.up /\ daemon'.ours = daemon.ours
        /\ call'.answer = "ok"
    <3> HIDE DEF Asking
    <3> QED
      BY <1>0, <1>1, <1>2, <1>4 DEF DaemonStarts, Daemons, Statuses, Answer, Calls
  <2>3. conn' \in Conns /\ StreamInv'
    BY <1>0, <2>1, <2>2, PushedStatuses, Pushing DEF Reachable
  <2> QED
    BY <1>0, <2>1, <2>2, <2>3 DEF OwnTypes, AskingInv, Reachable
<1>5. ASSUME NEW taking \in BOOLEAN, DaemonCrashes(taking)
      PROVE  OwnTypes' /\ StreamInv' /\ AskingInv'
  <2>1. /\ budget' \in [Events -> Nat] /\ conn' = Pushed(<<"END">>)
        /\ session' \in Sessions /\ ~session'.asking
    <3>1. Spend("crash") /\ "crash" \in Events
      BY <1>5 DEF DaemonCrashes, Events
    <3> QED
      BY <1>0, <1>5, <3>1, SpendType DEF DaemonCrashes, OwnTypes, Sessions
  <2>2. daemon' \in Daemons /\ ~daemon'.up
    <3>1. daemon' = [daemon EXCEPT !.up = FALSE,
                                   !.status = IF taking THEN "STARTED" ELSE @,
                                   !.content = IF taking THEN Asking ELSE @]
          /\ (taking => InFlight)
      BY <1>5 DEF DaemonCrashes
    <3> HIDE DEF Asking, InFlight
    <3>2. CASE taking
      BY <1>0, <1>1, <1>2, <3>1, <3>2 DEF Daemons, Statuses
    <3>3. CASE ~taking
      BY <1>0, <3>1, <3>3 DEF Daemons
    <3> QED
      BY <3>2, <3>3
  <2>3. conn' \in Conns /\ StreamInv'
    BY <1>0, <2>1, <2>2, PushEnd DEF Reachable
  <2> QED
    BY <1>0, <2>1, <2>2, <2>3 DEF OwnTypes, AskingInv
<1>6. CASE DaemonReturns
  <2>1. /\ UNCHANGED <<session, conn, budget>> /\ ~conn.streaming /\ call' = call
        /\ call.answer # "reset" /\ ~daemon.up
    BY <1>6 DEF DaemonReturns
  <2>2. daemon' \in Daemons
    BY <1>0, <1>6 DEF DaemonReturns, Daemons, Statuses
  <2> QED
    BY <1>0, <2>1, <2>2 DEF OwnTypes, AskingInv, StreamInv, Reachable
<1>7. CASE DaemonStops
  <2>1. /\ UNCHANGED <<call, budget>> /\ session' \in Sessions
        /\ session'.asking = session.asking
    BY <1>0, <1>7 DEF DaemonStops, Sessions
  <2>2. CASE Reachable /\ daemon.status = "STARTED"
    <3>1. /\ daemon' \in Daemons /\ daemon'.up = daemon.up /\ daemon'.ours = daemon.ours
          /\ conn' = Pushed(<<"IDLE">>)
      BY <1>0, <1>1, <1>7, <2>2 DEF DaemonStops, Reachable, Daemons, Statuses
    <3>2. conn' \in Conns /\ StreamInv'
      BY <1>0, <2>1, <2>2, <3>1, PushedStatuses, Pushing DEF Reachable, StreamInv
    <3> QED
      BY <1>0, <2>1, <3>1, <3>2 DEF OwnTypes, AskingInv, Reachable
  <2>3. CASE ~(Reachable /\ daemon.status = "STARTED")
    <3>1. UNCHANGED <<daemon, conn>>
      BY <1>7, <2>3 DEF DaemonStops, Reachable
    <3> QED
      BY <1>0, <2>1, <3>1, StreamStays DEF OwnTypes, AskingInv, Reachable
  <2> QED
    BY <2>2, <2>3
<1>8. CASE OtherTakesOver
  <2>1. /\ budget' \in [Events -> Nat] /\ conn' = Pushed(<<"END">>) /\ call' = call
        /\ session' \in Sessions /\ ~session'.asking
    <3>1. Spend("takeover") /\ "takeover" \in Events
      BY <1>8 DEF OtherTakesOver, Events
    <3> QED
      BY <1>0, <1>8, <3>1, SpendType DEF OtherTakesOver, OwnTypes, Sessions
  <2>2. daemon' \in Daemons /\ ~daemon'.ours /\ call.answer # "reset"
    BY <1>0, <1>8 DEF OtherTakesOver, Daemons, StreamInv
  <2>3. conn' \in Conns /\ StreamInv'
    BY <1>0, <2>1, <2>2, PushEnd DEF Reachable
  <2> QED
    BY <1>0, <2>1, <2>2, <2>3 DEF OwnTypes, AskingInv
<1>9. DaemonRefuses \/ DaemonStarts => OwnTypes' /\ StreamInv' /\ AskingInv'
  BY <1>3, <1>4
<1> QED
  BY <1>5, <1>6, <1>7, <1>8, <1>9 DEF Taking

LEMMA WithReloadType ==
    ASSUME queue \in Seq(Kinds), session \in Sessions
    PROVE  /\ WithReload \in Seq(Kinds)
           /\ \A s \in Sessions : Reloading(s) \in Sessions /\ Reloading(s).asking = s.asking
<1>1. Append(queue, "reload") \in Seq(Kinds)
  BY DEF Kinds
<1>2. ASSUME NEW s \in Sessions
      PROVE  Reloading(s) \in Sessions /\ Reloading(s).asking = s.asking
  BY DEF Reloading, Sessions
<1> QED
  BY <1>1, <1>2 DEF WithReload

LEMMA AskedOwn ==
    ASSUME ServiceInv,
           \/ Connect \/ Refresh \/ SwitchSetting \/ RequestStop \/ TakeOverService
           \/ \E fails \in BOOLEAN : SelfCheckEnds(fails)
    PROVE  OwnTypes' /\ StreamInv' /\ AskingInv'
<1>0. /\ OwnTypes /\ StreamInv /\ AskingInv /\ guard \in Guards /\ session \in Sessions
      /\ queue \in Seq(Kinds) /\ daemon \in Daemons
  BY TypeFacts DEF ServiceInv, OwnTypes
<1>1. CASE Connect \/ Refresh
  <2>1. budget' \in [Events -> Nat]
    BY <1>0, <1>1, SpendType DEF Connect, Refresh, OwnTypes, Events
  <2>2. /\ UNCHANGED <<guard, call, wanted, conn, daemon>> /\ queue' \in Seq(Kinds)
        /\ session' \in Sessions /\ session'.asking = session.asking
    <3>1. PICK kind \in Kinds : Ask(kind)
      BY <1>1 DEF Connect, Refresh, Kinds
    <3>2. Append(queue, kind) \in Seq(Kinds)
      BY <1>0
    <3> QED
      BY <1>0, <3>1, <3>2 DEF Ask, Sessions
  <2> QED
    BY <1>0, <2>1, <2>2, StreamStays DEF OwnTypes, AskingInv, Reachable
<1>2. CASE SwitchSetting
  <2>1. budget' \in [Events -> Nat]
    BY <1>0, <1>2, SpendType DEF SwitchSetting, OwnTypes, Events
  <2>2. /\ UNCHANGED <<guard, call, conn, daemon>> /\ wanted' \in OffReasons \cup {None}
        /\ queue' = WithReload /\ session' = Reloading(session)
    BY <1>2 DEF SwitchSetting
  <2> QED
    BY <1>0, <2>1, <2>2, StreamStays, WithReloadType DEF OwnTypes, AskingInv, Reachable
<1>3. CASE RequestStop
  <2>1. budget' \in [Events -> Nat]
    BY <1>0, <1>3, SpendType DEF RequestStop, OwnTypes, Events
  <2>2. /\ UNCHANGED <<queue, wanted, conn, daemon>>
        /\ session' \in Sessions /\ session'.asking = session.asking
    BY <1>0, <1>3 DEF RequestStop, Sessions, Daemons
  <2>3. guard'.repairPending = guard.repairPending
    BY <1>0, <1>3, RepairsKept DEF RequestStop
  <2>4. call' \in Calls
    BY <1>3, GuardStep DEF ServiceInv, Next
  <2>5. call'.answer = call.answer
    BY <1>0, <1>3 DEF RequestStop, OwnTypes, Calls
  <2> QED
    BY <1>0, <2>1, <2>2, <2>3, <2>4, <2>5, StreamStays DEF OwnTypes, AskingInv, Reachable
<1>4. CASE TakeOverService
  <2>1. /\ UNCHANGED <<guard, queue, call, session, wanted, conn, budget>>
        /\ conn.phase # "connected" /\ daemon.up /\ daemon' \in Daemons /\ daemon'.up
        /\ daemon'.ours
    BY <1>0, <1>4 DEF TakeOverService, Daemons
  <2> QED
    BY <1>0, <2>1 DEF OwnTypes, AskingInv, StreamInv, Reachable
<1>5. ASSUME NEW fails \in BOOLEAN, SelfCheckEnds(fails)
      PROVE  OwnTypes' /\ StreamInv' /\ AskingInv'
  <2>1. UNCHANGED <<call, wanted, conn, daemon>> /\ session.selfChecks \in Nat \ {0}
    BY <1>0, <1>5 DEF SelfCheckEnds, Sessions
  <2> DEFINE gone == [session EXCEPT !.selfChecks = @ - 1]
  <2>2. gone \in Sessions /\ gone.asking = session.asking
    BY <1>0, <2>1 DEF Sessions
  <2>3. guard'.repairPending = guard.repairPending
    BY <1>0, <1>5 DEF SelfCheckEnds, Guards
  <2>4. budget' \in [Events -> Nat]
    <3>1. budget' = budget \/ Spend("dns-ru")
      BY <1>5 DEF SelfCheckEnds
    <3> QED
      BY <1>0, <3>1, SpendType DEF OwnTypes, Events
  <2>5. session' \in Sessions /\ session'.asking = session.asking /\ queue' \in Seq(Kinds)
    <3>1. \/ session' = gone /\ queue' = queue
          \/ session' = Reloading(gone) /\ queue' = WithReload
      BY <1>5 DEF SelfCheckEnds
    <3> HIDE DEF gone
    <3> QED
      BY <1>0, <2>2, <3>1, WithReloadType
  <2> QED
    BY <1>0, <2>1, <2>3, <2>4, <2>5, StreamStays DEF OwnTypes, AskingInv, Reachable
<1>6. Connect \/ Refresh \/ SwitchSetting \/ RequestStop \/ TakeOverService
        => OwnTypes' /\ StreamInv' /\ AskingInv'
  BY <1>1, <1>2, <1>3, <1>4
<1> QED
  BY <1>5, <1>6

LEMMA ServiceNext == ServiceInv /\ [Next]_vars => ServiceInv'
<1> SUFFICES ASSUME ServiceInv, [Next]_vars PROVE ServiceInv'
  OBVIOUS
<1>1. G!TypeOK'
  BY GuardStep, G!NextType, GuardAssumptions DEF ServiceInv
<1>2. UNCHANGED vars => OwnTypes' /\ StreamInv' /\ AskingInv'
  BY DEF vars, ServiceInv, OwnTypes, StreamInv, AskingInv, StreamOpen, Reachable
<1>3. Next => OwnTypes' /\ StreamInv' /\ AskingInv'
  BY StartsOwn, WatchingOwn, DaemonOwn, AskedOwn, Zenon DEF Next
<1> QED
  BY <1>1, <1>2, <1>3 DEF ServiceInv

LEMMA ServiceInit == Init => ServiceInv /\ G!Init
<1> SUFFICES ASSUME Init PROVE ServiceInv /\ G!Init
  OBVIOUS
<1>1. G!Init
  <2>1. Seen(call) = G!NoCall
    BY SeenNothing DEF Init
  <2>2. \E b \in Builds, applied \in Applieds \cup {None} :
          guard = NewProcess([EmptyStore EXCEPT !.applied = applied], b)
    <3>1. CASE FirstRun
      <4>1. PICK b \in Builds : guard = NewProcess(EmptyStore, b)
        BY <3>1 DEF FirstRun
      <4>2. EmptyStore = [EmptyStore EXCEPT !.applied = None]
        BY DEF EmptyStore
      <4> QED
        BY <4>1, <4>2
    <3>2. CASE LaterRun
      <4>1. PICK b \in Builds, before \in Builds :
              guard = NewProcess([EmptyStore EXCEPT
                        !.applied = [label |-> [build |-> before, off |-> None],
                                     guarded |-> TRUE]], b)
        BY <3>2 DEF LaterRun
      <4>2. [label |-> [build |-> before, off |-> None], guarded |-> TRUE] \in Applieds
        BY DEF Applieds, Labels
      <4> QED
        BY <4>1, <4>2
    <3> QED
      BY <3>1, <3>2 DEF Init
  <2>3. session.selfChecks = 0 /\ crashes = [b \in Builds |-> 0]
    BY DEF Init
  <2> QED
    BY <2>1, <2>2, <2>3, Zenon DEF G!Init, Seen, NewProcess, G!NewProcess, EmptyStore,
       G!EmptyStore, Applieds, G!Applieds, Labels, G!Labels, Shapes, G!Shapes
<1>2. G!TypeOK
  BY <1>1, G!InitType, GuardAssumptions
<1>3. OwnTypes /\ StreamInv /\ AskingInv
  <2>1. /\ queue \in Seq(Kinds) /\ call \in Calls /\ call.answer = None
        /\ session \in Sessions /\ ~session.asking
    <3>1. queue = <<>> /\ call = NoCall
          /\ session = [startedHere |-> FALSE, firstSeen |-> FALSE, reloadQueued |-> FALSE,
                        selfChecks |-> 0, asking |-> FALSE, stopping |-> FALSE]
      BY DEF Init
    <3>2. <<>> \in Seq(Kinds) /\ NoCall.answer = None
      BY DEF NoCall
    <3>3. session \in Sessions /\ session.asking = FALSE
      BY <3>1 DEF Sessions
    <3> QED
      BY <3>1, <3>2, <3>3, NoCallType
  <2>2. wanted \in OffReasons \cup {None} /\ budget \in [Events -> Nat]
    BY ServiceAssumption DEF Init
  <2>3. /\ conn \in Conns /\ ~conn.streaming /\ conn.stream = <<>> /\ conn.seen = None
    <3>1. conn = [phase |-> "not running", seen |-> None, streaming |-> FALSE, stream |-> <<>>]
      BY DEF Init
    <3>2. <<>> \in Seq(Statuses \cup {"END"})
      OBVIOUS
    <3> QED
      BY <3>1, <3>2 DEF Conns, Links
  <2>4. daemon \in Daemons
    <3>1. \/ daemon = [up |-> TRUE, ours |-> TRUE, status |-> "IDLE", content |-> None]
          \/ daemon = [up |-> TRUE, ours |-> TRUE, status |-> "STARTED", content |-> "block"]
      BY DEF Init, FirstRun, LaterRun
    <3>2. CASE daemon = [up |-> TRUE, ours |-> TRUE, status |-> "IDLE", content |-> None]
      BY <3>2 DEF Daemons, Statuses
    <3>3. CASE daemon = [up |-> TRUE, ours |-> TRUE, status |-> "STARTED", content |-> "block"]
      BY <3>3 DEF Daemons, Statuses, Contents
    <3> QED
      BY <3>1, <3>2, <3>3
  <2> QED
    BY <2>1, <2>2, <2>3, <2>4, NothingAssumption DEF OwnTypes, StreamInv, AskingInv, Answers
<1> QED
  BY <1>1, <1>2, <1>3 DEF ServiceInv

LEMMA ServiceHolds == Spec => []ServiceInv
BY ServiceInit, ServiceNext, PTL DEF Spec

-----------------------------------------------------------------------------
(* The refinement. *)

\* The two instances of CrashGuard, with and without its theorems, are one.
LEMMA SameNext == G!Next => Guarded!Next
<1> SUFFICES ASSUME G!Next PROVE Guarded!Next
  OBVIOUS
<1>1. ASSUME NEW base \in Bases, NEW new \in BOOLEAN, G!BeginStart(base, new)
      PROVE  Guarded!BeginStart(base, new)
  BY <1>1 DEF G!BeginStart, Guarded!BeginStart, G!NoCall, Guarded!NoCall
<1>2. ASSUME NEW off \in OffReasons \cup {None}, G!Prepare(off) PROVE Guarded!Prepare(off)
  BY <1>2 DEF G!Prepare, Guarded!Prepare, G!NewSession, Guarded!NewSession, G!Admit,
     Guarded!Admit, G!StrikesOf, Guarded!StrikesOf, G!MarkLeft, Guarded!MarkLeft,
     G!CrashLeft, Guarded!CrashLeft, G!ShapeFor, Guarded!ShapeFor, G!PreparedAtOnce,
     Guarded!PreparedAtOnce, G!Refuses, Guarded!Refuses, G!Applied, Guarded!Applied,
     G!SafetyOff, Guarded!SafetyOff, G!TorrentsOnly, Guarded!TorrentsOnly, G!Whole,
     Guarded!Whole, G!Verdict, Guarded!Verdict
<1>3. ASSUME NEW answer \in CheckAnswers, G!CheckAnswer(answer)
      PROVE  Guarded!CheckAnswer(answer)
  BY <1>3 DEF G!CheckAnswer, Guarded!CheckAnswer, G!CheckAnswered, Guarded!CheckAnswered,
     G!PreparedAfterCheck, Guarded!PreparedAfterCheck, G!SafetyOff, Guarded!SafetyOff,
     G!TorrentsOnly, Guarded!TorrentsOnly, G!Whole, Guarded!Whole
<1>4. ASSUME G!GiveUp PROVE Guarded!GiveUp
  BY <1>4 DEF G!GiveUp, Guarded!GiveUp, G!NoCall, Guarded!NoCall
<1>5. ASSUME G!HandOver PROVE Guarded!HandOver
  BY <1>5 DEF G!HandOver, Guarded!HandOver, G!ArmForStart, Guarded!ArmForStart, G!OwnMark,
     Guarded!OwnMark, G!MayArm, Guarded!MayArm, G!Below, Guarded!Below
<1>6. ASSUME G!StartSucceeds PROVE Guarded!StartSucceeds
  BY <1>6 DEF G!StartSucceeds, Guarded!StartSucceeds, G!EndsRunning, Guarded!EndsRunning,
     G!ClaimsDnsCheck, Guarded!ClaimsDnsCheck, G!Started, Guarded!Started, G!OnRunning,
     Guarded!OnRunning, G!StartSurvivalTimer, Guarded!StartSurvivalTimer, G!RecordApplied,
     Guarded!RecordApplied, G!ClaimDnsCheck, Guarded!ClaimDnsCheck, G!NoCall, Guarded!NoCall
<1>7. ASSUME G!StartFails PROVE Guarded!StartFails
  BY <1>7 DEF G!StartFails, Guarded!StartFails, G!OnStopped, Guarded!OnStopped, G!Disarm,
     Guarded!Disarm, G!NoCall, Guarded!NoCall
<1>8. ASSUME G!RetryWithout PROVE Guarded!RetryWithout
  BY <1>8 DEF G!RetryWithout, Guarded!RetryWithout, G!TorrentsOnly, Guarded!TorrentsOnly
<1>9. ASSUME G!RetrySucceeds PROVE Guarded!RetrySucceeds
  BY <1>9 DEF G!RetrySucceeds, Guarded!RetrySucceeds, G!RolledBack, Guarded!RolledBack,
     G!Disarm, Guarded!Disarm, G!SafetyOff, Guarded!SafetyOff, G!TorrentsOnly,
     Guarded!TorrentsOnly, G!EndsRunning, Guarded!EndsRunning, G!ClaimsDnsCheck,
     Guarded!ClaimsDnsCheck, G!Started, Guarded!Started, G!OnRunning, Guarded!OnRunning,
     G!StartSurvivalTimer, Guarded!StartSurvivalTimer, G!RecordApplied,
     Guarded!RecordApplied, G!ClaimDnsCheck, Guarded!ClaimDnsCheck, G!NoCall, Guarded!NoCall
<1>10. ASSUME G!StartKillsDaemon PROVE Guarded!StartKillsDaemon
  BY <1>10 DEF G!StartKillsDaemon, Guarded!StartKillsDaemon, G!NoCall, Guarded!NoCall,
     G!Lose, Guarded!Lose, G!OnDaemonLost, Guarded!OnDaemonLost, G!OwnMark, Guarded!OwnMark
<1>11. ASSUME G!DaemonLost PROVE Guarded!DaemonLost
  BY <1>11 DEF G!DaemonLost, Guarded!DaemonLost, G!Lose, Guarded!Lose, G!OnDaemonLost,
     Guarded!OnDaemonLost, G!OwnMark, Guarded!OwnMark
<1>12. ASSUME G!Stopped PROVE Guarded!Stopped
  BY <1>12 DEF G!Stopped, Guarded!Stopped, G!OnStopped, Guarded!OnStopped, G!Disarm,
     Guarded!Disarm
<1>13. ASSUME NEW recent \in BOOLEAN, G!Restored(recent) PROVE Guarded!Restored(recent)
  BY <1>13 DEF G!Restored, Guarded!Restored, G!OnRestored, Guarded!OnRestored, G!OwnMark,
     Guarded!OwnMark, G!StartSurvivalTimer, Guarded!StartSurvivalTimer, G!LastStartGuarded,
     Guarded!LastStartGuarded, G!MayArm, Guarded!MayArm, G!Below, Guarded!Below
<1>14. ASSUME NEW running \in BOOLEAN, G!SurvivalTimer(running)
       PROVE  Guarded!SurvivalTimer(running)
  BY <1>14 DEF G!SurvivalTimer, Guarded!SurvivalTimer, G!SurvivalCheck,
     Guarded!SurvivalCheck, G!Disarm, Guarded!Disarm
<1>15. ASSUME NEW fails \in BOOLEAN, G!SelfCheckEnds(fails)
       PROVE  Guarded!SelfCheckEnds(fails)
  BY <1>15 DEF G!SelfCheckEnds, Guarded!SelfCheckEnds
<1>16. ASSUME NEW b \in Builds, G!AppRestarts(b) PROVE Guarded!AppRestarts(b)
  BY <1>16 DEF G!AppRestarts, Guarded!AppRestarts, G!NewProcess, Guarded!NewProcess,
     G!Shapes, Guarded!Shapes, G!NoCall, Guarded!NoCall
<1> QED
  BY <1>1, <1>2, <1>3, <1>4, <1>5, <1>6, <1>7, <1>8, <1>9, <1>10, <1>11, <1>12, <1>13,
     <1>14, <1>15, <1>16 DEF G!Next, Guarded!Next, G!CheckAnswers, Guarded!CheckAnswers,
     CheckAnswers

LEMMA SameInit == G!Init => Guarded!Init
BY DEF G!Init, Guarded!Init, G!Applieds, Guarded!Applieds, G!Labels, Guarded!Labels,
   G!NewProcess, Guarded!NewProcess, G!Shapes, Guarded!Shapes, G!EmptyStore,
   Guarded!EmptyStore, G!NoCall, Guarded!NoCall

\* profiles.ts, state.ts and the daemon call the guard only in an order CrashGuard
\* allows: every behaviour of ServiceStart is one of CrashGuard's.
THEOREM ServiceIsAGuard == Spec => IsAGuard
<1>1. Init => Guarded!Init
  BY ServiceInit, SameInit
<1>2. ServiceInv /\ [Next]_vars => [Guarded!Next]_(Guarded!vars)
  <2> SUFFICES ASSUME ServiceInv, [Next]_vars PROVE [Guarded!Next]_(Guarded!vars)
    OBVIOUS
  <2>1. G!Next \/ UNCHANGED G!vars
    BY GuardStep DEF ServiceInv
  <2>2. UNCHANGED G!vars => UNCHANGED Guarded!vars
    BY DEF G!vars, Guarded!vars
  <2> QED
    BY <2>1, <2>2, SameNext
<1> QED
  BY <1>1, <1>2, ServiceHolds, PTL DEF Spec, IsAGuard, Guarded!Spec

LEMMA ServiceIsG == Spec => G!Spec
<1>1. ServiceInv /\ [Next]_vars => [G!Next]_(G!vars)
  BY GuardStep DEF ServiceInv
<1> QED
  BY <1>1, ServiceInit, ServiceHolds, PTL DEF Spec, G!Spec

\* In profiles.ts too an arming has its own mark in the store, its timer is that of
\* the arming in force, and none is left behind without a timer or a start.
THEOREM ServiceArming ==
    Spec => [](/\ Guarded!ArmedHasOwnMark
               /\ Guarded!TimerIsOfThisArming
               /\ Guarded!NoOrphanArming)
<1>1. /\ G!ArmedHasOwnMark => Guarded!ArmedHasOwnMark
      /\ G!TimerIsOfThisArming => Guarded!TimerIsOfThisArming
      /\ G!NoOrphanArming => Guarded!NoOrphanArming
  BY DEF G!ArmedHasOwnMark, Guarded!ArmedHasOwnMark, G!NoOrphanArming,
     Guarded!NoOrphanArming, G!OwnMark, Guarded!OwnMark, G!TimerIsOfThisArming,
     Guarded!TimerIsOfThisArming
<1>2. G!Spec => []G!ArmedHasOwnMark /\ []G!TimerIsOfThisArming /\ []G!NoOrphanArming
  BY G!ArmedMark, G!TimerMatchesArming, G!ArmingHasAnEnd, GuardAssumptions, PTL
<1> QED
  BY <1>1, <1>2, ServiceIsG, PTL

\* A crash is counted in one of two places: the call of a start has died, or the
\* stream has ended.
LEMMA CountedLoss ==
    ASSUME OwnTypes, [Next]_vars, NEW b \in Builds, crashes'[b] > crashes[b],
           crashes \in [Builds -> Nat], guard \in Guards
    PROVE  Lose /\ (StartKillsDaemon \/ (Deliver /\ Head(conn.stream) = "END"))
<1>1. crashes' # crashes
  <2> SUFFICES ASSUME crashes' = crashes PROVE FALSE
    OBVIOUS
  <2>1. crashes[b] \in Nat
    OBVIOUS
  <2> QED
    BY <2>1
<1>2. CASE Starts
  BY <1>1, <1>2 DEF Starts, Skip, Begin, Prepare, CheckAnswer, GiveUp, HandOver,
     StartSucceeds, StartKillsDaemon, RetryWithout, StartFails, RetrySucceeds, EndsRunning
<1>3. CASE Deliver
  <2>1. Head(conn.stream) = "END"
    BY <1>1, <1>3 DEF Deliver, OnStatus
  <2>2. OnLost
    BY <1>3, <2>1 DEF Deliver
  <2> QED
    BY <1>1, <1>3, <2>1, <2>2 DEF OnLost
<1>4. CASE SurvivalTimer
  <2>1. crashes' = crashes \/ crashes' = [crashes EXCEPT ![guard.build] = 0]
    BY <1>4 DEF SurvivalTimer
  <2>2. crashes' = [crashes EXCEPT ![guard.build] = 0]
    BY <1>1, <2>1
  <2>3. crashes'[b] = 0 \/ crashes'[b] = crashes[b]
    BY <2>2 DEF Guards
  <2>4. crashes[b] \in Nat
    OBVIOUS
  <2> QED
    BY <2>3, <2>4
<1>5. CASE Reconnect \/ \E recent \in BOOLEAN : StartedAtAnswer(recent)
  BY <1>1, <1>5 DEF Reconnect, StartedAtAnswer
<1>6. CASE \/ Taking \/ DaemonReturns \/ DaemonStops \/ OtherTakesOver
           \/ \E taking \in BOOLEAN : DaemonCrashes(taking)
  BY <1>1, <1>6, DaemonCall
<1>7. CASE Connect \/ Refresh \/ SwitchSetting \/ TakeOverService \/ RequestStop
  BY <1>1, <1>7 DEF Connect, Refresh, SwitchSetting, TakeOverService, Ask, RequestStop
<1>8. CASE \E fails \in BOOLEAN : SelfCheckEnds(fails)
  BY <1>1, <1>8 DEF SelfCheckEnds
<1>9. CASE UNCHANGED vars
  BY <1>1, <1>9 DEF vars
<1>10. Watching => Deliver \/ SurvivalTimer \/ Reconnect
                   \/ \E recent \in BOOLEAN : StartedAtAnswer(recent)
  BY DEF Watching
<1> HIDE DEF OwnTypes
<1> QED
  BY <1>2, <1>3, <1>4, <1>5, <1>6, <1>7, <1>8, <1>9, <1>10, Zenon DEF Next

\* Then nobody serves this user: the daemon has gone, or another user has it.
LEMMA LossStep ==
    ASSUME ServiceInv, [Next]_vars, NEW b \in Builds, crashes'[b] > crashes[b]
    PROVE  guard.armedHere /\ ~Reachable
<1>0. OwnTypes /\ StreamInv /\ guard \in Guards /\ crashes \in [Builds -> Nat]
  BY TypeFacts DEF ServiceInv, G!TypeOK
<1>1. Lose /\ (StartKillsDaemon \/ (Deliver /\ Head(conn.stream) = "END"))
  BY <1>0, CountedLoss
<1>2. guard.armedHere
  <2>1. crashes[b] \in Nat
    BY <1>0
  <2> QED
    BY <1>1, <2>1 DEF Lose
<1>3. CASE StartKillsDaemon
  BY <1>0, <1>2, <1>3 DEF StartKillsDaemon, DiedDuringCall, StreamInv, Reachable
<1>4. CASE Deliver /\ Head(conn.stream) = "END"
  <2>1. conn.stream # <<>> /\ conn.stream \in Seq(Statuses \cup {"END"})
    BY <1>0, <1>4 DEF Deliver, OwnTypes, Conns
  <2>2. 1 \in DOMAIN conn.stream /\ conn.stream[1] = "END"
    BY <1>4, <2>1
  <2>3. conn.streaming /\ ~StreamOpen
    BY <1>0, <2>1, <2>2 DEF StreamInv, StreamOpen
  <2> QED
    BY <1>0, <1>2, <2>3 DEF StreamInv
<1> QED
  BY <1>1, <1>2, <1>3, <1>4

\* Strikes never outnumber the losses of guarded starts, and a loss is counted only of
\* a daemon that has gone down or that another user has: no stop, refusal, failed
\* start or late answer in profiles.ts counts as one.
THEOREM ServiceStrikes == Spec => ([]Guarded!NoStrikeWithoutCrash) /\ LostIsGoneOrTaken
<1>1. G!NoStrikeWithoutCrash => Guarded!NoStrikeWithoutCrash
  BY DEF G!NoStrikeWithoutCrash, Guarded!NoStrikeWithoutCrash, G!RecordsFor,
     Guarded!RecordsFor, G!StrikesFor, Guarded!StrikesFor
<1>2. G!Spec => []G!NoStrikeWithoutCrash
  BY G!StrikesAreCrashes, GuardAssumptions, PTL
<1>3. ServiceInv /\ [Next]_vars
        => [ \A b \in Builds : crashes'[b] > crashes[b]
                => guard.armedHere /\ ~(daemon.up /\ daemon.ours) ]_vars
  BY LossStep DEF Reachable
<1>4. Spec => LostIsGoneOrTaken
  BY <1>3, ServiceHolds, PTL DEF Spec, LostIsGoneOrTaken
<1> QED
  BY <1>1, <1>2, <1>4, ServiceIsG, PTL

\* What profiles.ts hands to the daemon: the block only below the limit of strikes, in
\* a session that has not turned it off, and after checkConfig has passed it.
THEOREM ServiceBlock == Spec => [](Guarded!BlockOnlyWhenAdmitted /\ Guarded!BlockWasChecked)
<1>1. /\ G!BlockOnlyWhenAdmitted => Guarded!BlockOnlyWhenAdmitted
      /\ G!BlockWasChecked => Guarded!BlockWasChecked
  BY DEF G!BlockOnlyWhenAdmitted, Guarded!BlockOnlyWhenAdmitted, G!BlockUnderWay,
     Guarded!BlockUnderWay, G!BlockWasChecked, Guarded!BlockWasChecked, G!Handed,
     Guarded!Handed, G!StrikesOf, Guarded!StrikesOf, G!Verdict, Guarded!Verdict
<1>2. G!Spec => []G!BlockOnlyWhenAdmitted /\ []G!BlockWasChecked
  BY G!BlockAdmitted, G!BlockChecked, GuardAssumptions, PTL
<1> QED
  BY <1>1, <1>2, ServiceIsG, PTL

\* The methods that leave the strikes alone, and the one that may add one.
SameTally(h, g) == h.strikes = g.strikes /\ h.build = g.build

LEMMA TalliesKept ==
    ASSUME NEW g \in Guards
    PROVE  /\ SameTally(NewSession(g), g)
           /\ \A shape, answer : SameTally(CheckAnswered(g, shape, answer), g)
           /\ \A p : SameTally(ArmForStart(g, p), g)
           /\ SameTally(OnStopped(g), g) /\ SameTally(RolledBack(g), g)
           /\ SameTally(OnDaemonLost(g), g)
           /\ \A off, ran : SameTally(Started(g, off, ran), g)
           /\ \A recent : SameTally(OnRestored(g, recent), g)
           /\ SameTally([g EXCEPT !.repairPending = FALSE], g)
           /\ SameTally([g EXCEPT !.dnsRuFallback = TRUE], g)
<1> USE DEF Guards, SameTally
<1>1. SameTally(NewSession(g), g)
  BY DEF NewSession
<1>2. ASSUME NEW shape, NEW answer PROVE SameTally(CheckAnswered(g, shape, answer), g)
  BY DEF CheckAnswered
<1>3. ASSUME NEW p PROVE SameTally(ArmForStart(g, p), g)
  BY DEF ArmForStart
<1>4. SameTally(OnStopped(g), g)
  BY DEF OnStopped, Disarm
<1>5. SameTally(RolledBack(g), g)
  BY DEF RolledBack, Disarm
<1>6. SameTally(OnDaemonLost(g), g)
  BY DEF OnDaemonLost
<1>7. ASSUME NEW off, NEW ran PROVE SameTally(Started(g, off, ran), g)
  <2>1. SameTally(RecordApplied(g, off, ran), g)
    BY DEF RecordApplied
  <2> QED
    BY <2>1 DEF Started, ClaimDnsCheck, OnRunning, StartSurvivalTimer, RecordApplied
<1>8. ASSUME NEW recent PROVE SameTally(OnRestored(g, recent), g)
  BY DEF OnRestored, StartSurvivalTimer
<1>9. SameTally([g EXCEPT !.repairPending = FALSE], g)
      /\ SameTally([g EXCEPT !.dnsRuFallback = TRUE], g)
  OBVIOUS
<1> HIDE DEF SameTally
<1> QED
  BY <1>1, <1>2, <1>3, <1>4, <1>5, <1>6, <1>7, <1>8, <1>9

LEMMA TallyForgives ==
    ASSUME NEW g \in Guards, NEW h, SameTally(h, g)
    PROVE  StrikesOf(h) = StrikesOf(g) /\ ~(StrikesOf(h) < StrikesOf(g))
<1>1. StrikesOf(h) = StrikesOf(g)
  BY DEF SameTally, StrikesOf
<1>2. StrikesOf(g) \in Nat
  BY DEF Guards, Tallies, StrikesOf
<1> QED
  BY <1>1, <1>2

\* Every step of ServiceStart but the survival timer's leaves the strikes or adds one.
LEMMA OthersForgiveNothing ==
    ASSUME ServiceInv, [Next]_vars, ~SurvivalTimer
    PROVE  ~(StrikesOf(guard') < StrikesOf(guard))
<1>0. guard \in Guards /\ OwnTypes
  BY TypeFacts DEF ServiceInv
<1>1. SameTally(guard', guard) => ~(StrikesOf(guard') < StrikesOf(guard))
  BY <1>0, TallyForgives
<1>2. CASE Prepare
  <2> DEFINE g == IF call.newSession THEN NewSession(guard) ELSE guard
  <2>1. g \in Guards
    BY <1>0, MethodTypes
  <2>2. SameTally(g, guard)
    BY <1>0, TalliesKept DEF SameTally
  <2>3. guard' = Admit(g)
    BY <1>2 DEF Prepare
  <2> HIDE DEF g
  <2>4. ~(StrikesOf(Admit(g)) < StrikesOf(g))
    BY <2>1, G!AdmitKeepsStrikes, GuardAssumptions, SameSets, SamePreparing
       DEF StrikesOf, G!StrikesOf
  <2>5. StrikesOf(g) = StrikesOf(guard)
    BY <1>0, <2>2, TallyForgives
  <2> QED
    BY <2>3, <2>4, <2>5
<1>3. CASE Starts /\ ~Prepare
  <2>1. CASE RetrySucceeds
    <3>1. guard' = Started(RolledBack(guard), call.off, SafetyOff(Base))
      BY <2>1 DEF RetrySucceeds, EndsRunning
    <3>2. RolledBack(guard) \in Guards
      BY <1>0, RolledBackRepair
    <3> QED
      BY <1>0, <1>1, <3>1, <3>2, TalliesKept DEF SameTally
  <2>2. CASE ~RetrySucceeds
    <3> SUFFICES SameTally(guard', guard)
      BY <1>1
    <3>1. CASE Skip \/ GiveUp \/ RetryWithout
      BY <3>1 DEF Skip, GiveUp, RetryWithout, SameTally
    <3>2. CASE Begin
      BY <1>0, <3>2, TalliesKept DEF Begin
    <3>3. ASSUME NEW answer \in CheckAnswers, CheckAnswer(answer)
          PROVE  SameTally(guard', guard)
      <4>1. guard' = CheckAnswered(guard, call.shape, answer)
        BY <3>3 DEF CheckAnswer
      <4> QED
        BY <1>0, <4>1, TalliesKept
    <3>4. CASE HandOver
      BY <1>0, <3>4, TalliesKept DEF HandOver
    <3>5. CASE StartSucceeds
      BY <1>0, <3>5, TalliesKept DEF StartSucceeds, EndsRunning
    <3>6. CASE StartKillsDaemon \/ StartFails
      BY <1>0, <3>6, TalliesKept DEF StartKillsDaemon, Lose, StartFails
    <3> QED
      BY <1>3, <2>2, <3>1, <3>2, <3>3, <3>4, <3>5, <3>6, Zenon DEF Starts
  <2> QED
    BY <2>1, <2>2
<1>4. CASE Watching
  <2>1. SameTally(guard, guard)
    BY DEF SameTally
  <2>2. CASE Deliver
    <3>1. guard' \in {OnDaemonLost(guard), OnStopped(guard), guard}
      BY <2>2 DEF Deliver, OnLost, Lose, OnStatus
    <3> QED
      BY <1>0, <1>1, <2>1, <3>1, TalliesKept
  <2>3. CASE Reconnect
    BY <1>1, <2>1, <2>3 DEF Reconnect
  <2>4. ASSUME NEW recent \in BOOLEAN, StartedAtAnswer(recent)
        PROVE  ~(StrikesOf(guard') < StrikesOf(guard))
    <3>1. guard' \in {OnRestored(guard, recent), guard}
      BY <2>4 DEF StartedAtAnswer
    <3> QED
      BY <1>0, <1>1, <2>1, <3>1, TalliesKept
  <2> QED
    BY <1>4, <2>2, <2>3, <2>4 DEF Watching
<1>5. CASE \/ Taking \/ DaemonReturns \/ DaemonStops \/ OtherTakesOver
           \/ \E taking \in BOOLEAN : DaemonCrashes(taking)
  BY <1>0, <1>1, <1>5, DaemonCall DEF SameTally
<1>6. CASE Connect \/ Refresh \/ SwitchSetting \/ TakeOverService \/ RequestStop
  BY <1>0, <1>1, <1>6, TalliesKept
     DEF Connect, Refresh, SwitchSetting, TakeOverService, Ask, RequestStop, SameTally
<1>7. CASE \E fails \in BOOLEAN : SelfCheckEnds(fails)
  BY <1>0, <1>1, <1>7, TalliesKept DEF SelfCheckEnds, SameTally
<1>8. CASE UNCHANGED vars
  BY <1>0, <1>1, <1>8 DEF vars, SameTally
<1> HIDE DEF OwnTypes
<1> QED
  BY <1>2, <1>3, <1>4, <1>5, <1>6, <1>7, <1>8, Zenon DEF Next

\* Strikes are forgiven only while the client sees the service running over its own
\* connection, by the survival timer: no start, stop, loss, retry or takeover in
\* profiles.ts takes one back, nor does a timer that gives up.
THEOREM ServiceForgives == Spec => ForgivenOnlyWhileRunning
<1>1. ServiceInv /\ [Next]_vars
        => [StrikesOf(guard') < StrikesOf(guard) => ServiceRunning /\ SurvivalTimer]_vars
  <2> SUFFICES ASSUME ServiceInv, [Next]_vars, StrikesOf(guard') < StrikesOf(guard)
               PROVE  ServiceRunning /\ SurvivalTimer
    OBVIOUS
  <2>0. guard \in Guards
    BY TypeFacts DEF ServiceInv
  <2>1. SurvivalTimer
    BY OthersForgiveNothing
  <2>2. ASSUME ~ServiceRunning PROVE FALSE
    <3>0. ServiceRunning = FALSE
      BY <2>2 DEF ServiceRunning
    <3>1. guard' = SurvivalCheck(guard, FALSE) /\ guard.timer # None
      BY <2>1, <3>0 DEF SurvivalTimer
    <3>2. guard'.strikes = guard.strikes /\ guard'.build = guard.build
      <4>1. SurvivalCheck(guard, FALSE).strikes = guard.strikes
        BY <2>0, <3>1, G!UnseenForgivesNothing, GuardAssumptions, SameSets, SameArming
      <4>2. SurvivalCheck(guard, FALSE).build = guard.build
        BY <2>0 DEF SurvivalCheck, Disarm, Guards
      <4> QED
        BY <3>1, <4>1, <4>2
    <3> QED
      BY <2>0, <3>2, TallyForgives DEF SameTally
  <2> QED
    BY <2>1, <2>2
<1> QED
  BY <1>1, ServiceHolds, PTL DEF Spec, ForgivenOnlyWhileRunning

-----------------------------------------------------------------------------
(* The chain: what is queued. *)

Has(q, kind) == \E i \in DOMAIN q : q[i] = kind
Once(q, kind) == \A i, j \in DOMAIN q : q[i] = kind /\ q[j] = kind => i = j

LEMMA Appended ==
    ASSUME NEW q \in Seq(Kinds), NEW k \in Kinds, NEW kind
    PROVE  /\ Has(Append(q, k), kind) <=> Has(q, kind) \/ k = kind
           /\ Once(q, kind) /\ ~(Has(q, kind) /\ k = kind) => Once(Append(q, k), kind)
<1>1. /\ Len(Append(q, k)) = Len(q) + 1 /\ Append(q, k)[Len(q) + 1] = k
      /\ \A i \in 1 .. Len(q) : Append(q, k)[i] = q[i]
      /\ DOMAIN q = 1 .. Len(q) /\ DOMAIN Append(q, k) = 1 .. (Len(q) + 1) /\ Len(q) \in Nat
  OBVIOUS
<1> DEFINE r == Append(q, k)
<1> HIDE DEF r
<1>2. Has(r, kind) <=> Has(q, kind) \/ k = kind
  BY <1>1 DEF Has, r
<1>3. ASSUME Once(q, kind), ~(Has(q, kind) /\ k = kind) PROVE Once(r, kind)
  <2> SUFFICES ASSUME NEW i \in 1 .. (Len(q) + 1), NEW j \in 1 .. (Len(q) + 1),
                      r[i] = kind, r[j] = kind
               PROVE  i = j
    BY <1>1 DEF Once, r
  <2>1. CASE i \in 1 .. Len(q) /\ j \in 1 .. Len(q)
    BY <1>1, <1>3, <2>1 DEF Once, r
  <2>2. CASE i = Len(q) + 1 /\ j \in 1 .. Len(q)
    BY <1>1, <1>3, <2>2 DEF Has, r
  <2>3. CASE j = Len(q) + 1 /\ i \in 1 .. Len(q)
    BY <1>1, <1>3, <2>3 DEF Has, r
  <2> QED
    BY <1>1, <2>1, <2>2, <2>3
<1> QED
  BY <1>2, <1>3 DEF r

LEMMA Shortened ==
    ASSUME NEW q \in Seq(Kinds), q # <<>>, NEW kind
    PROVE  /\ Has(q, kind) /\ Head(q) # kind => Has(Tail(q), kind)
           /\ Has(Tail(q), kind) => Has(q, kind)
           /\ Once(q, kind) => Once(Tail(q), kind)
           /\ Once(q, kind) /\ Head(q) = kind => ~Has(Tail(q), kind)
<1>1. /\ DOMAIN q = 1 .. Len(q) /\ Len(q) \in Nat \ {0} /\ Head(q) = q[1]
      /\ DOMAIN Tail(q) = 1 .. (Len(q) - 1)
      /\ \A i \in 1 .. (Len(q) - 1) : Tail(q)[i] = q[i + 1]
  OBVIOUS
<1> DEFINE r == Tail(q)
<1> HIDE DEF r
<1>2. ASSUME Has(q, kind), Head(q) # kind PROVE Has(r, kind)
  <2>1. PICK i \in 1 .. Len(q) : q[i] = kind
    BY <1>1, <1>2 DEF Has
  <2>2. i - 1 \in 1 .. (Len(q) - 1) /\ r[i - 1] = kind
    BY <1>1, <1>2, <2>1 DEF r
  <2> QED
    BY <1>1, <2>2 DEF Has, r
<1>3. Has(r, kind) => Has(q, kind)
  BY <1>1 DEF Has, r
<1>4. ASSUME Once(q, kind) PROVE Once(r, kind)
  <2> SUFFICES ASSUME NEW i \in 1 .. (Len(q) - 1), NEW j \in 1 .. (Len(q) - 1),
                      r[i] = kind, r[j] = kind
               PROVE  i = j
    BY <1>1 DEF Once, r
  <2>1. i + 1 \in DOMAIN q /\ j + 1 \in DOMAIN q /\ q[i + 1] = kind /\ q[j + 1] = kind
    BY <1>1 DEF r
  <2> QED
    BY <1>4, <2>1 DEF Once
<1>5. ASSUME Once(q, kind), Head(q) = kind PROVE ~Has(r, kind)
  <2> SUFFICES ASSUME NEW i \in 1 .. (Len(q) - 1), r[i] = kind PROVE FALSE
    BY <1>1 DEF Has, r
  <2>1. i + 1 \in DOMAIN q /\ q[i + 1] = kind /\ 1 \in DOMAIN q /\ q[1] = kind
    BY <1>1, <1>5 DEF r
  <2>2. i + 1 = 1
    BY <1>5, <2>1 DEF Once
  <2> QED
    BY <2>2
<1> QED
  BY <1>2, <1>3, <1>4, <1>5 DEF r

\* What a step does to the chain, and to the memory of its reload.
QueueStep ==
    \/ queue' = queue /\ session'.reloadQueued = session.reloadQueued
    \/ /\ queue # <<>> /\ queue' = Tail(queue)
       /\ session'.reloadQueued = (session.reloadQueued /\ Head(queue) # "reload")
    \/ /\ \E kind \in Kinds \ {"reload"} : queue' = Append(queue, kind)
       /\ session'.reloadQueued = session.reloadQueued
    \/ queue' = WithReload /\ session'.reloadQueued = TRUE

LEMMA TakesSteps == ASSUME OwnTypes, Skip \/ Begin PROVE QueueStep
<1>1. session \in Sessions
  BY DEF OwnTypes
<1>2. queue # <<>> /\ queue' = Tail(queue)
  BY DEF Skip, Begin
<1>3. session'.reloadQueued = Taken(session, Head(queue)).reloadQueued
  <2>1. Taken(session, Head(queue)) \in Sessions
    BY <1>1 DEF Taken, Sessions
  <2> QED
    BY <2>1 DEF Skip, Begin, Sessions
<1>4. Taken(session, Head(queue)).reloadQueued = (session.reloadQueued
      /\ Head(queue) # "reload")
  BY <1>1 DEF Taken, Sessions
<1> QED
  BY <1>2, <1>3, <1>4 DEF QueueStep

LEMMA QueueSteps == ASSUME ServiceInv, [Next]_vars PROVE QueueStep
<1>0. OwnTypes /\ session \in Sessions
  BY DEF ServiceInv, OwnTypes
<1>1. CASE Skip \/ Begin
  BY <1>0, <1>1, TakesSteps
<1>2. ASSUME Starts, ~Skip, ~Begin
      PROVE  queue' = queue /\ session'.reloadQueued = session.reloadQueued
  BY <1>0, <1>2 DEF Starts, Prepare, CheckAnswer, GiveUp, HandOver, StartSucceeds,
     StartKillsDaemon, RetryWithout, StartFails, RetrySucceeds, EndsRunning, Sessions
<1>3. CASE Deliver
  <2>1. CASE OnServiceStarted
    BY <1>0, <2>1, OnServiceStartedOwn DEF QueueStep, Kinds
  <2> QED
    BY <1>3, <2>1 DEF Deliver, OnLost, OnStatus, QueueStep
<1>4. ASSUME Watching, ~Deliver
      PROVE  queue' = queue /\ session'.reloadQueued = session.reloadQueued
  BY <1>0, <1>4 DEF Watching, Reconnect, SurvivalTimer, StartedAtAnswer, Sessions
<1>5. ASSUME \/ Taking \/ DaemonReturns \/ DaemonStops \/ OtherTakesOver
             \/ \E taking \in BOOLEAN : DaemonCrashes(taking)
      PROVE  queue' = queue /\ session'.reloadQueued = session.reloadQueued
  BY <1>0, <1>5 DEF Taking, DaemonRefuses, DaemonStarts, DaemonReturns, DaemonStops,
     OtherTakesOver, DaemonCrashes, Sessions
<1>6. CASE Connect \/ Refresh
  BY <1>0, <1>6 DEF Connect, Refresh, Ask, QueueStep, Kinds, Sessions
<1>7. CASE SwitchSetting
  BY <1>0, <1>7 DEF SwitchSetting, Reloading, QueueStep, Sessions
<1>8. CASE RequestStop \/ TakeOverService
  BY <1>0, <1>8 DEF RequestStop, TakeOverService, QueueStep, Sessions
<1>9. ASSUME NEW fails \in BOOLEAN, SelfCheckEnds(fails) PROVE QueueStep
  BY <1>0, <1>9 DEF SelfCheckEnds, Reloading, QueueStep, Sessions
<1>10. CASE UNCHANGED vars
  BY <1>10 DEF vars, QueueStep
<1>11. Starts \/ Watching => QueueStep
  BY <1>1, <1>2, <1>3, <1>4 DEF QueueStep
<1>12. Taking \/ DaemonReturns \/ DaemonStops \/ OtherTakesOver
       \/ (\E taking \in BOOLEAN : DaemonCrashes(taking)) => QueueStep
  BY <1>5 DEF QueueStep
<1> QED
  BY <1>6, <1>7, <1>8, <1>9, <1>10, <1>11, <1>12 DEF Next

ReloadInv == Once(queue, "reload") /\ (session.reloadQueued <=> Has(queue, "reload"))

LEMMA ReloadNext == ServiceInv /\ ReloadInv /\ [Next]_vars => ReloadInv'
<1> SUFFICES ASSUME ServiceInv, ReloadInv, [Next]_vars PROVE ReloadInv'
  OBVIOUS
<1>0. queue \in Seq(Kinds) /\ "reload" \in Kinds
  BY DEF ServiceInv, OwnTypes, Kinds
<1>1. CASE queue' = queue /\ session'.reloadQueued = session.reloadQueued
  BY <1>1 DEF ReloadInv
<1>2. CASE /\ queue # <<>> /\ queue' = Tail(queue)
           /\ session'.reloadQueued = (session.reloadQueued /\ Head(queue) # "reload")
  BY <1>0, <1>2, Shortened DEF ReloadInv
<1>3. ASSUME NEW kind \in Kinds \ {"reload"}, queue' = Append(queue, kind),
             session'.reloadQueued = session.reloadQueued
      PROVE  ReloadInv'
  BY <1>0, <1>3, Appended DEF ReloadInv
<1>4. CASE queue' = WithReload /\ session'.reloadQueued = TRUE
  BY <1>0, <1>4, Appended DEF ReloadInv, WithReload
<1> QED
  BY <1>1, <1>2, <1>3, <1>4, QueueSteps DEF QueueStep

\* However the reloads of a changed setting and of a self-check follow each other, the
\* chain holds one at most, and remembers it exactly as long as it has not begun.
THEOREM ReloadsAreOne == Spec => []ReloadsMerge
<1>1. Init => ReloadInv
  <2> SUFFICES ASSUME Init PROVE ReloadInv
    OBVIOUS
  <2>1. /\ queue = <<>>
        /\ session = [startedHere |-> FALSE, firstSeen |-> FALSE, reloadQueued |-> FALSE,
                      selfChecks |-> 0, asking |-> FALSE, stopping |-> FALSE]
    BY DEF Init
  <2>2. DOMAIN queue = {} /\ session.reloadQueued = FALSE
    BY <2>1
  <2> QED
    BY <2>2 DEF ReloadInv, Once, Has
<1>2. ReloadInv => ReloadsMerge
  <2> SUFFICES ASSUME ReloadInv PROVE ReloadsMerge
    OBVIOUS
  <2>1. Queued("reload") # {} <=> Has(queue, "reload")
    BY DEF Queued, Has
  <2>2. CASE Queued("reload") = {}
    BY <2>1, <2>2, FS_EmptySet DEF ReloadInv, ReloadsMerge
  <2>3. CASE Queued("reload") # {}
    <3>1. PICK i \in Queued("reload") : TRUE
      BY <2>3
    <3>2. Queued("reload") = {i}
      BY <3>1 DEF ReloadInv, Once, Queued
    <3>3. Cardinality(Queued("reload")) = 1
      BY <3>2, FS_Singleton
    <3> QED
      BY <2>1, <2>3, <3>3 DEF ReloadInv, ReloadsMerge
  <2> QED
    BY <2>2, <2>3
<1> QED
  BY <1>1, <1>2, ServiceHolds, ReloadNext, PTL DEF Spec

-----------------------------------------------------------------------------
(* The chain: the repair. *)

RepairInv == guard.repairPending /\ Running /\ Reachable => Has(queue, "repair")

\* An operation behind the head of the chain keeps its place.
LEMMA RepairStays ==
    ASSUME OwnTypes, Has(queue, "repair"),
           \/ queue' = queue
           \/ queue # <<>> /\ queue' = Tail(queue) /\ Head(queue) # "repair"
           \/ \E kind \in Kinds : queue' = Append(queue, kind)
           \/ queue' = WithReload
    PROVE  Has(queue', "repair")
<1>1. queue \in Seq(Kinds) /\ "reload" \in Kinds
  BY DEF OwnTypes, Kinds
<1>2. CASE queue # <<>> /\ queue' = Tail(queue) /\ Head(queue) # "repair"
  BY <1>1, <1>2, Shortened
<1>3. ASSUME NEW kind \in Kinds, queue' = Append(queue, kind) PROVE Has(queue', "repair")
  BY <1>1, <1>3, Appended
<1>4. CASE queue' = WithReload
  BY <1>1, <1>4, Appended DEF WithReload
<1> QED
  BY <1>2, <1>3, <1>4

LEMMA StartsRepair == ASSUME ServiceInv, RepairInv, Starts PROVE RepairInv'
<1> SUFFICES ASSUME guard'.repairPending, Running', Reachable' PROVE Has(queue', "repair")
  BY DEF RepairInv
<1>0. StartKeeps /\ OwnTypes
  BY StartsKeep DEF ServiceInv
<1>1. Running /\ Reachable
  BY <1>0 DEF StartKeeps, Running, Reachable
<1>2. guard.repairPending
  BY <1>0, <1>1 DEF StartKeeps, ServiceInv, StreamInv, Reachable
<1>3. Has(queue, "repair")
  BY <1>1, <1>2 DEF RepairInv
<1>4. CASE Skip
  <2>1. Head(queue) # "repair"
    BY <1>1, <1>2, <1>4 DEF Skip, StillWanted
  <2> QED
    BY <1>0, <1>3, <1>4, <2>1, RepairStays DEF Skip
<1>5. CASE Begin
  <2>1. guard'.repairPending = FALSE
    BY <1>5, TypeFacts DEF Begin, Guards, ServiceInv
  <2> QED
    BY <2>1
<1>6. ASSUME ~Skip, ~Begin PROVE queue' = queue
  BY <1>6 DEF Starts, Prepare, CheckAnswer, GiveUp, HandOver, StartSucceeds, StartKillsDaemon,
              RetryWithout, StartFails, RetrySucceeds, EndsRunning
<1> QED
  BY <1>3, <1>4, <1>5, <1>6

LEMMA WatchingRepair == ASSUME ServiceInv, RepairInv, Watching PROVE RepairInv'
<1>0. OwnTypes /\ StreamInv /\ conn \in Conns /\ guard \in Guards
  BY TypeFacts DEF ServiceInv, OwnTypes
<1>1. CASE Deliver
  <2>1. CASE Head(conn.stream) = "END"
    <3>1. conn'.seen = None
      BY <1>0, <1>1, <2>1 DEF Deliver, OnLost, Conns
    <3> QED
      BY <3>1, NothingAssumption DEF RepairInv, Running, Statuses
  <2>2. CASE Head(conn.stream) # "END"
    <3> DEFINE status == Head(conn.stream)
    <3>1. OnStatus(status) /\ UNCHANGED daemon
      BY <1>1, <2>2 DEF Deliver
    <3>2. guard'.repairPending = guard.repairPending
      BY <1>0, <3>1, RepairsKept DEF OnStatus
    <3>3. conn'.seen = status
      BY <1>0, <3>1 DEF OnStatus, Conns
    <3> SUFFICES ASSUME guard.repairPending, status = "STARTED", Reachable
                 PROVE  Has(queue', "repair")
      BY <3>1, <3>2, <3>3 DEF RepairInv, Running, Reachable
    <3>4. CASE conn.seen = "STARTED"
      <4>1. Has(queue, "repair")
        BY <3>4 DEF RepairInv, Running
      <4>2. UNCHANGED queue
        BY <3>1, <3>4 DEF OnStatus
      <4> QED
        BY <4>1, <4>2
    <3>5. CASE conn.seen # "STARTED"
      <4>1. OnServiceStarted
        BY <3>1, <3>5 DEF OnStatus
      <4>2. queue' = Append(queue, "repair") /\ queue \in Seq(Kinds) /\ "repair" \in Kinds
        BY <1>0, <4>1, OnServiceStartedOwn DEF OwnTypes, Kinds
      <4> QED
        BY <4>2, Appended
    <3> QED
      BY <3>4, <3>5
  <2> QED
    BY <2>1, <2>2
<1>2. CASE Reconnect
  <2>1. conn'.seen = None
    BY <1>0, <1>2 DEF Reconnect, StreamInv, Conns
  <2> QED
    BY <2>1, NothingAssumption DEF RepairInv, Running, Statuses
<1>3. ASSUME SurvivalTimer \/ \E recent \in BOOLEAN : StartedAtAnswer(recent)
      PROVE  RepairInv'
  <2>1. UNCHANGED <<queue, conn, daemon>> /\ guard'.repairPending = guard.repairPending
    BY <1>0, <1>3, RepairsKept DEF SurvivalTimer, StartedAtAnswer
  <2> QED
    BY <2>1 DEF RepairInv, Running, Reachable
<1> QED
  BY <1>1, <1>2, <1>3 DEF Watching

LEMMA OutsideRepair ==
    ASSUME ServiceInv, RepairInv,
           \/ Taking \/ DaemonReturns \/ DaemonStops \/ OtherTakesOver
           \/ \E taking \in BOOLEAN : DaemonCrashes(taking)
           \/ Connect \/ Refresh \/ SwitchSetting \/ RequestStop \/ TakeOverService
           \/ \E fails \in BOOLEAN : SelfCheckEnds(fails)
    PROVE  RepairInv'
<1>0. /\ OwnTypes /\ StreamInv /\ conn \in Conns /\ guard \in Guards /\ daemon \in Daemons
  BY TypeFacts DEF ServiceInv, OwnTypes
<1>1. guard'.repairPending = guard.repairPending
  <2>1. CASE RequestStop
    BY <1>0, <2>1, RepairsKept DEF RequestStop
  <2>2. ASSUME NEW fails \in BOOLEAN, SelfCheckEnds(fails)
        PROVE  guard'.repairPending = guard.repairPending
    BY <1>0, <2>2 DEF SelfCheckEnds, Guards
  <2>3. ASSUME ~RequestStop, ~\E fails \in BOOLEAN : SelfCheckEnds(fails)
        PROVE  guard' = guard
    BY <2>3 DEF Taking, DaemonRefuses, DaemonStarts, DaemonReturns, DaemonStops,
       OtherTakesOver, DaemonCrashes, Connect, Refresh, Ask, SwitchSetting, TakeOverService
  <2> QED
    BY <2>1, <2>2, <2>3
<1>2. conn'.seen = conn.seen
  <2>1. conn' = conn \/ \E s : conn' = Pushed(s)
    BY DEF Taking, DaemonRefuses, DaemonStarts, DaemonReturns, DaemonStops, OtherTakesOver,
       DaemonCrashes, Connect, Refresh, Ask, SwitchSetting, RequestStop, TakeOverService,
       SelfCheckEnds
  <2> QED
    BY <1>0, <2>1 DEF Pushed, Conns
<1>3. Running /\ Reachable' => Reachable
  <2> SUFFICES ASSUME Running, Reachable' PROVE Reachable
    OBVIOUS
  <2>1. conn.streaming /\ conn.phase = "connected"
    BY <1>0, NothingAssumption DEF StreamInv, Running, Statuses
  <2>2. ~DaemonReturns /\ ~TakeOverService
    BY <2>1 DEF DaemonReturns, TakeOverService
  <2>3. /\ daemon'.up => daemon.up
        /\ daemon'.ours => daemon.ours
    BY <1>0, <2>2 DEF Taking, DaemonRefuses, DaemonStarts, DaemonStops, OtherTakesOver,
       DaemonCrashes, Connect, Refresh, Ask, SwitchSetting, RequestStop, SelfCheckEnds, Daemons
  <2> QED
    BY <2>3 DEF Reachable
<1>4. \/ queue' = queue \/ queue' = WithReload
      \/ \E kind \in Kinds : queue' = Append(queue, kind)
  BY DEF Taking, DaemonRefuses, DaemonStarts, DaemonReturns, DaemonStops, OtherTakesOver,
       DaemonCrashes, Connect, Refresh, Ask, SwitchSetting, RequestStop, TakeOverService,
       SelfCheckEnds, Kinds
<1> QED
  BY <1>0, <1>1, <1>2, <1>3, <1>4, RepairStays DEF RepairInv, Running

LEMMA RepairNext == ServiceInv /\ RepairInv /\ [Next]_vars => RepairInv'
<1> SUFFICES ASSUME ServiceInv, RepairInv, [Next]_vars PROVE RepairInv'
  OBVIOUS
<1>1. UNCHANGED vars => RepairInv'
  BY DEF vars, RepairInv, Running, Reachable
<1> QED
  BY <1>1, StartsRepair, WatchingRepair, OutsideRepair, Zenon DEF Next

\* No status, start, stop, reload or reconnection makes the client forget a due repair
\* of a service that it sees running and that is there.
THEOREM RepairIsRemembered == Spec => []RepairIsQueued
<1>1. Init => RepairInv
  <2> SUFFICES ASSUME Init PROVE RepairInv
    OBVIOUS
  <2>1. conn = [phase |-> "not running", seen |-> None, streaming |-> FALSE, stream |-> <<>>]
    BY DEF Init
  <2> QED
    BY <2>1, NothingAssumption DEF RepairInv, Running, Statuses
<1>2. ServiceInv /\ RepairInv => RepairIsQueued
  <2> SUFFICES ASSUME ServiceInv, RepairInv, guard.repairPending, Running, StreamOpen
               PROVE  Queued("repair") # {}
    BY DEF RepairIsQueued
  <2>1. Reachable
    BY DEF ServiceInv, StreamInv, StreamOpen
  <2>2. Has(queue, "repair")
    BY <2>1 DEF RepairInv
  <2> QED
    BY <2>2 DEF Has, Queued
<1> QED
  BY <1>1, <1>2, ServiceHolds, RepairNext, PTL DEF Spec
=============================================================================
