----------------------------- MODULE Onboarding -----------------------------
(***************************************************************************)
(* The Telegram onboarding (src/src/main/vpn4tv/onboardingService.ts and   *)
(* onboarding.ts): a session with a code on screen, the loop that polls    *)
(* for what the bot pushes to that code, and the import of it.             *)
(*                                                                         *)
(* A loop cannot be stopped: it looks at the session when a round ends, so *)
(* loops of earlier sessions go on next to the present one.  The backend,  *)
(* the bot and the screen are not part of the repository.  A key (the uuid *)
(* or the typed code) holds at most one push that no poll has taken.  What *)
(* is only told to the user (a name, an error, three rounds without an     *)
(* answer) is left out.                                                    *)
(***************************************************************************)
EXTENDS Naturals

CONSTANTS
    Nothing,
    MaxSessions,  \* sessions of a run of the app
    MaxRounds,    \* polls of both keys until the deadline has passed
    MaxPushes,    \* pushes of the bot
    Configs       \* where the config of a push comes from

ASSUME OnboardingAssumption ==
    MaxSessions \in Nat /\ MaxRounds \in Nat /\ MaxPushes \in Nat
    /\ Configs \subseteq {"api", "bell", "other", "inline"}

Sessions == 1 .. MaxSessions
Keys == {"uuid", "code"}

ASSUME NothingAssumption == Nothing \notin Sessions

VARIABLES
    session,    \* the session start hands out, or Nothing
    cancelled,
    made,       \* sessions made so far
    loop,       \* pollLoop of each session
    inbox,      \* the push each key of each session holds
    pushes,     \* pushes so far
    shown,      \* the code on screen
    expired     \* history: the sessions whose loop gave up

onboardingVars == <<session, cancelled, made, loop, inbox, pushes, shown, expired>>

\* at: what the loop awaits.  The requests of an import are steps of their own.
Steps == {"none", "test", "poll", "quick", "again", "mirror", "anchor", "create", "sleep", "ended"}
\* done: the poll of the uuid has imported.
Loops == [at : Steps, key : Keys, config : Configs \cup {Nothing}, rounds : 0 .. MaxRounds,
          done : BOOLEAN]
NoLoop == [at |-> "none", key |-> "uuid", config |-> Nothing, rounds |-> 0, done |-> FALSE]

OnboardingInit ==
    /\ session = Nothing /\ cancelled = FALSE /\ made = 0
    /\ loop = [s \in Sessions |-> NoLoop]
    /\ inbox = [s \in Sessions |-> [k \in Keys |-> Nothing]] /\ pushes = 0
    /\ shown = Nothing /\ expired = {}

Active(s) == ~cancelled /\ session = s
Running(s) == loop[s].at \notin {"none", "ended"}

-----------------------------------------------------------------------------
(* The calls of the screen. *)

\* start(version)
Create ==
    /\ made < MaxSessions
    /\ made' = made + 1 /\ session' = made + 1 /\ shown' = made + 1
    /\ cancelled' = FALSE
    /\ loop' = [loop EXCEPT ![made + 1] = [NoLoop EXCEPT !.at = "test"]]
    /\ UNCHANGED <<inbox, pushes, expired>>

\* Another window, or the same one later, is handed the session there is.
Start ==
    \/ session = Nothing /\ Create
    \/ /\ session /= Nothing /\ shown' = session
       /\ UNCHANGED <<session, cancelled, made, loop, inbox, pushes, expired>>

Restart == Create

Cancel ==
    /\ session /= Nothing
    /\ cancelled' = TRUE /\ session' = Nothing /\ shown' = Nothing
    /\ UNCHANGED <<made, loop, inbox, pushes, expired>>

\* A window that is closed says nothing.
WindowCloses ==
    /\ shown /= Nothing /\ shown' = Nothing
    /\ UNCHANGED <<session, cancelled, made, loop, inbox, pushes, expired>>

\* The bot pushes to the key the user has used, of any code ever shown.
BotPushes(s, k) ==
    /\ s <= made /\ pushes < MaxPushes /\ inbox[s][k] = Nothing
    /\ \E payload \in Configs \cup {"told"} : inbox' = [inbox EXCEPT ![s][k] = payload]
    /\ pushes' = pushes + 1
    /\ UNCHANGED <<session, cancelled, made, loop, shown, expired>>

-----------------------------------------------------------------------------
(* The loop. *)

Goes(s, changed) == loop' = [loop EXCEPT ![s] = changed]
Ends(s) == loop' = [loop EXCEPT ![s] = [NoLoop EXCEPT !.at = "ended"]]

\* Variant: the loop polls as long as its session is there.
Forever(s) == Active(s)

\* Date.now() has reached the deadline after so many rounds, if not before.
Due(s) == loop[s].rounds = MaxRounds
GoesOn(s) == Active(s) /\ ~Due(s)

\* The test of the while.  The poll of the uuid begins with it.
Test(s) ==
    /\ loop[s].at = "test"
    /\ \/ /\ GoesOn(s)
          /\ Goes(s, [loop[s] EXCEPT !.at = "poll", !.key = "uuid",
                                     !.rounds = IF Due(s) THEN @ ELSE @ + 1])
          /\ UNCHANGED <<shown, expired>>
       \/ /\ Active(s) /\ Ends(s)
          /\ shown' = Nothing /\ expired' = expired \cup {s}
       \/ /\ ~Active(s) /\ Ends(s)
          /\ UNCHANGED <<shown, expired>>
    /\ UNCHANGED <<session, cancelled, made, inbox, pushes>>

\* Both keys have been polled.
Round(s, done) ==
    IF ~Active(s) \/ done THEN Ends(s)
    ELSE Goes(s, [NoLoop EXCEPT !.at = "sleep", !.rounds = loop[s].rounds])

\* The outcome of one key: the other one is next, or the round ends.
Polled(s, done) ==
    IF loop[s].key = "uuid"
    THEN Goes(s, [loop[s] EXCEPT !.at = "poll", !.key = "code", !.config = Nothing, !.done = done])
    ELSE Round(s, done \/ loop[s].done)

\* pollOnce: a request that fails at the address and at the anchor, or an answer that
\* says nothing.
PollIsEmpty(s) ==
    /\ loop[s].at = "poll" /\ Polled(s, FALSE)
    /\ UNCHANGED <<session, cancelled, made, inbox, pushes, shown, expired>>

\* What the bot has pushed; an import goes on with the first of its requests.
PollDelivers(s) ==
    LET k == loop[s].key IN
    LET payload == inbox[s][k] IN
    /\ loop[s].at = "poll" /\ payload /= Nothing
    /\ inbox' = [inbox EXCEPT ![s][k] = Nothing]
    /\ IF payload = "told" THEN Polled(s, FALSE)
       ELSE Goes(s, [loop[s] EXCEPT !.config = payload,
                                    !.at = IF payload = "inline" THEN "create" ELSE "quick"])
    /\ UNCHANGED <<session, cancelled, made, pushes, shown, expired>>

Sleeps(s) ==
    /\ loop[s].at = "sleep" /\ Goes(s, [loop[s] EXCEPT !.at = "test"])
    /\ UNCHANGED <<session, cancelled, made, inbox, pushes, shown, expired>>

-----------------------------------------------------------------------------
(* The import. *)

\* fetchSubscription: mirrorUrl differs for the api alone; the anchor serves ours.
Mirrored(config) == config = "api"
OfOurs(config) == config \in {"api", "bell"}

\* What follows a request that has failed, a timeout or not; "failed" when nothing does.
AfterFailed(at, config, timeout) ==
    IF at = "quick" /\ (timeout \/ ~Mirrored(config)) THEN "again"
    ELSE IF at \in {"quick", "again"} /\ Mirrored(config) THEN "mirror"
    ELSE IF at \in {"again", "mirror"} /\ OfOurs(config) THEN "anchor"
    ELSE "failed"

FetchAnswers(s) ==
    /\ loop[s].at \in {"quick", "again", "mirror", "anchor"}
    /\ \/ Goes(s, [loop[s] EXCEPT !.at = "create"])
       \/ Polled(s, FALSE)  \* nothing convertSubscription can use
    /\ UNCHANGED <<session, cancelled, made, inbox, pushes, shown, expired>>

FetchFails(s) ==
    /\ loop[s].at \in {"quick", "again", "mirror", "anchor"}
    /\ \E timeout \in BOOLEAN :
         LET next == AfterFailed(loop[s].at, loop[s].config, timeout)
         IN  IF next = "failed" THEN Polled(s, FALSE)
             ELSE Goes(s, [loop[s] EXCEPT !.at = next])
    /\ UNCHANGED <<session, cancelled, made, inbox, pushes, shown, expired>>

\* Variant: an import tells only its own screen.
ImportedQuietly(s) ==
    session' = Nothing /\ shown' = IF shown = s THEN Nothing ELSE shown

\* The broadcast takes every screen away from its code; whichever session there is
\* by now is over.
Imported(s) == session' = Nothing /\ shown' = Nothing

\* createProfile, which fetches a remote profile again, without mirror and anchor.
CreateSucceeds(s) ==
    /\ loop[s].at = "create" /\ Imported(s)
    /\ Polled(s, TRUE)
    /\ UNCHANGED <<cancelled, made, inbox, pushes, expired>>

CreateFails(s) ==
    /\ loop[s].at = "create" /\ Polled(s, FALSE)
    /\ UNCHANGED <<session, cancelled, made, inbox, pushes, shown, expired>>

-----------------------------------------------------------------------------

LoopStep(s) ==
    \/ Test(s) \/ Sleeps(s)
    \/ PollIsEmpty(s) \/ PollDelivers(s)
    \/ FetchAnswers(s) \/ FetchFails(s) \/ CreateSucceeds(s) \/ CreateFails(s)

OnboardingNext ==
    \/ Start \/ Restart \/ Cancel \/ WindowCloses
    \/ \E s \in Sessions : LoopStep(s) \/ \E k \in Keys : BotPushes(s, k)

\* Requests have a timeout, sleeps end, and the database answers.
Fairness == \A s \in Sessions : WF_onboardingVars(LoopStep(s))

OnboardingSpec == OnboardingInit /\ [][OnboardingNext]_onboardingVars /\ Fairness

-----------------------------------------------------------------------------
(* Properties. *)

OnboardingTypeOK ==
    /\ session \in Sessions \cup {Nothing} /\ shown \in Sessions \cup {Nothing}
    /\ cancelled \in BOOLEAN /\ made \in 0 .. MaxSessions /\ pushes \in 0 .. MaxPushes
    /\ loop \in [Sessions -> Loops]
    /\ inbox \in [Sessions -> [Keys -> Configs \cup {"told", Nothing}]]
    /\ expired \subseteq Sessions

\* A code on screen is polled for, or the screen has been told otherwise: an import
\* of an earlier session that ends late takes the present one with it, but says so.
\* One code is not: start hands out a session that has expired (onboardingService.ts:
\* 129 sets it to null at an import, 101-103 do not when the poll gives up).
ShownIsPolled == shown /= Nothing => (Running(shown) /\ Active(shown)) \/ shown \in expired

\* "Give up after this long so a forgotten window stops polling our backend": each
\* loop ends, that of a session that was replaced or cancelled included.
PollingEnds == \A s \in Sessions : Running(s) ~> ~Running(s)
=============================================================================
