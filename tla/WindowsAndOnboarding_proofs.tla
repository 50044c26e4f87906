-------------------- MODULE WindowsAndOnboarding_proofs --------------------
(***************************************************************************)
(* Theorems about AppWindows and Onboarding, the two modules of what the   *)
(* user sees of the main process: for any number of editors, terminals and *)
(* calls, and of sessions, rounds, pushes and kinds of configs.            *)
(***************************************************************************)
EXTENDS AppWindows, Onboarding, TLAPS

-----------------------------------------------------------------------------
(* AppWindows. *)

HasTray == tray \/ x11Tray /= None

\* The tray is the one the setting asks for, and there is one at most.
TrayIsWanted == running => (enabled <=> HasTray) /\ ~(tray /\ x11Tray /= None)

\* The window of the menu belongs to a tray: it is gone when the last one is.
MenuHasTray == menuWindow /= "none" => HasTray

\* A menu that is opening has a window, and a call that will show it.
MenuOpens == menuState = "opening" => \E s \in Shows : shows[s] /= "idle"

\* A quit that has begun goes on unless an editor has refused it.
QuitGoesOn == quitting => ending \/ refused

\* Without the process there is nothing.
Ended == ~running => ~main /\ ~HasTray

Shown == shows \in [Shows -> {"idle", "load", "script"}]

IInv ==
    /\ Shown
    /\ (menuState = "opening" => menuWindow /= "none")
    /\ TrayIsWanted /\ MenuHasTray /\ MenuOpens /\ QuitGoesOn /\ Ended
    /\ AppIsReachable

-----------------------------------------------------------------------------
(* What the operations on the tray and its menu leave. *)

LEMMA MenuDestroyed ==
    ASSUME DestroyMenu
    PROVE  menuWindow' = "none" /\ MenuOpens' /\ Shown' /\ menuState' = "closed"
  BY DEF DestroyMenu, MenuOpens, Shown, NoShows

LEMMA TrayHidden ==
    ASSUME HideTray
    PROVE  ~HasTray' /\ MenuHasTray' /\ MenuOpens' /\ Shown' /\ menuState' = "closed"
  BY MenuDestroyed DEF HideTray, HasTray, MenuHasTray

LEMMA TrayShown ==
    ASSUME ShowTray, Shown, MenuOpens, MenuHasTray,
           menuState = "opening" => menuWindow /= "none"
    PROVE  /\ HasTray' /\ MenuHasTray' /\ MenuOpens' /\ Shown'
           /\ ~(tray /\ x11Tray /= None) => ~(tray' /\ x11Tray' /= None)
           /\ menuState' = "opening" => menuWindow' /= "none"
  <1>1. CASE tray \/ x11Tray /= None
    BY <1>1 DEF ShowTray, HasTray, MenuHasTray, MenuOpens, Shown, trayVars, menuVars
  <1>2. CASE ~(tray \/ x11Tray /= None) /\ platform /= "x11" /\ ElectronTray
             /\ UNCHANGED <<x11Tray, initializing>>
    BY <1>2 DEF ElectronTray, EnsureMenu, HasTray, MenuHasTray, MenuOpens, Shown
  <1>3. CASE ~(tray \/ x11Tray /= None) /\ tray' = TRUE /\ DestroyMenu
             /\ UNCHANGED <<x11Tray, initializing>>
    BY <1>3, MenuDestroyed DEF HasTray, MenuHasTray
  <1>4. CASE /\ ~(tray \/ x11Tray /= None)
             /\ \E t \in Trays \ initializing : x11Tray' = t
             /\ EnsureMenu /\ UNCHANGED <<tray, menuState, shows>>
    BY <1>4, WindowsAssumption DEF EnsureMenu, HasTray, MenuHasTray, MenuOpens, Shown
  <1> QED BY <1>1, <1>2, <1>3, <1>4 DEF ShowTray

LEMMA TrayFailed ==
    ASSUME NEW t, TrayFails(t), Shown, MenuOpens, MenuHasTray, HasTray,
           menuState = "opening" => menuWindow /= "none"
    PROVE  /\ HasTray' /\ MenuHasTray' /\ MenuOpens' /\ Shown'
           /\ ~(tray /\ x11Tray /= None) => ~(tray' /\ x11Tray' /= None)
           /\ menuState' = "opening" => menuWindow' /= "none"
  <1>1. CASE x11Tray /= t
    BY <1>1 DEF TrayFails, HasTray, MenuHasTray, MenuOpens, Shown, menuVars
  <1>2. CASE x11Tray = t
    BY <1>2, MenuDestroyed DEF TrayFails, HasTray, MenuHasTray
  <1> QED BY <1>1, <1>2

\* The process has ended, or the app goes on with what is left.
LEMMA ClosedKeeps ==
    ASSUME NEW m, NEW es, NEW ts, m => main, IInv,
           Closed(m, es, ts), UNCHANGED settings
    PROVE  IInv'
  <1> USE DEF IInv
  <1>1. CASE Exited
    BY <1>1, MenuDestroyed DEF Exited, TrayIsWanted, MenuHasTray, QuitGoesOn, Ended,
       HasTray, AppIsReachable
  <1>2. CASE /\ ~(AllClosed(m, es, ts) /\ ending /\ menuWindow = "none")
             /\ ~(AllClosed(m, es, ts) /\ ~quitting /\ ~TrayInBackground)
             /\ main' = m /\ editors' = es /\ terminals' = ts
             /\ UNCHANGED <<running, quitting, ending, trayVars, menuVars, refused>>
    <2>1. UNCHANGED <<tray, x11Tray, menuWindow, menuState, shows, enabled, background>>
      BY <1>2 DEF trayVars, menuVars, settings
    <2>2. Shown' /\ TrayIsWanted' /\ MenuHasTray' /\ MenuOpens' /\ QuitGoesOn'
          /\ Ended' /\ (menuState' = "opening" => menuWindow' /= "none")
      BY <1>2, <2>1 DEF Shown, TrayIsWanted, MenuHasTray, MenuOpens, QuitGoesOn, Ended, HasTray
    <2>3. AppIsReachable'
      BY <1>2, <2>1 DEF AppIsReachable, TrayIsWanted, MenuHasTray, QuitGoesOn, Ended,
                        HasTray, TrayInBackground, AllClosed
    <2> QED BY <2>2, <2>3
  <1> QED BY <1>1, <1>2 DEF Closed

-----------------------------------------------------------------------------
(* The steps. *)

\* Nothing but the windows and the quit changes.
LEMMA OnlyWindows ==
    ASSUME IInv, QuitGoesOn', AppIsReachable', Ended',
           UNCHANGED <<running, enabled, tray, x11Tray, menuVars>>
    PROVE  IInv'
  BY DEF IInv, Shown, TrayIsWanted, MenuHasTray, MenuOpens, HasTray, menuVars

LEMMA InitInv == Init => IInv
  BY DEF Init, IInv, Shown, NoShows, TrayIsWanted, MenuHasTray, MenuOpens, QuitGoesOn,
     Ended, HasTray, AppIsReachable

LEMMA WindowsInv == IInv /\ Windows => IInv'
  <1> SUFFICES ASSUME IInv, Windows PROVE IInv'
    OBVIOUS
  <1>1. CASE MainCloses
    BY <1>1, ClosedKeeps DEF MainCloses
  <1>2. CASE RendererDies
    BY <1>2, MenuDestroyed DEF RendererDies, Exited, IInv, TrayIsWanted, MenuHasTray,
                               QuitGoesOn, Ended, HasTray, AppIsReachable
  <1>3. CASE ShowWindow
    BY <1>3, OnlyWindows DEF ShowWindow, IInv, QuitGoesOn, Ended, HasTray, AppIsReachable,
       AllClosed, trayVars, settings
  <1>4. CASE Quit
    <2>1. CASE AllClosed(main, editors, terminals)
      BY <1>4, <2>1, MenuDestroyed DEF Quit, Exited, IInv, TrayIsWanted, MenuHasTray,
                                       QuitGoesOn, Ended, HasTray, AppIsReachable
    <2>2. CASE ~AllClosed(main, editors, terminals)
      <3>1. /\ UNCHANGED <<running, main, editors, terminals, tray, x11Tray, enabled>>
            /\ quitting' = TRUE /\ DestroyMenu /\ (ending' \/ refused')
        BY <1>4, <2>2 DEF Quit, trayVars, settings
      <3> QED
        BY <2>2, <3>1, MenuDestroyed DEF IInv, TrayIsWanted, MenuHasTray, QuitGoesOn, Ended,
                                         AppIsReachable, HasTray
    <2> QED BY <2>1, <2>2
  <1>5. ASSUME NEW t \in Terminals, TerminalCloses(t) PROVE IInv'
    BY <1>5, ClosedKeeps DEF TerminalCloses
  <1>6. ASSUME NEW t \in Terminals, OpensTerminal(t) PROVE IInv'
    BY <1>6, OnlyWindows DEF OpensTerminal, IInv, QuitGoesOn, Ended, HasTray,
       AppIsReachable, AllClosed, trayVars, settings
  <1>7. ASSUME NEW e \in Editors, EditorCloses(e) PROVE IInv'
    BY <1>7, ClosedKeeps DEF EditorCloses
  <1>8. ASSUME NEW e \in Editors, EditorRefuses(e) PROVE IInv'
    BY <1>8, OnlyWindows DEF EditorRefuses, IInv, QuitGoesOn, Ended, HasTray,
       AppIsReachable, AllClosed, trayVars, settings
  <1>9. ASSUME NEW e \in Editors, OpensEditor(e) PROVE IInv'
    BY <1>9, OnlyWindows DEF OpensEditor, IInv, QuitGoesOn, Ended, HasTray, AppIsReachable,
       AllClosed, trayVars, settings
  <1>10. ASSUME NEW e \in Editors, EditorEdited(e) PROVE IInv'
    <2>1. AllClosed(main', editors', terminals') => AllClosed(main, editors, terminals)
      BY <1>10 DEF EditorEdited, AllClosed
    <2> QED
      BY <1>10, <2>1, OnlyWindows DEF EditorEdited, IInv, QuitGoesOn, Ended, HasTray,
         AppIsReachable, trayVars, settings
  <1> QED
    BY <1>1, <1>2, <1>3, <1>4, <1>5, <1>6, <1>7, <1>8, <1>9, <1>10 DEF Windows

LEMMA TrayInv == IInv /\ Tray => IInv'
  <1> SUFFICES ASSUME IInv, Tray PROVE IInv'
    OBVIOUS
  <1> USE DEF IInv
  <1>1. ASSUME NEW t \in Trays, TrayReady(t) PROVE IInv'
    <2>1. running /\ UNCHANGED <<running, main, editors, terminals, quitting, ending,
                                 enabled, refused>>
      BY <1>1 DEF TrayReady, settings
    <2>2. CASE UNCHANGED <<tray, x11Tray, menuVars>>
      BY <2>1, <2>2, OnlyWindows DEF QuitGoesOn, Ended, HasTray, AppIsReachable, AllClosed
    <2>3. CASE TrayFails(t)
      <3>1. CASE HasTray
        <4>1. HasTray' /\ MenuHasTray' /\ MenuOpens' /\ Shown'
              /\ (~(tray /\ x11Tray /= None) => ~(tray' /\ x11Tray' /= None))
              /\ (menuState' = "opening" => menuWindow' /= "none")
          BY <2>3, <3>1, TrayFailed
        <4> QED BY <2>1, <3>1, <4>1 DEF TrayIsWanted, QuitGoesOn, Ended, AppIsReachable,
                   HasTray
      <3>2. CASE ~HasTray
        BY <2>1, <2>3, <3>2, OnlyWindows, WindowsAssumption
           DEF TrayFails, HasTray, QuitGoesOn, Ended, AppIsReachable, AllClosed
      <3> QED BY <3>1, <3>2
    <2> QED BY <1>1, <2>2, <2>3 DEF TrayReady
  <1>2. ASSUME NEW s \in Shows, TrayClicked(s) PROVE IInv'
    <2>1. /\ UNCHANGED <<running, main, editors, terminals, quitting, ending, enabled,
                         refused, tray, x11Tray>>
          /\ HasTray /\ menuWindow' /= "none"
      BY <1>2, WindowsAssumption DEF TrayClicked, EnsureMenu, HasTray, settings, trayVars
    <2>2. Shown' /\ MenuOpens'
      BY <1>2 DEF TrayClicked, Shown, MenuOpens
    <2> QED
      BY <2>1, <2>2 DEF TrayIsWanted, MenuHasTray, HasTray, QuitGoesOn, Ended, AppIsReachable
  <1>3. ASSUME NEW s \in Shows, ShowContinues(s) PROVE IInv'
    <2>1. /\ UNCHANGED <<running, main, editors, terminals, quitting, ending, enabled,
                         refused, tray, x11Tray, menuWindow>>
      BY <1>3 DEF ShowContinues, settings, trayVars
    <2>2. Shown' /\ MenuOpens' /\ (menuState' = "opening" => menuState = "opening")
      BY <1>3 DEF ShowContinues, Shown, MenuOpens
    <2> QED
      BY <2>1, <2>2 DEF TrayIsWanted, MenuHasTray, HasTray, QuitGoesOn, Ended, AppIsReachable
  <1>4. CASE MenuLoads
    BY <1>4 DEF MenuLoads, Shown, TrayIsWanted, MenuHasTray, MenuOpens, HasTray, QuitGoesOn,
       Ended, AppIsReachable, trayVars, settings
  <1>5. CASE MenuHides
    BY <1>5 DEF MenuHides, Shown, TrayIsWanted, MenuHasTray, MenuOpens, HasTray, QuitGoesOn,
       Ended, AppIsReachable, trayVars, settings
  <1>6. ASSUME NEW value \in BOOLEAN, SetTrayEnabled(value) PROVE IInv'
    <2>1. /\ main /\ running /\ enabled' = value
          /\ UNCHANGED <<running, main, editors, terminals, quitting, ending, refused>>
      BY <1>6 DEF SetTrayEnabled, Ended
    <2>2. QuitGoesOn' /\ AppIsReachable' /\ Ended'
      BY <2>1 DEF QuitGoesOn, Ended, HasTray, AppIsReachable, AllClosed
    <2>3. CASE value /\ ShowTray
      <3>1. HasTray' /\ MenuHasTray' /\ MenuOpens' /\ Shown'
            /\ (~(tray /\ x11Tray /= None) => ~(tray' /\ x11Tray' /= None))
            /\ (menuState' = "opening" => menuWindow' /= "none")
        BY <2>3, TrayShown
      <3> QED BY <2>1, <2>2, <2>3, <3>1 DEF TrayIsWanted, HasTray
    <2>4. CASE ~value /\ HideTray
      BY <2>1, <2>2, <2>4, TrayHidden DEF TrayIsWanted, HasTray
    <2> QED BY <1>6, <2>3, <2>4 DEF SetTrayEnabled
  <1>7. ASSUME NEW value \in BOOLEAN, SetTrayInBackground(value) PROVE IInv'
    BY <1>7 DEF SetTrayInBackground, Shown, TrayIsWanted, MenuHasTray, MenuOpens, HasTray,
                QuitGoesOn, Ended, AppIsReachable, trayVars, menuVars
  <1> QED BY <1>1, <1>2, <1>3, <1>4, <1>5, <1>6, <1>7 DEF Tray

LEMMA StartInv == IInv /\ (\E atLogin \in BOOLEAN : AppStarts(atLogin)) => IInv'
  <1> SUFFICES ASSUME IInv, NEW atLogin \in BOOLEAN, AppStarts(atLogin) PROVE IInv'
    OBVIOUS
  <1> USE DEF IInv
  <1>1. /\ ~running /\ running' /\ main' = ~(atLogin /\ TrayInBackground)
        /\ UNCHANGED <<editors, terminals, quitting, ending, enabled, background, refused>>
    BY DEF AppStarts, settings
  <1>2. QuitGoesOn'
    BY <1>1 DEF QuitGoesOn, Ended, HasTray
  <1>3. CASE enabled
    <2>1. ShowTray BY <1>1, <1>3 DEF AppStarts
    <2>2. HasTray' /\ MenuHasTray' /\ MenuOpens' /\ Shown'
          /\ (~(tray /\ x11Tray /= None) => ~(tray' /\ x11Tray' /= None))
          /\ (menuState' = "opening" => menuWindow' /= "none")
      BY <2>1, TrayShown
    <2> QED
      BY <1>1, <1>2, <1>3, <2>2 DEF TrayIsWanted, HasTray, Ended, AppIsReachable
  <1>4. CASE ~enabled
    <2>1. UNCHANGED <<trayVars, menuVars>> BY <1>1, <1>4 DEF AppStarts
    <2>2. main' BY <1>1, <1>4 DEF TrayInBackground
    <2> QED
      BY <1>1, <1>2, <1>4, <2>1, <2>2
         DEF TrayIsWanted, HasTray, Ended, AppIsReachable, AllClosed, Shown, MenuOpens,
             MenuHasTray, trayVars, menuVars
  <1> QED BY <1>3, <1>4

LEMMA NextInv == IInv /\ [Next]_vars => IInv'
  <1>1. IInv /\ UNCHANGED vars => IInv'
    BY DEF IInv, Shown, TrayIsWanted, MenuHasTray, MenuOpens, HasTray, QuitGoesOn, Ended,
           AppIsReachable, AllClosed, vars, trayVars, menuVars, settings
  <1> QED BY <1>1, WindowsInv, TrayInv, StartInv DEF Next

LEMMA Invariant == Spec => []IInv
  BY InitInv, NextInv, PTL DEF Spec

\* The app never lives on without a window and without a tray, but after a quit that
\* an unsaved editor has refused (maybeQuitAfterWindowClosed, before-quit).
THEOREM AppCanBeReached == Spec => []AppIsReachable
  <1>1. IInv => AppIsReachable BY DEF IInv
  <1> QED BY <1>1, Invariant, PTL

\* The one tray is there while the setting asks for it, and a menu that is opening
\* has a call that opens it (updateTrayVisibility, showTrayMenu).
THEOREM TrayIsTheSettings == Spec => []TrayFollowsSetting
  <1>1. IInv => TrayFollowsSetting
    BY DEF IInv, TrayIsWanted, HasTray, MenuOpens, TrayFollowsSetting
  <1> QED BY <1>1, Invariant, PTL

-----------------------------------------------------------------------------
(* Onboarding. *)

\* What is on screen is the present session.
ShownIsSession == shown /= Nothing => shown = session

\* The present session has been made and not cancelled, and is polled for, unless its
\* loop gave up at the deadline.
SessionIsPolled ==
    session /= Nothing => session <= made /\ ~cancelled /\ (Running(session) \/ session \in expired)

\* A loop whose import is through is not that of the present session.
DoneIsOver == \A s \in Sessions : loop[s].done => session /= s

\* A session that has not been made has no loop.
NotYetMade == \A s \in Sessions : s > made => loop[s] = NoLoop

OnboardingInv == OnboardingTypeOK /\ ShownIsSession /\ SessionIsPolled /\ DoneIsOver /\ NotYetMade

-----------------------------------------------------------------------------
LEMMA NoLoopType == NoLoop \in Loops /\ ~NoLoop.done /\ NoLoop.at = "none"
  BY OnboardingAssumption DEF NoLoop, Loops, Steps, Keys

LEMMA OnboardingInitInv == OnboardingInit => OnboardingInv
  <1> SUFFICES ASSUME OnboardingInit PROVE OnboardingInv
    OBVIOUS
  <1>1. 0 \in 0 .. MaxSessions /\ 0 \in 0 .. MaxPushes
    BY OnboardingAssumption
  <1>2. OnboardingTypeOK BY <1>1, NoLoopType DEF OnboardingInit, OnboardingTypeOK
  <1> QED
    BY <1>2, NoLoopType DEF OnboardingInit, OnboardingInv, ShownIsSession, SessionIsPolled,
       DoneIsOver, NotYetMade

LEMMA CreateInv == OnboardingInv /\ Create => OnboardingInv'
  <1> SUFFICES ASSUME OnboardingInv, Create PROVE OnboardingInv'
    OBVIOUS
  <1> USE DEF OnboardingInv
  <1>1. made + 1 \in Sessions /\ made' = made + 1 /\ session' = made + 1
        /\ shown' = made + 1 /\ cancelled' = FALSE /\ made \in Nat
        /\ UNCHANGED <<inbox, pushes, expired>>
    BY OnboardingAssumption DEF Create, OnboardingTypeOK, Sessions
  <1>2. [NoLoop EXCEPT !.at = "test"] \in Loops /\ ~[NoLoop EXCEPT !.at = "test"].done
        /\ [NoLoop EXCEPT !.at = "test"].at = "test"
    BY NoLoopType DEF Loops, Steps
  <1>3. loop' = [loop EXCEPT ![made + 1] = [NoLoop EXCEPT !.at = "test"]]
    BY DEF Create
  <1>4. OnboardingTypeOK'
    <2>1. loop' \in [Sessions -> Loops] BY <1>2, <1>3 DEF OnboardingTypeOK
    <2>2. made' \in 0 .. MaxSessions BY <1>1 DEF Sessions, OnboardingTypeOK
    <2> QED BY <1>1, <2>1, <2>2 DEF OnboardingTypeOK
  <1>5. ShownIsSession' /\ SessionIsPolled'
    BY <1>1, <1>2, <1>3 DEF ShownIsSession, SessionIsPolled, Running, OnboardingTypeOK
  <1>6. \A s \in Sessions : s /= made + 1 => loop'[s] = loop[s]
    BY <1>3 DEF OnboardingTypeOK
  <1>7. DoneIsOver'
    <2>1. ~loop'[made + 1].done BY <1>1, <1>2, <1>3 DEF OnboardingTypeOK
    <2> QED BY <1>1, <1>6, <2>1 DEF DoneIsOver
  <1>8. NotYetMade'
    BY <1>1, <1>6 DEF NotYetMade, Sessions
  <1> QED BY <1>4, <1>5, <1>7, <1>8

LEMMA ScreenInv == OnboardingInv /\ (Start \/ Restart \/ Cancel \/ WindowCloses) => OnboardingInv'
  <1> SUFFICES ASSUME OnboardingInv, Start \/ Restart \/ Cancel \/ WindowCloses PROVE OnboardingInv'
    OBVIOUS
  <1> USE DEF OnboardingInv, OnboardingTypeOK, ShownIsSession, SessionIsPolled, DoneIsOver,
              NotYetMade, Running
  <1>1. CASE Create
    BY <1>1, CreateInv
  <1>2. CASE Start /\ ~Create
    BY <1>2, NothingAssumption DEF Start
  <1>3. CASE Cancel
    BY <1>3, NothingAssumption DEF Cancel
  <1>4. CASE WindowCloses
    BY <1>4 DEF WindowCloses
  <1> QED BY <1>1, <1>2, <1>3, <1>4 DEF Restart

LEMMA PushInv ==
    ASSUME OnboardingInv, NEW s \in Sessions, NEW k \in Keys, BotPushes(s, k)
    PROVE  OnboardingInv'
  <1>1. PICK payload \in Configs \cup {"told"} : inbox' = [inbox EXCEPT ![s][k] = payload]
    BY DEF BotPushes
  <1>2. inbox' \in [Sessions -> [Keys -> Configs \cup {"told", Nothing}]]
    BY <1>1 DEF OnboardingInv, OnboardingTypeOK
  <1>3. pushes' \in 0 .. MaxPushes
    BY OnboardingAssumption DEF BotPushes, OnboardingInv, OnboardingTypeOK
  <1> QED
    BY <1>2, <1>3 DEF BotPushes, OnboardingInv, OnboardingTypeOK, ShownIsSession,
       SessionIsPolled, DoneIsOver, NotYetMade, Running

-----------------------------------------------------------------------------
(* The loops. *)

\* A loop goes on as l, and says something of its session or of the screen.  A loop
\* of the present session that ends has given up.
LEMMA LoopKeeps ==
    ASSUME OnboardingInv, NEW s \in Sessions, loop[s].at /= "none",
           NEW l \in Loops, loop' = [loop EXCEPT ![s] = l],
           session' \in {session, Nothing}, shown' \in {shown, Nothing},
           session' = Nothing => shown' = Nothing,
           expired' \in {expired, expired \cup {s}},
           session' = s => ~l.done /\ (l.at \notin {"none", "ended"} \/ s \in expired'),
           inbox' \in [Sessions -> [Keys -> Configs \cup {"told", Nothing}]],
           UNCHANGED <<cancelled, made, pushes>>
    PROVE  OnboardingInv'
  <1> USE DEF OnboardingInv
  <1>1. s \in Nat /\ made \in Nat /\ s <= made
    BY NoLoopType DEF NotYetMade, OnboardingTypeOK, Sessions
  <1>2. loop' \in [Sessions -> Loops] /\ loop'[s] = l
        /\ \A r \in Sessions : r /= s => loop'[r] = loop[r]
    BY DEF OnboardingTypeOK
  <1>3. OnboardingTypeOK' BY <1>2 DEF OnboardingTypeOK
  <1>4. ShownIsSession' BY DEF ShownIsSession
  <1>5. SessionIsPolled' BY <1>1, <1>2 DEF SessionIsPolled, Running, OnboardingTypeOK
  <1>6. DoneIsOver' BY <1>2, NothingAssumption DEF DoneIsOver
  <1>7. NotYetMade' BY <1>1, <1>2 DEF NotYetMade, Sessions
  <1> QED BY <1>3, <1>4, <1>5, <1>6, <1>7

LEMMA EndsType == [NoLoop EXCEPT !.at = "ended"] \in Loops
  BY NoLoopType DEF Loops, Steps

\* The present session is active.
LEMMA PresentIsActive ==
    ASSUME OnboardingInv, NEW s \in Sessions, session = s
    PROVE  Active(s) /\ ~loop[s].done
  BY NothingAssumption DEF OnboardingInv, SessionIsPolled, DoneIsOver, Active

\* The loop goes on with another await.
LEMMA GoesInv ==
    ASSUME OnboardingInv, NEW s \in Sessions, loop[s].at /= "none",
           NEW at \in Steps \ {"none", "ended"}, NEW config \in Configs \cup {Nothing},
           Goes(s, [loop[s] EXCEPT !.at = at, !.config = config]),
           inbox' \in [Sessions -> [Keys -> Configs \cup {"told", Nothing}]],
           UNCHANGED <<session, cancelled, made, pushes, shown, expired>>
    PROVE  OnboardingInv'
  <1> DEFINE l == [loop[s] EXCEPT !.at = at, !.config = config]
  <1>1. l \in Loops /\ l.at = at /\ l.done = loop[s].done
    BY DEF OnboardingInv, OnboardingTypeOK, Loops
  <1>2. session' = s => ~l.done BY <1>1, PresentIsActive
  <1>3. session = Nothing => shown = Nothing BY DEF OnboardingInv, ShownIsSession
  <1> QED BY <1>1, <1>2, <1>3, LoopKeeps DEF Goes

LEMMA CodeIsNext ==
    ASSUME NEW l \in Loops, NEW done \in BOOLEAN
    PROVE  LET next == [l EXCEPT !.at = "poll", !.key = "code", !.config = Nothing, !.done = done]
           IN  next \in Loops /\ next.at = "poll" /\ next.done = done
  <1> DEFINE next == [l EXCEPT !.at = "poll", !.key = "code", !.config = Nothing, !.done = done]
  <1>1. "poll" \in Steps /\ "code" \in Keys /\ Nothing \in Configs \cup {Nothing}
    BY DEF Steps, Keys
  <1>2. next \in Loops BY <1>1 DEF Loops
  <1>3. next.at = "poll" /\ next.done = done BY DEF Loops
  <1> QED BY <1>2, <1>3

\* A key has been polled, and the screen is told when its push was imported.
LEMMA PolledInv ==
    ASSUME OnboardingInv, NEW s \in Sessions, loop[s].at /= "none",
           NEW done \in BOOLEAN, Polled(s, done),
           \/ UNCHANGED <<session, shown>> /\ done = FALSE
           \/ session' = Nothing /\ shown' = Nothing,
           inbox' \in [Sessions -> [Keys -> Configs \cup {"told", Nothing}]],
           UNCHANGED <<cancelled, made, pushes, expired>>
    PROVE  OnboardingInv'
  <1>1. /\ session' \in {session, Nothing} /\ shown' \in {shown, Nothing}
        /\ session' = Nothing => shown' = Nothing
        /\ session' = s => session = s /\ done = FALSE
    BY NothingAssumption DEF OnboardingInv, ShownIsSession
  <1>2. CASE loop[s].key = "uuid"
    <2> DEFINE l == [loop[s] EXCEPT !.at = "poll", !.key = "code", !.config = Nothing,
                                    !.done = done]
    <2>1. loop[s] \in Loops BY DEF OnboardingInv, OnboardingTypeOK
    <2>2. l \in Loops /\ l.at = "poll" /\ l.done = done BY <2>1, CodeIsNext
    <2>3. loop' = [loop EXCEPT ![s] = l] BY <1>2 DEF Polled, Goes
    <2> QED BY <1>1, <2>2, <2>3, LoopKeeps
  <1>3. CASE loop[s].key /= "uuid" /\ (~Active(s) \/ done \/ loop[s].done)
    <2>1. session' /= s BY <1>1, <1>3, PresentIsActive
    <2>2. loop' = [loop EXCEPT ![s] = [NoLoop EXCEPT !.at = "ended"]]
      BY <1>3 DEF Polled, Round, Ends
    <2> QED BY <1>1, <2>1, <2>2, EndsType, LoopKeeps
  <1>4. CASE loop[s].key /= "uuid" /\ ~(~Active(s) \/ done \/ loop[s].done)
    <2> DEFINE l == [NoLoop EXCEPT !.at = "sleep", !.rounds = loop[s].rounds]
    <2>1. l \in Loops /\ l.at = "sleep" /\ ~l.done
      BY NoLoopType DEF OnboardingInv, OnboardingTypeOK, Loops, Steps
    <2>2. loop' = [loop EXCEPT ![s] = l] BY <1>4 DEF Polled, Round, Goes
    <2> QED BY <1>1, <2>1, <2>2, LoopKeeps
  <1> QED BY <1>2, <1>3, <1>4

-----------------------------------------------------------------------------
(* The actions of a loop. *)

LEMMA TestInv == ASSUME OnboardingInv, NEW s \in Sessions, Test(s) PROVE OnboardingInv'
  <1>1. session = Nothing => shown = Nothing BY DEF OnboardingInv, ShownIsSession
  <1>2. inbox' \in [Sessions -> [Keys -> Configs \cup {"told", Nothing}]]
        /\ UNCHANGED <<session, cancelled, made, inbox, pushes>> /\ loop[s].at /= "none"
    BY DEF Test, OnboardingInv, OnboardingTypeOK
  <1>3. CASE GoesOn(s) /\ UNCHANGED <<shown, expired>>
             /\ Goes(s, [loop[s] EXCEPT !.at = "poll", !.key = "uuid",
                                        !.rounds = IF Due(s) THEN @ ELSE @ + 1])
    <2> DEFINE rounds == IF Due(s) THEN loop[s].rounds ELSE loop[s].rounds + 1
               l == [loop[s] EXCEPT !.at = "poll", !.key = "uuid", !.rounds = rounds]
    <2>1. loop[s] \in Loops BY DEF OnboardingInv, OnboardingTypeOK
    <2>2. rounds \in 0 .. MaxRounds
      BY <2>1, OnboardingAssumption DEF Due, Loops
    <2>3. l \in Loops /\ l.at = "poll" /\ l.done = loop[s].done
      BY <2>1, <2>2 DEF Loops, Steps, Keys
    <2>4. loop' = [loop EXCEPT ![s] = l] BY <1>3 DEF Goes
    <2>5. session' = s => ~l.done BY <1>2, <2>3, PresentIsActive
    <2> QED BY <1>1, <1>2, <1>3, <2>3, <2>4, <2>5, LoopKeeps
  <1>4. CASE Ends(s) /\ Active(s) /\ shown' = Nothing /\ expired' = expired \cup {s}
    <2>1. ~[NoLoop EXCEPT !.at = "ended"].done BY DEF NoLoop
    <2> QED BY <1>2, <1>4, <2>1, EndsType, LoopKeeps DEF Ends
  <1>5. CASE Ends(s) /\ ~Active(s) /\ UNCHANGED <<shown, expired>>
    <2>1. session' /= s BY <1>2, <1>5, PresentIsActive
    <2> QED BY <1>1, <1>2, <1>5, <2>1, EndsType, LoopKeeps DEF Ends
  <1> QED BY <1>3, <1>4, <1>5 DEF Test

\* No request of the import is the last thing a loop does.
LEMMA AfterFailedType ==
    ASSUME NEW at \in Steps, NEW config, NEW timeout \in BOOLEAN
    PROVE  AfterFailed(at, config, timeout) \in {"again", "mirror", "anchor", "failed"}
  BY DEF AfterFailed

LEMMA RequestInv ==
    ASSUME OnboardingInv, NEW s \in Sessions,
           Sleeps(s) \/ FetchAnswers(s) \/ FetchFails(s) \/ CreateFails(s) \/ PollIsEmpty(s)
    PROVE  OnboardingInv'
  <1>1. /\ loop[s] \in Loops /\ loop[s].at /= "none"
        /\ UNCHANGED <<session, cancelled, made, inbox, pushes, shown, expired>>
        /\ inbox' \in [Sessions -> [Keys -> Configs \cup {"told", Nothing}]]
    BY DEF OnboardingInv, OnboardingTypeOK, Sleeps, FetchAnswers, FetchFails, CreateFails,
       PollIsEmpty
  <1>2. ASSUME Polled(s, FALSE) PROVE OnboardingInv'
    BY <1>1, <1>2, PolledInv
  <1>3. ASSUME NEW at \in Steps \ {"none", "ended"}, Goes(s, [loop[s] EXCEPT !.at = at])
        PROVE  OnboardingInv'
    <2>1. [loop[s] EXCEPT !.at = at] = [loop[s] EXCEPT !.at = at, !.config = loop[s].config]
          /\ loop[s].config \in Configs \cup {Nothing}
      BY <1>1 DEF Loops
    <2> QED BY <1>1, <1>3, <2>1, GoesInv
  <1>4. CASE Sleeps(s) BY <1>3, <1>4 DEF Sleeps, Steps
  <1>5. CASE FetchAnswers(s) BY <1>2, <1>3, <1>5 DEF FetchAnswers, Steps
  <1>6. CASE FetchFails(s)
    <2>1. PICK timeout \in BOOLEAN :
            LET next == AfterFailed(loop[s].at, loop[s].config, timeout)
            IN  IF next = "failed" THEN Polled(s, FALSE)
                ELSE Goes(s, [loop[s] EXCEPT !.at = next])
      BY <1>6 DEF FetchFails
    <2> DEFINE next == AfterFailed(loop[s].at, loop[s].config, timeout)
    <2>2. next \in {"again", "mirror", "anchor", "failed"}
      BY <1>1, AfterFailedType DEF Loops
    <2>3. CASE next = "failed" BY <1>2, <2>1, <2>3
    <2>4. CASE next /= "failed"
      <3>1. next \in Steps \ {"none", "ended"} BY <2>2, <2>4 DEF Steps
      <3> QED BY <1>3, <2>1, <2>4, <3>1
    <2> QED BY <2>3, <2>4
  <1>7. CASE CreateFails(s) BY <1>2, <1>7 DEF CreateFails
  <1>8. CASE PollIsEmpty(s) BY <1>2, <1>8 DEF PollIsEmpty
  <1> QED BY <1>4, <1>5, <1>6, <1>7, <1>8

LEMMA DeliversInv == ASSUME OnboardingInv, NEW s \in Sessions, PollDelivers(s) PROVE OnboardingInv'
  <1> DEFINE k == loop[s].key
             payload == inbox[s][k]
             at == IF payload = "inline" THEN "create" ELSE "quick"
  <1>1. loop[s] \in Loops /\ loop[s].at /= "none" /\ k \in Keys
        /\ UNCHANGED <<session, cancelled, made, pushes, shown, expired>>
    BY DEF OnboardingInv, OnboardingTypeOK, PollDelivers, Loops
  <1>2. inbox' \in [Sessions -> [Keys -> Configs \cup {"told", Nothing}]]
    BY <1>1 DEF OnboardingInv, OnboardingTypeOK, PollDelivers
  <1>3. CASE payload = "told"
    <2>1. Polled(s, FALSE) BY <1>3 DEF PollDelivers
    <2> QED BY <1>1, <1>2, <2>1, PolledInv
  <1>4. CASE payload /= "told"
    <2>1. payload \in Configs \cup {Nothing} BY <1>1, <1>4 DEF OnboardingInv, OnboardingTypeOK
    <2>2. at \in Steps \ {"none", "ended"} BY DEF Steps
    <2>3. Goes(s, [loop[s] EXCEPT !.at = at, !.config = payload])
      BY <1>1, <1>4 DEF PollDelivers, Goes, Loops
    <2> HIDE DEF at, payload
    <2> QED BY <1>1, <1>2, <2>1, <2>2, <2>3, GoesInv
  <1> QED BY <1>3, <1>4

LEMMA SucceedsInv ==
    ASSUME OnboardingInv, NEW s \in Sessions, CreateSucceeds(s)
    PROVE  OnboardingInv'
  <1>1. inbox' \in [Sessions -> [Keys -> Configs \cup {"told", Nothing}]] /\ loop[s].at /= "none"
    BY DEF OnboardingInv, OnboardingTypeOK, CreateSucceeds
  <1> QED BY <1>1, PolledInv DEF CreateSucceeds, Imported

-----------------------------------------------------------------------------
(* Theorems. *)

LEMMA OnboardingNextInv == OnboardingInv /\ [OnboardingNext]_onboardingVars => OnboardingInv'
  <1> SUFFICES ASSUME OnboardingInv, [OnboardingNext]_onboardingVars PROVE OnboardingInv'
    OBVIOUS
  <1>1. CASE Start \/ Restart \/ Cancel \/ WindowCloses BY <1>1, ScreenInv
  <1>2. ASSUME NEW s \in Sessions, LoopStep(s) PROVE OnboardingInv'
    BY <1>2, TestInv, RequestInv, DeliversInv, SucceedsInv DEF LoopStep
  <1>3. ASSUME NEW s \in Sessions, NEW k \in Keys, BotPushes(s, k) PROVE OnboardingInv'
    BY <1>3, PushInv
  <1>4. CASE UNCHANGED onboardingVars
    BY <1>4 DEF onboardingVars, OnboardingInv, OnboardingTypeOK, ShownIsSession,
       SessionIsPolled, DoneIsOver, NotYetMade, Running
  <1> QED BY <1>1, <1>2, <1>3, <1>4 DEF OnboardingNext

LEMMA OnboardingInvariant == OnboardingSpec => []OnboardingInv
  BY OnboardingInitInv, OnboardingNextInv, PTL DEF OnboardingSpec

\* Every loop, key and session stays one of those the code has, for any deadline
\* and any number of codes (onboardingService.ts).
THEOREM TypeCorrect == OnboardingSpec => []OnboardingTypeOK
  <1>1. OnboardingInv => OnboardingTypeOK BY DEF OnboardingInv
  <1> QED BY <1>1, OnboardingInvariant, PTL

\* A code on screen is one a loop polls for, however many loops of earlier sessions
\* still import, or one whose loop gave up (onboardingService.ts:84-133).
THEOREM ShownCodeIsPolled == OnboardingSpec => []ShownIsPolled
  <1>1. OnboardingInv => ShownIsPolled
    BY NothingAssumption DEF OnboardingInv, OnboardingTypeOK, ShownIsSession,
       SessionIsPolled, ShownIsPolled, Active
  <1> QED BY <1>1, OnboardingInvariant, PTL
=============================================================================
