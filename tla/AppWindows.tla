----------------------------- MODULE AppWindows -----------------------------
(***************************************************************************)
(* The windows of the app, its tray and its end: src/src/main/index.ts,    *)
(* tray.ts, trayMenu.ts, x11Tray.ts, the windows of the profile editor and *)
(* of the terminal, and the two settings of the tray (settings.ts).        *)
(*                                                                         *)
(* A quit is Electron's: it asks every window to close, is given up when   *)
(* one of them refuses, and ends the process when the last one is closed.  *)
(* The program's own flag, quitting, is set when a quit begins.            *)
(***************************************************************************)
CONSTANTS
    None,
    Editors,    \* bound: windows of the profile editor
    Terminals,  \* bound: windows of the terminal
    Trays,      \* bound: X11Tray objects whose "ready" is not settled, or shown
    Shows       \* bound: calls of showTrayMenu under way

ASSUME WindowsAssumption == None \notin Trays

VARIABLES
    platform,     \* how the tray is shown (usesX11Tray)
    running,      \* the process
    main,         \* mainWindow is there
    editors,      \* per profile editor window: none, clean, or dirty
    terminals,    \* the terminal windows
    closing,      \* windows that have let their close event pass
    quitting,     \* quitting
    ending,       \* Electron is quitting
    enabled,      \* tray_enabled
    background,   \* tray_in_background
    tray,         \* Electron's tray icon is there
    x11Tray,      \* the current X11Tray
    initializing, \* the X11Trays whose "ready" is not settled
    menuWindow,   \* the window of the tray's menu: none, loading, or loaded
    menuState,
    shows,        \* showTrayMenu calls on this window: what each awaits
    refused       \* history: a window has refused a quit of this run

trayVars == <<tray, x11Tray, initializing>>
menuVars == <<menuWindow, menuState, shows>>
settings == <<enabled, background>>
vars == <<platform, running, main, editors, terminals, closing, quitting, ending,
          settings, trayVars, menuVars, refused>>

NoShows == [s \in Shows |-> "idle"]
AllClosed(m, es, ts) == ~m /\ (\A e \in Editors : es[e] = "none") /\ ts = {}

TrayInBackground == enabled /\ background

\* destroyTrayMenuWindow.  A call that waits returns: its window is destroyed.
DestroyMenu == menuWindow' = "none" /\ menuState' = "closed" /\ shows' = NoShows

\* ensureTrayMenuWindow
EnsureMenu == menuWindow' = IF menuWindow = "none" THEN "loading" ELSE menuWindow

-----------------------------------------------------------------------------
(* The tray. *)

\* createElectronTray: only Windows has a menu window of its own for it.
ElectronTray ==
    /\ tray' = TRUE
    /\ IF platform = "win32" THEN EnsureMenu ELSE UNCHANGED menuWindow
    /\ UNCHANGED <<menuState, shows>>

\* updateTrayVisibility
HideTray ==
    /\ tray' = FALSE /\ x11Tray' = None
    /\ DestroyMenu
    /\ UNCHANGED initializing

ShowTray ==
    IF tray \/ x11Tray /= None THEN UNCHANGED <<trayVars, menuVars>>
    ELSE \/ /\ platform /= "x11"
            /\ ElectronTray
            /\ UNCHANGED <<x11Tray, initializing>>
         \/ /\ platform = "x11"       \* the constructor throws
            /\ tray' = TRUE
            /\ DestroyMenu
            /\ UNCHANGED <<x11Tray, initializing>>
         \/ /\ platform = "x11"
            /\ \E t \in Trays \ initializing :
                 x11Tray' = t /\ initializing' = initializing \cup {t}
            /\ EnsureMenu
            /\ UNCHANGED <<tray, menuState, shows>>

\* Variant: whichever tray failed, the current one is replaced.
TrayFailsAny(t) ==
    /\ tray' = TRUE /\ x11Tray' = None
    /\ DestroyMenu

\* The rejection of "ready" of an X11Tray.
TrayFails(t) ==
    IF x11Tray /= t THEN UNCHANGED <<tray, x11Tray, menuVars>>
    ELSE /\ tray' = TRUE /\ x11Tray' = None   \* createElectronTray on Linux
         /\ DestroyMenu

TrayReady(t) ==
    /\ running /\ t \in initializing
    /\ initializing' = initializing \ {t}
    /\ \/ TrayFails(t)
       \/ UNCHANGED <<tray, x11Tray, menuVars>>
    /\ UNCHANGED <<platform, running, main, editors, terminals, closing, quitting,
                   ending, settings, refused>>

-----------------------------------------------------------------------------
(* The menu of the tray. *)

TrayClicked(s) ==
    /\ running /\ shows[s] = "idle"
    /\ (platform = "win32" /\ tray) \/ x11Tray \in Trays \ initializing
    /\ EnsureMenu
    /\ \/ /\ menuState = "closed"
          /\ menuState' = "opening"
          /\ shows' = [shows EXCEPT ![s] = "load"]
       \/ /\ menuState' = "closed"   \* open, opening, or hidden by this very click
          /\ UNCHANGED shows
    /\ UNCHANGED <<platform, running, main, editors, terminals, closing, quitting,
                   ending, settings, trayVars, refused>>

MenuLoads ==
    /\ running /\ menuWindow = "loading"
    /\ menuWindow' = "loaded"
    /\ UNCHANGED <<platform, running, main, editors, terminals, closing, quitting,
                   ending, settings, trayVars, menuState, shows, refused>>

\* The two awaits of showTrayMenu.
ShowContinues(s) ==
    /\ running /\ menuWindow = "loaded" /\ shows[s] /= "idle"
    /\ IF menuState /= "opening"
       THEN shows' = [shows EXCEPT ![s] = "idle"] /\ UNCHANGED menuState
       ELSE IF shows[s] = "load"
       THEN shows' = [shows EXCEPT ![s] = "script"] /\ UNCHANGED menuState
       ELSE shows' = [shows EXCEPT ![s] = "idle"] /\ menuState' = "open"
    /\ UNCHANGED <<platform, running, main, editors, terminals, closing, quitting,
                   ending, settings, trayVars, menuWindow, refused>>

\* hideTrayMenu: blur, or a close that is never let through.
MenuHides ==
    /\ running /\ menuWindow /= "none" /\ menuState /= "closed"
    /\ menuState' = "closed"
    /\ UNCHANGED <<platform, running, main, editors, terminals, closing, quitting,
                   ending, settings, trayVars, menuWindow, shows, refused>>

-----------------------------------------------------------------------------
(* The end. *)

Exited ==
    /\ running' = FALSE /\ main' = FALSE
    /\ editors' = [e \in Editors |-> "none"] /\ terminals' = {} /\ closing' = {}
    /\ quitting' = FALSE /\ ending' = FALSE /\ refused' = FALSE
    /\ tray' = FALSE /\ x11Tray' = None /\ initializing' = {}
    /\ DestroyMenu

\* app.quit: before-quit, then every window is asked at once.  The windows that let
\* it pass go on closing even if another has refused.
Quit ==
    /\ running
    /\ IF AllClosed(main, editors, terminals)
       THEN Exited
       ELSE LET dirty == {e \in Editors : editors[e] = "dirty" /\ e \notin closing}
            IN  /\ quitting' = TRUE
                /\ DestroyMenu
                /\ ending' = (dirty = {})
                /\ refused' = (refused \/ dirty /= {})
                /\ closing' = {w \in {"main"} : main} \cup terminals
                              \cup {e \in Editors \ dirty : editors[e] /= "none"}
                /\ UNCHANGED <<running, main, editors, terminals, trayVars>>
    /\ UNCHANGED <<platform, settings>>

\* Variant: only the main window looks for others.
ClosedMain(m, es, ts) ==
    IF \/ AllClosed(m, es, ts) /\ ending /\ menuWindow = "none"
       \/ AllClosed(m, es, ts) /\ ~quitting /\ ~TrayInBackground /\ main
    THEN Exited
    ELSE /\ main' = m /\ editors' = es /\ terminals' = ts
         /\ closing' = closing \ ( {w \in {"main"} : ~m} \cup (terminals \ ts)
                                   \cup {e \in Editors : es[e] = "none"})
         /\ UNCHANGED <<running, quitting, ending, trayVars, menuVars, refused>>

\* The closed events, with what is left: maybeQuitAfterWindowClosed, and Electron's
\* own end of a quit.
Closed(m, es, ts) ==
    IF \/ AllClosed(m, es, ts) /\ ending /\ menuWindow = "none"
       \/ AllClosed(m, es, ts) /\ ~quitting /\ ~TrayInBackground
    THEN Exited
    ELSE /\ main' = m /\ editors' = es /\ terminals' = ts
         /\ closing' = closing \ ( {w \in {"main"} : ~m} \cup (terminals \ ts)
                                   \cup {e \in Editors : es[e] = "none"})
         /\ UNCHANGED <<running, quitting, ending, trayVars, menuVars, refused>>

NoEditor(e) == [editors EXCEPT ![e] = "none"]

\* The user closes a window, or it goes on closing.
MainCloses ==
    /\ main
    /\ Closed(FALSE, editors, terminals)
    /\ UNCHANGED <<platform, settings>>

TerminalCloses(t) ==
    /\ t \in terminals
    /\ Closed(main, editors, terminals \ {t})
    /\ UNCHANGED <<platform, settings>>

\* The window of an editor: clean, or the user has said what becomes of the changes
\* (allowClose), or it could not be loaded.
EditorCloses(e) ==
    /\ editors[e] /= "none"
    /\ Closed(main, NoEditor(e), terminals)
    /\ UNCHANGED <<platform, settings>>

\* It is dirty and refuses, which ends Electron's quit as well.
EditorRefuses(e) ==
    /\ editors[e] = "dirty" /\ e \notin closing
    /\ ending' = FALSE
    /\ refused' = (refused \/ ending)
    /\ UNCHANGED <<platform, running, main, editors, terminals, closing, quitting,
                   settings, trayVars, menuVars>>

\* render-process-gone of the main window: handleFatal.
RendererDies ==
    /\ main /\ ~quitting
    /\ Exited
    /\ UNCHANGED <<platform, settings>>

-----------------------------------------------------------------------------
(* The windows. *)

\* showWindow: the tray, a second instance, a link, the dock.
ShowWindow ==
    /\ running
    /\ main' = TRUE
    /\ UNCHANGED <<platform, running, editors, terminals, closing, quitting, ending,
                   settings, trayVars, menuVars, refused>>

OpensEditor(e) ==
    /\ main /\ editors[e] = "none"
    /\ editors' = [editors EXCEPT ![e] = "clean"]
    /\ UNCHANGED <<platform, running, main, terminals, closing, quitting, ending,
                   settings, trayVars, menuVars, refused>>

\* PROFILE_EDITOR_WINDOW_DIRTY
EditorEdited(e) ==
    /\ editors[e] /= "none" /\ e \notin closing
    /\ editors' = [editors EXCEPT ![e] = IF @ = "clean" THEN "dirty" ELSE "clean"]
    /\ UNCHANGED <<platform, running, main, terminals, closing, quitting, ending,
                   settings, trayVars, menuVars, refused>>

OpensTerminal(t) ==
    /\ main /\ t \notin terminals
    /\ terminals' = terminals \cup {t}
    /\ UNCHANGED <<platform, running, main, editors, closing, quitting, ending,
                   settings, trayVars, menuVars, refused>>

\* The settings page of the main window.
SetTrayEnabled(value) ==
    /\ main
    /\ enabled' = value
    /\ IF value THEN ShowTray ELSE HideTray
    /\ UNCHANGED <<platform, running, main, editors, terminals, closing, quitting,
                   ending, background, refused>>

SetTrayInBackground(value) ==
    /\ main
    /\ background' = value
    /\ UNCHANGED <<platform, running, main, editors, terminals, closing, quitting,
                   ending, enabled, trayVars, menuVars, refused>>

\* At login the app starts in the tray, where there is one to be found again.
AppStarts(atLogin) ==
    /\ ~running
    /\ running' = TRUE
    /\ main' = ~(atLogin /\ TrayInBackground)
    /\ IF enabled THEN ShowTray ELSE UNCHANGED <<trayVars, menuVars>>
    /\ UNCHANGED <<platform, editors, terminals, closing, quitting, ending, settings,
                   refused>>

-----------------------------------------------------------------------------
Init ==
    /\ platform \in {"win32", "darwin", "x11", "wayland"}
    /\ enabled = TRUE /\ background = TRUE
    /\ running = FALSE /\ main = FALSE
    /\ editors = [e \in Editors |-> "none"] /\ terminals = {} /\ closing = {}
    /\ quitting = FALSE /\ ending = FALSE /\ refused = FALSE
    /\ tray = FALSE /\ x11Tray = None /\ initializing = {}
    /\ menuWindow = "none" /\ menuState = "closed" /\ shows = NoShows

Windows ==
    \/ MainCloses \/ RendererDies \/ ShowWindow \/ Quit
    \/ \E t \in Terminals : TerminalCloses(t) \/ OpensTerminal(t)
    \/ \E e \in Editors : EditorCloses(e) \/ EditorRefuses(e) \/ OpensEditor(e)
                          \/ EditorEdited(e)

Tray ==
    \/ \E t \in Trays : TrayReady(t)
    \/ \E s \in Shows : TrayClicked(s) \/ ShowContinues(s)
    \/ MenuLoads \/ MenuHides
    \/ \E value \in BOOLEAN : SetTrayEnabled(value) \/ SetTrayInBackground(value)

Next == Windows \/ Tray \/ \E atLogin \in BOOLEAN : AppStarts(atLogin)

Spec == Init /\ [][Next]_vars

-----------------------------------------------------------------------------
(* Properties. *)

\* The types of the state.
TypeOK ==
    /\ platform \in {"win32", "darwin", "x11", "wayland"}
    /\ {running, main, quitting, ending, enabled, background, tray, refused}
         \subseteq BOOLEAN
    /\ editors \in [Editors -> {"none", "clean", "dirty"}]
    /\ terminals \subseteq Terminals
    /\ closing \subseteq {"main"} \cup Editors \cup Terminals
    /\ x11Tray \in Trays \cup {None} /\ initializing \subseteq Trays
    /\ menuWindow \in {"none", "loading", "loaded"}
    /\ menuState \in {"closed", "opening", "open"}
    /\ menuWindow = "none" => menuState = "closed"
    /\ shows \in [Shows -> {"idle", "load", "script"}]

\* The app does not live on unseen: while it runs it has a window or a tray, whatever
\* is closed in whatever order, unless an unsaved editor has refused a quit of this
\* run (quitting is never set back).
AppIsReachable ==
    running =>
      \/ ~AllClosed(main, editors, terminals)
      \/ tray \/ x11Tray /= None
      \/ refused

\* There is a tray exactly while it is switched on, and only one, whenever an earlier
\* X11Tray comes to its end; and a menu that is opening has a call that opens it.
TrayFollowsSetting ==
    /\ running => (enabled <=> tray \/ x11Tray /= None) /\ ~(tray /\ x11Tray /= None)
    /\ menuState = "opening" => \E s \in Shows : shows[s] /= "idle"

=============================================================================
