------------------------------ MODULE Updates ------------------------------
(***************************************************************************)
(* The updates of the app (src/src/main/updates.ts): what the feed offers  *)
(* on the user's track, the download of an installer into the cache, and   *)
(* its installation, which ends in a quit.                                 *)
(*                                                                         *)
(* The feed, the daemon and the installers are not part of the repository; *)
(* a release is its version, and the size is all the program knows of a    *)
(* file.  What has been presented to the user is left out.  The process    *)
(* may end at any await.                                                   *)
(***************************************************************************)
EXTENDS Naturals

CONSTANTS
    None,
    Versions,     \* of the app and of the releases, in order
    Prereleases,  \* some of them
    First         \* the version of the first run

ASSUME UpdatesAssumption ==
    Versions \subseteq Nat /\ Prereleases \subseteq Versions /\ First \in Versions
    /\ None \notin Versions
    \* Of the releases a feed has, one is the newest.
    /\ \A vs \in SUBSET Versions : vs /= {} => \E v \in vs : \A w \in vs : w <= v

Tracks == {"stable", "beta"}

\* AppUpdateInfo.  sized: the feed says how large the file is.
Infos == [version : Versions, sized : BOOLEAN]

VARIABLES
    platform,   \* win32, or darwin
    app,        \* __APP_VERSION__ of this run
    trackPref,  \* update_track, None unless the user has chosen
    stable,     \* stable_track_available
    cached,     \* cached_update_info
    info,       \* runtime.info
    check,      \* checkForUpdate under way: its track, or None
    downloading, installing,   \* runtime.downloading, runtime.installing
    job,        \* the installation: what it installs, and what it awaits
    files,      \* the installers in the cache: none, part, or whole
    temporary,  \* the .download files
    foundFor,   \* history: the track info was found for
    byCheck     \* history: there was no stable track until that very check

stored   == <<trackPref, stable, cached>>
offer    == <<info, cached, foundFor, byCheck>>
progress == <<downloading, installing, job>>
disk     == <<files, temporary>>
vars == <<platform, app, trackPref, stable, offer, check, progress, disk>>

Contents == {"none", "part", "whole"}
Steps == {"look", "fetch", "write", "rename", "squirrel", "install", "quit"}
Jobs  == [info : Infos, at : Steps]
NoFiles == [v \in Versions |-> "none"]

ASSUME NoneAssumption == None \notin Infos /\ None \notin Jobs /\ None \notin Tracks

\* currentTrack of a version: beta until there is a stable one, whatever is preferred.
CurrentTrack(version) ==
    IF ~stable THEN "beta"
    ELSE IF trackPref /= None THEN trackPref
    ELSE IF version \in Prereleases THEN "beta" ELSE "stable"
Track == CurrentTrack(app)

\* shouldIncludeVersion, and the releases of a track: from a prerelease the stable
\* track also leads back.
Includes(version, v, track) == v > version \/ (track = "stable" /\ version \in Prereleases)
Fits(version, v, track) ==
    Includes(version, v, track) /\ ~(track = "stable" /\ v \in Prereleases)

\* setUpdateInfo
Offered(new, track, first) ==
    info' = new /\ cached' = new /\ foundFor' = track /\ byCheck' = first

Init ==
    /\ platform \in {"win32", "darwin"}
    /\ app = First
    /\ trackPref = None /\ stable = FALSE
    /\ info = None /\ cached = None /\ foundFor = None /\ byCheck = FALSE
    /\ check = None
    /\ downloading = FALSE /\ installing = FALSE /\ job = None
    /\ files = NoFiles /\ temporary = NoFiles

-----------------------------------------------------------------------------
(* The check. *)

BeginCheck ==
    /\ check = None
    /\ check' = Track
    /\ UNCHANGED <<platform, app, stored, info, foundFor, byCheck, progress, disk>>

\* Variant: the answer is taken for the track of the check, whatever it is by now.
StillTheTrack == TRUE

\* An answer counts only if the track is still the one it was asked for.
SameTrack == Track = check

\* The newest release that the track of the check admits.
Best(releases) ==
    LET candidates == {v \in releases : Fits(app, v, check)}
    IN  IF candidates = {} THEN None
        ELSE CHOOSE v \in candidates : \A w \in candidates : w <= v

\* A release that is no prerelease makes the stable track available, in the middle
\* of a check for the other one.
CheckAnswers ==
    /\ check /= None /\ check' = None
    /\ \E releases \in SUBSET Versions, sized \in BOOLEAN :
         IF ~SameTrack THEN UNCHANGED <<stored, info, foundFor, byCheck>>
         ELSE LET best == Best(releases)
              IN  /\ stable' = (stable \/ releases \ Prereleases /= {})
                  /\ Offered(IF best = None THEN None ELSE [version |-> best, sized |-> sized],
                             check, ~stable)
                  /\ UNCHANGED trackPref
    /\ UNCHANGED <<platform, app, progress, disk>>

CheckFails ==
    /\ check /= None /\ check' = None
    /\ UNCHANGED <<platform, app, stored, info, foundFor, byCheck, progress, disk>>

SetTrack(track) ==
    /\ stable
    /\ trackPref' = track
    /\ IF info /= None /\ track = "stable" /\ info.version \in Prereleases
       THEN Offered(None, track, FALSE)
       ELSE UNCHANGED offer
    /\ UNCHANGED <<platform, app, stable, check, progress, disk>>

-----------------------------------------------------------------------------
(* The installation. *)

\* resetInstallationState
Reset == job' = None /\ downloading' = FALSE /\ installing' = FALSE

GoesOn(at) == job' = [job EXCEPT !.at = at] /\ UNCHANGED <<downloading, installing>>

\* prepareInstallation
Prepare ==
    /\ info /= None /\ ~downloading /\ ~installing
    /\ downloading' = TRUE /\ installing' = FALSE
    /\ job' = [info |-> info, at |-> IF platform = "darwin" THEN "squirrel" ELSE "look"]
    /\ UNCHANGED <<platform, app, stored, info, foundFor, byCheck, check, disk>>

Installing(at) ==
    /\ downloading' = FALSE /\ installing' = TRUE
    /\ job' = [job EXCEPT !.at = at]

At(step) == job /= None /\ job.at = step

On(contents) == {v \in Versions : contents[v] /= "none"}

\* downloadUpdate up to the request: a file of the right size is taken as it is, else
\* whatever the directory holds is removed.  What will not go stays where it is; if
\* it is the file of this very update, the installation fails.
Look ==
    /\ At("look")
    /\ \/ /\ job.info.sized /\ files[job.info.version] = "whole"
          /\ Installing("install")
          /\ UNCHANGED disk
       \/ /\ ~(job.info.sized /\ files[job.info.version] = "whole")
          /\ \E kept \in SUBSET On(files), keptTemporary \in SUBSET On(temporary) :
               /\ files' = [v \in Versions |-> IF v \in kept THEN files[v] ELSE "none"]
               /\ temporary' = [v \in Versions |->
                                  IF v \in keptTemporary THEN temporary[v] ELSE "none"]
          /\ IF files'[job.info.version] = "none" THEN GoesOn("fetch") ELSE Reset
    /\ UNCHANGED <<platform, app, stored, info, foundFor, byCheck, check>>

\* The response begins.
Fetch ==
    /\ At("fetch")
    /\ temporary' = [temporary EXCEPT ![job.info.version] = "part"]
    /\ GoesOn("write")
    /\ UNCHANGED <<platform, app, stored, info, foundFor, byCheck, check, files>>

\* Variant: the number of bytes is not compared.
TruncatedNever(content) == FALSE

\* What was written is not what the feed said.
Truncated(content) == job.info.sized /\ content /= "whole"

\* The stream ends, whole or early; its file may have been cleared meanwhile.
Written ==
    /\ At("write")
    /\ \E content \in {"part", "whole"} :
         IF Truncated(content)
         THEN /\ temporary' = [temporary EXCEPT ![job.info.version] = "none"]
              /\ Reset
         ELSE /\ temporary' = [temporary EXCEPT ![job.info.version] =
                                 IF @ = "none" THEN "none" ELSE content]
              /\ GoesOn("rename")
    /\ UNCHANGED <<platform, app, stored, info, foundFor, byCheck, check, files>>

Rename ==
    /\ At("rename") /\ temporary[job.info.version] /= "none"
    /\ files' = [files EXCEPT ![job.info.version] = temporary[job.info.version]]
    /\ temporary' = [temporary EXCEPT ![job.info.version] = "none"]
    /\ Installing("install")
    /\ UNCHANGED <<platform, app, stored, info, foundFor, byCheck, check>>

\* An error of any of these, or of the installation: the daemon, the elevated
\* launcher or Squirrel refuses, fails, or is not there.
Fails ==
    /\ job /= None /\ job.at /= "quit"
    /\ Reset
    /\ UNCHANGED <<platform, app, stored, info, foundFor, byCheck, check, disk>>

\* The installer runs, or the bundle is ready: the app asks to quit.
Started ==
    /\ \/ At("install") /\ GoesOn("quit")
       \/ At("squirrel") /\ Installing("quit")
    /\ UNCHANGED <<platform, app, stored, info, foundFor, byCheck, check, disk>>

\* loadCachedUpdate, in the next run.
LoadCached(version) ==
    LET track == CurrentTrack(version)
        keep  == cached /= None /\ Fits(version, cached.version, track)
    IN  Offered(IF keep THEN cached ELSE None, track, FALSE)

\* The process ends and another begins: of this version, or of the one installed,
\* which for Squirrel is what its feed says by now.
Restarts ==
    /\ check' = None
    /\ downloading' = FALSE /\ installing' = FALSE /\ job' = None
    /\ \/ app' = app
       \/ /\ At("quit")
          /\ app' \in IF platform = "win32" THEN {job.info.version}
                     ELSE {v \in Versions : v > app}
    /\ LoadCached(app')
    /\ UNCHANGED <<platform, trackPref, stable, disk>>

\* clearApplicationCache, of the settings.
ClearCache ==
    /\ files' = NoFiles /\ temporary' = NoFiles
    /\ UNCHANGED <<platform, app, stored, info, foundFor, byCheck, check, progress>>

Next ==
    \/ BeginCheck \/ CheckAnswers \/ CheckFails
    \/ \E track \in Tracks : SetTrack(track)
    \/ Prepare \/ Look \/ Fetch \/ Written \/ Rename \/ Fails \/ Started
    \/ Restarts \/ ClearCache

Spec == Init /\ [][Next]_vars

-----------------------------------------------------------------------------
(* Properties. *)

\* The types of the state; the flags tell of the installation there is.
TypeOK ==
    /\ platform \in {"win32", "darwin"} /\ app \in Versions
    /\ trackPref \in Tracks \cup {None} /\ stable \in BOOLEAN
    /\ {info, cached} \subseteq Infos \cup {None}
    /\ check \in Tracks \cup {None}
    /\ job \in Jobs \cup {None}
    /\ downloading = (job /= None /\ job.at \notin {"install", "quit"})
    /\ installing = (At("install") \/ At("quit"))
    /\ files \in [Versions -> Contents] /\ temporary \in [Versions -> Contents]

\* What is handed to the daemon or the launcher is never a download that broke off,
\* in this run or in an earlier one, when the feed told its size: the file is whole,
\* or the user has cleared the cache under it.
InstallerIsWhole ==
    At("install") /\ job.info.sized => files[job.info.version] /= "part"

\* An offer fits the track it was found for and the app that runs.  A check that was
\* under way when the user chose the stable track offers no prerelease; only the
\* check that finds out that there is a stable track still does.
OfferFollowsTrack ==
    info /= None =>
      /\ Fits(app, info.version, foundFor)
      /\ Track = "stable" /\ info.version \in Prereleases => byCheck

=============================================================================
