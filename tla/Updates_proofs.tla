--------------------------- MODULE Updates_proofs ---------------------------
(***************************************************************************)
(* Theorems about Updates: for any versions of which some are prereleases, *)
(* whatever the feed says, and however downloads and runs of the app end.  *)
(***************************************************************************)
EXTENDS Updates, TLAPS

-----------------------------------------------------------------------------
(* Types. *)

\* The newest release a track admits is one of them.
LEMMA BestIsOne ==
    ASSUME NEW releases \in SUBSET Versions, Best(releases) /= None
    PROVE  Best(releases) \in releases /\ Fits(app, Best(releases), check)
  <1> DEFINE candidates == {v \in releases : Fits(app, v, check)}
  <1>1. candidates \in SUBSET Versions /\ candidates /= {}
    BY DEF Best
  <1>2. \E v \in candidates : \A w \in candidates : w <= v
    BY <1>1, UpdatesAssumption
  <1> QED BY <1>1, <1>2 DEF Best

LEMMA OfferedType ==
    ASSUME NEW new \in Infos \cup {None}, NEW track, NEW first,
           Offered(new, track, first)
    PROVE  {info', cached'} \subseteq Infos \cup {None}
  BY DEF Offered

LEMMA InitType == Init => TypeOK
  BY UpdatesAssumption DEF Init, TypeOK, At, NoFiles, Contents

LEMMA NextType == TypeOK /\ [Next]_vars => TypeOK'
  <1> SUFFICES ASSUME TypeOK, [Next]_vars PROVE TypeOK'
    OBVIOUS
  <1> USE DEF TypeOK, At, Contents
  <1>1. CASE BeginCheck
    BY <1>1 DEF BeginCheck, Track, CurrentTrack, Tracks, stored, progress, disk
  <1>2. CASE CheckAnswers
    <2>1. PICK releases \in SUBSET Versions, sized \in BOOLEAN :
            IF ~SameTrack THEN UNCHANGED <<stored, info, foundFor, byCheck>>
            ELSE LET best == Best(releases)
                 IN  /\ stable' = (stable \/ releases \ Prereleases /= {})
                     /\ Offered(IF best = None THEN None
                                ELSE [version |-> best, sized |-> sized], check, ~stable)
                     /\ UNCHANGED trackPref
      BY <1>2 DEF CheckAnswers
    <2>2. (IF Best(releases) = None THEN None
           ELSE [version |-> Best(releases), sized |-> sized]) \in Infos \cup {None}
      BY BestIsOne DEF Infos
    <2>3. {info', cached'} \subseteq Infos \cup {None} /\ stable' \in BOOLEAN
          /\ trackPref' \in Tracks \cup {None}
      BY <2>1, <2>2, OfferedType DEF stored
    <2> QED BY <1>2, <2>3 DEF CheckAnswers, progress, disk
  <1>3. CASE CheckFails
    BY <1>3 DEF CheckFails, stored, progress, disk
  <1>4. ASSUME NEW track \in Tracks, SetTrack(track) PROVE TypeOK'
    BY <1>4 DEF SetTrack, Offered, offer, progress, disk
  <1>5. CASE Prepare
    <2>1. job' \in Jobs /\ job' /= None /\ job'.at \notin {"install", "quit"}
      BY <1>5, NoneAssumption DEF Prepare, Jobs, Steps
    <2>2. downloading' = (job' /= None /\ job'.at \notin {"install", "quit"})
          /\ installing' = (At("install") \/ At("quit"))'
      BY <1>5, <2>1 DEF Prepare
    <2> QED BY <1>5, <2>1, <2>2 DEF Prepare, stored, disk
  <1>6. CASE Look
    <2>1. CASE job.info.sized /\ files[job.info.version] = "whole"
      BY <1>6, <2>1, NoneAssumption DEF Look, Installing, stored, disk, Jobs, Steps
    <2>2. CASE ~(job.info.sized /\ files[job.info.version] = "whole")
      <3>1. files' \in [Versions -> Contents] /\ temporary' \in [Versions -> Contents]
        BY <1>6, <2>2 DEF Look
      <3>2. CASE GoesOn("fetch")
        <4>1. job' \in Jobs /\ job'.at = "fetch"
          BY <1>6, <3>2 DEF Look, GoesOn, Jobs, Steps
        <4> QED BY <1>6, <3>1, <3>2, <4>1, NoneAssumption DEF Look, GoesOn, stored
      <3>3. CASE Reset
        BY <1>6, <3>1, <3>3 DEF Look, Reset, stored
      <3> QED BY <1>6, <2>2, <3>2, <3>3 DEF Look
    <2> QED BY <2>1, <2>2
  <1>7. CASE Fetch
    <2>1. job' \in Jobs /\ job'.at = "write"
      BY <1>7 DEF Fetch, GoesOn, Jobs, Steps
    <2>2. temporary' \in [Versions -> Contents] /\ files' \in [Versions -> Contents]
      BY <1>7 DEF Fetch
    <2> QED BY <1>7, <2>1, <2>2, NoneAssumption DEF Fetch, GoesOn, stored
  <1>8. CASE Written
    <2>1. PICK content \in {"part", "whole"} :
            IF Truncated(content)
            THEN /\ temporary' = [temporary EXCEPT ![job.info.version] = "none"]
                 /\ Reset
            ELSE /\ temporary' = [temporary EXCEPT ![job.info.version] =
                                    IF @ = "none" THEN "none" ELSE content]
                 /\ GoesOn("rename")
      BY <1>8 DEF Written
    <2>2. temporary' \in [Versions -> Contents] BY <2>1
    <2>3. CASE Truncated(content)
      BY <1>8, <2>1, <2>2, <2>3 DEF Written, Reset, stored
    <2>4. CASE ~Truncated(content)
      BY <1>8, <2>1, <2>2, <2>4, NoneAssumption DEF Written, GoesOn, stored, Jobs, Steps
    <2> QED BY <2>3, <2>4
  <1>9. CASE Rename
    BY <1>9, NoneAssumption DEF Rename, Installing, stored, disk, Jobs, Steps
  <1>10. CASE Fails
    BY <1>10 DEF Fails, Reset, stored, disk
  <1>11. CASE Started
    <2>1. CASE At("install") /\ GoesOn("quit")
      BY <1>11, <2>1, NoneAssumption DEF Started, GoesOn, stored, disk, Jobs, Steps
    <2>2. CASE At("squirrel") /\ Installing("quit")
      BY <1>11, <2>2, NoneAssumption DEF Started, Installing, stored, disk, Jobs, Steps
    <2> QED BY <1>11, <2>1, <2>2 DEF Started
  <1>12. CASE Restarts
    <2>1. app' \in Versions
      BY <1>12 DEF Restarts, Jobs, Infos
    <2>2. {info', cached'} \subseteq Infos \cup {None}
      BY <1>12 DEF Restarts, LoadCached, Offered
    <2> QED BY <1>12, <2>1, <2>2 DEF Restarts, disk
  <1>13. CASE ClearCache
    BY <1>13 DEF ClearCache, NoFiles, stored, progress
  <1>14. CASE UNCHANGED vars
    BY <1>14 DEF vars, stored, offer, progress, disk
  <1> QED
    BY <1>1, <1>2, <1>3, <1>4, <1>5, <1>6, <1>7, <1>8, <1>9, <1>10, <1>11, <1>12,
       <1>13, <1>14 DEF Next

\* The state keeps its types, and the flags of the runtime tell of the installation.
THEOREM TypeCorrect == Spec => []TypeOK
  BY InitType, NextType, PTL DEF Spec

-----------------------------------------------------------------------------
(* Installers. *)

\* What is about to be renamed is whole, or gone with the cache: with InstallerIsWhole
\* this is inductive.
WrittenIsWhole ==
    At("rename") /\ job.info.sized => temporary[job.info.version] /= "part"

LEMMA NextWhole ==
    TypeOK /\ WrittenIsWhole /\ InstallerIsWhole /\ [Next]_vars
      => (WrittenIsWhole /\ InstallerIsWhole)'
  <1> SUFFICES ASSUME TypeOK, WrittenIsWhole, InstallerIsWhole, [Next]_vars
               PROVE  (WrittenIsWhole /\ InstallerIsWhole)'
    OBVIOUS
  <1> USE DEF WrittenIsWhole, InstallerIsWhole, At
  <1>1. job \in Jobs \cup {None} /\ files \in [Versions -> Contents]
        /\ temporary \in [Versions -> Contents]
        /\ \A j \in Jobs : j.info.version \in Versions
    BY DEF TypeOK, Jobs, Infos
  <1>2. CASE progress' = progress /\ disk' = disk
    BY <1>2 DEF progress, disk
  <1>3. CASE Prepare
    BY <1>3 DEF Prepare
  <1>4. CASE Look
    <2>1. CASE job.info.sized /\ files[job.info.version] = "whole"
      BY <1>1, <1>4, <2>1 DEF Look, Installing, disk, Jobs
    <2>2. CASE GoesOn("fetch")
      BY <1>1, <1>4, <2>2 DEF Look, GoesOn, Jobs
    <2>3. CASE Reset
      BY <2>3 DEF Reset
    <2> QED BY <1>4, <2>1, <2>2, <2>3 DEF Look
  <1>5. CASE Fetch
    BY <1>1, <1>5 DEF Fetch, GoesOn, Jobs
  <1>6. CASE Written
    BY <1>1, <1>6 DEF Written, Truncated, Reset, GoesOn, Jobs
  <1>7. CASE Rename
    BY <1>1, <1>7 DEF Rename, Installing, Jobs
  <1>8. CASE Fails \/ Restarts
    BY <1>8 DEF Fails, Reset, Restarts
  <1>9. CASE Started
    BY <1>1, <1>9 DEF Started, GoesOn, Installing, Jobs
  <1>10. CASE ClearCache
    BY <1>1, <1>10 DEF ClearCache, NoFiles, progress
  <1>11. BeginCheck \/ CheckAnswers \/ CheckFails \/ (\E track \in Tracks : SetTrack(track))
         \/ UNCHANGED vars => progress' = progress /\ disk' = disk
    BY DEF BeginCheck, CheckAnswers, CheckFails, SetTrack, vars, progress, disk
  <1> QED
    BY <1>2, <1>3, <1>4, <1>5, <1>6, <1>7, <1>8, <1>9, <1>10, <1>11 DEF Next

\* No installer is run that broke off when the feed told its size (downloadUpdate).
THEOREM InstallersAreWhole == Spec => []InstallerIsWhole
  <1>1. Init => WrittenIsWhole /\ InstallerIsWhole
    BY DEF Init, WrittenIsWhole, InstallerIsWhole, At
  <1> QED BY <1>1, TypeCorrect, NextWhole, PTL DEF Spec

-----------------------------------------------------------------------------
(* Offers. *)

LEMMA NextOffer == TypeOK /\ OfferFollowsTrack /\ [Next]_vars => OfferFollowsTrack'
  <1> SUFFICES ASSUME TypeOK, OfferFollowsTrack, [Next]_vars PROVE OfferFollowsTrack'
    OBVIOUS
  <1> USE DEF OfferFollowsTrack
  <1>1. CASE UNCHANGED <<app, stored, offer>>
    BY <1>1 DEF stored, offer, Track, CurrentTrack, Fits, Includes
  <1>2. CASE CheckAnswers
    <2>1. PICK releases \in SUBSET Versions, sized \in BOOLEAN :
            IF ~SameTrack THEN UNCHANGED <<stored, info, foundFor, byCheck>>
            ELSE LET best == Best(releases)
                 IN  /\ stable' = (stable \/ releases \ Prereleases /= {})
                     /\ Offered(IF best = None THEN None
                                ELSE [version |-> best, sized |-> sized], check, ~stable)
                     /\ UNCHANGED trackPref
      BY <1>2 DEF CheckAnswers
    <2>2. app' = app BY <1>2 DEF CheckAnswers
    <2>3. CASE ~SameTrack
      BY <1>1, <2>1, <2>2, <2>3 DEF stored, offer
    <2>4. CASE SameTrack /\ Best(releases) = None
      BY <2>1, <2>4 DEF Offered
    <2>5. CASE SameTrack /\ Best(releases) /= None
      <3>1. info'.version = Best(releases) /\ foundFor' = check /\ byCheck' = ~stable
        BY <2>1, <2>5 DEF Offered
      <3>2. Fits(app, Best(releases), check) BY <2>5, BestIsOne
      <3>3. stable => Track' = check
        BY <2>1, <2>2, <2>5 DEF SameTrack, Track, CurrentTrack
      <3> QED BY <2>2, <3>1, <3>2, <3>3 DEF Fits, Includes, Track, CurrentTrack, TypeOK
    <2> QED BY <2>3, <2>4, <2>5
  <1>3. ASSUME NEW track \in Tracks, SetTrack(track) PROVE OfferFollowsTrack'
    <2>1. app' = app /\ stable' = stable /\ stable /\ trackPref' = track
      BY <1>3 DEF SetTrack
    <2>2. Track' = track
      BY <2>1, NoneAssumption DEF Track, CurrentTrack
    <2>3. CASE info /= None /\ track = "stable" /\ info.version \in Prereleases
      BY <1>3, <2>3 DEF SetTrack, Offered
    <2>4. CASE ~(info /= None /\ track = "stable" /\ info.version \in Prereleases)
      BY <1>3, <2>1, <2>2, <2>4 DEF SetTrack, offer, Fits, Includes
    <2> QED BY <2>3, <2>4
  <1>4. CASE Restarts
    BY <1>4 DEF Restarts, LoadCached, Offered, Track, CurrentTrack, Fits, stored
  <1>5. BeginCheck \/ CheckFails \/ Prepare \/ Look \/ Fetch \/ Written \/ Rename
        \/ Fails \/ Started \/ ClearCache \/ UNCHANGED vars
          => UNCHANGED <<app, stored, offer>>
    BY DEF BeginCheck, CheckFails, Prepare, Look, Fetch, Written, Rename, Fails,
           Started, ClearCache, vars, stored, offer
  <1> QED BY <1>1, <1>2, <1>3, <1>4, <1>5 DEF Next

\* What is offered fits the track it was found for and the app that runs, and no
\* prerelease is offered on the stable track, but by the check that found out that
\* there is one (checkForUpdate, setTrack, loadCachedUpdate).
THEOREM OffersFollowTheTrack == Spec => []OfferFollowsTrack
  <1>1. Init => OfferFollowsTrack BY DEF Init, OfferFollowsTrack
  <1> QED BY <1>1, TypeCorrect, NextOffer, PTL DEF Spec
=============================================================================
