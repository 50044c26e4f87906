----------------------------- MODULE AutoUpdate -----------------------------
(***************************************************************************)
(* The automatic updates of src/src/main/profiles.ts: one timer for all    *)
(* remote profiles, armed anew by whatever changes the list, and the runs  *)
(* it starts, which may overlap.                                           *)
(*                                                                         *)
(* Time is counted in units of the shortest interval there may be.  What   *)
(* an update fetches, checks and writes is in ProfileStore.                *)
(***************************************************************************)
EXTENDS Naturals, FiniteSetsExt

CONSTANTS
    Absent,
    RemoteProfiles, \* the remote profiles there may be
    Intervals,      \* autoUpdateIntervalMinutes, after intervalOrDefault
    Runs            \* the runs that may be under way at a time

ASSUME AutoUpdateAssumption ==
    /\ Intervals \subseteq Nat \ {0} /\ Intervals /= {}
    /\ \E n \in Intervals : \A i \in Intervals : i <= n
    /\ Absent \notin Nat

Longest == CHOOSE n \in Intervals : \A i \in Intervals : i <= n

\* age: the time since lastUpdated, Longest standing for any longer one and for none.
Rows == [auto : BOOLEAN, interval : Intervals, age : 0 .. Longest]

VARIABLES
    row,       \* the rows of the remote profiles, Absent without
    timer,     \* the time until updateTimer fires, or Absent
    updating   \* the profiles each run has still to update; {} is no run

timerVars == <<row, timer, updating>>

AutoOf(rows) == {p \in RemoteProfiles : rows[p] /= Absent /\ rows[p].auto}
AutoUpdated == AutoOf(row)
Due(p) == p \in AutoUpdated /\ row[p].age >= row[p].interval

\* Variant: an update is due after its interval, not when it ends.
OverdueProfiles == {p \in AutoUpdated : row[p].age > row[p].interval}

\* Whom runDueProfileUpdates updates.
DueProfiles == {p \in RemoteProfiles : Due(p)}

\* Every profile is measured by the shortest interval of them all.
ShortestOf(rows) == Min({rows[p].interval : p \in AutoOf(rows)})

Left(age, interval) == IF age >= interval THEN 0 ELSE interval - age

\* reconfigureAutoUpdate
Reconfigured(rows) ==
    IF AutoOf(rows) = {} THEN Absent
    ELSE Min({Left(rows[p].age, ShortestOf(rows)) : p \in AutoOf(rows)})
Reconfigure == timer' = Reconfigured(row')

TimerInit ==
    /\ row \in [RemoteProfiles -> {Absent}]
    /\ timer = Absent
    /\ updating = [s \in Runs |-> {}]

-----------------------------------------------------------------------------
(* What changes the list. *)

\* insertProfile: a created profile is new, an imported one of any age.
Insert(p) ==
    /\ row[p] = Absent
    /\ \E new \in Rows : row' = [row EXCEPT ![p] = new]
    /\ Reconfigure
    /\ UNCHANGED updating

\* removeProfile
RemoveRow(p) ==
    /\ row[p] /= Absent
    /\ row' = [row EXCEPT ![p] = Absent]
    /\ Reconfigure
    /\ UNCHANGED updating

\* Variant: the timer in force goes on.
SettledLater == UNCHANGED timer

\* The end of updateMetadata.
Settled == Reconfigure

\* updateMetadata; a new URL has been fetched.
EditRow(p) ==
    /\ row[p] /= Absent
    /\ \E auto \in BOOLEAN, interval \in Intervals, age \in {0, row[p].age} :
         row' = [row EXCEPT ![p] = [auto |-> auto, interval |-> interval, age |-> age]]
    /\ Settled
    /\ UNCHANGED updating

\* updateRemote arms nothing: what is updated is due later.
UpdateRemote(p) ==
    /\ row[p] /= Absent
    /\ row' = [row EXCEPT ![p].age = 0]
    /\ UNCHANGED <<timer, updating>>

-----------------------------------------------------------------------------
(* The timer and its runs. *)

\* No time passes while a timer is due.
Tick ==
    /\ timer /= 0
    /\ timer' = IF timer = Absent THEN Absent ELSE timer - 1
    /\ row' = [p \in RemoteProfiles |->
         IF row[p] = Absent \/ row[p].age = Longest THEN row[p]
         ELSE [row[p] EXCEPT !.age = @ + 1]]
    /\ UNCHANGED updating

\* Without a profile that is due the run ends at once and arms the timer again.
Fires(s) ==
    /\ timer = 0 /\ updating[s] = {}
    /\ UNCHANGED row
    /\ IF DueProfiles = {} THEN Reconfigure /\ UNCHANGED updating
       ELSE timer' = Absent /\ updating' = [updating EXCEPT ![s] = DueProfiles]

\* The finally of a run, after the last of its updates.
EndsRun(s) == IF updating'[s] = {} THEN Reconfigure ELSE UNCHANGED timer

\* updateRemoteProfile of a run; a failure is caught, a removed profile is one.
Updated(s, p) ==
    /\ p \in updating[s] /\ row[p] /= Absent
    /\ row' = [row EXCEPT ![p].age = 0]
    /\ updating' = [updating EXCEPT ![s] = @ \ {p}]
    /\ EndsRun(s)

UpdateFails(s, p) ==
    /\ p \in updating[s]
    /\ updating' = [updating EXCEPT ![s] = @ \ {p}]
    /\ UNCHANGED row
    /\ EndsRun(s)

\* registerProfiles of the next process.
TimerRestarts ==
    /\ updating' = [s \in Runs |-> {}]
    /\ UNCHANGED row /\ Reconfigure

TimerNext ==
    \/ Tick \/ TimerRestarts
    \/ \E p \in RemoteProfiles : Insert(p) \/ RemoveRow(p) \/ EditRow(p) \/ UpdateRemote(p)
    \/ \E s \in Runs : Fires(s) \/ \E p \in RemoteProfiles : Updated(s, p) \/ UpdateFails(s, p)

TimerSpec == TimerInit /\ [][TimerNext]_timerVars

\* A timer fires, and a request has a timeout.
FairTimerSpec ==
    /\ TimerSpec
    /\ WF_timerVars(\E s \in Runs : Fires(s))
    /\ \A s \in Runs, p \in RemoteProfiles : WF_timerVars(Updated(s, p) \/ UpdateFails(s, p))

-----------------------------------------------------------------------------
(* Properties. *)

TimerTypeOK ==
    /\ row \in [RemoteProfiles -> Rows \cup {Absent}]
    /\ timer \in 0 .. Longest \cup {Absent}
    /\ updating \in [Runs -> SUBSET RemoteProfiles]

NoRun == \A s \in Runs : updating[s] = {}

\* No profile waits longer than its own interval: the one timer fires when the first
\* is due at the latest, whoever inserted, removed, edited or updated a profile since
\* it was armed, and while there is none, a run is under way that will arm it
\* (reconfigureAutoUpdate, profiles.ts:1022).
DueIsScheduled ==
    \A p \in AutoUpdated :
        \/ timer /= Absent /\ timer <= Left(row[p].age, row[p].interval)
        \/ ~NoRun

\* A profile that is due is updated by a run, however often updates fail and the list
\* changes, unless it is switched off, removed or updated by hand.
DueIsUpdated ==
    \A p \in RemoteProfiles : Due(p) ~> (~Due(p) \/ \E s \in Runs : p \in updating[s])
=============================================================================
