---------------------------- MODULE ProfileStore ----------------------------
(***************************************************************************)
(* The profiles (src/src/main/profiles.ts): rows in the settings database, *)
(* a config file for each, the selected one, and the operations on them,   *)
(* every one a chain of awaits.  Operations on one profile wait for each   *)
(* other (runProfileOperation), except those that do not use that chain:   *)
(* create, select, a connect and the regeneration of all remote profiles.  *)
(* A change of the selected profile reloads the running service; of a      *)
(* start only what it runs with is here, ServiceStart has the rest.        *)
(*                                                                         *)
(* Left out: names, the order of the list (any profile may be selected in  *)
(* place of a removed one), the metadata that decides nothing here, the    *)
(* URLs (any subscription may say anything at any time), and the timer,    *)
(* which is one of those who may ask for an update at any time.            *)
(***************************************************************************)
EXTENDS Naturals, Sequences, FiniteSets

CONSTANTS
    Ids,       \* crypto.randomUUID(): the ids there will ever be
    Versions,  \* configs
    Usable,    \* those of them that checkConfig lets pass
    Said,      \* what a server says of "Russia direct": whether it is off
    Slots,     \* bound: operations under way at a time
    MaxBegun,  \* bound: operations in all
    None       \* null

ASSUME StoreAssumption ==
    /\ Usable \subseteq Versions /\ Usable # {}
    /\ Said \subseteq BOOLEAN /\ Said # {}
    /\ MaxBegun \in Nat
    /\ None \notin Ids \cup Versions \cup Slots

Kinds == {"remote", "local"}

VARIABLES
    rows,      \* the table: the type of every profile there is
    files,     \* what the file of an id holds
    selected,  \* selected_profile_id
    off,       \* per id: our server turned "Russia direct" off (rememberRuDirect)
    used,      \* history: the ids given out
    calls,     \* the operations under way
    chain,     \* profileOperations: per id, the operation to wait for
    starts,    \* serviceStartChain: the operations that start the service, in turn
    service,   \* what the daemon runs
    begun      \* history: operations so far

vars == <<rows, files, selected, off, used, calls, chain, starts, service, begun>>

Chained == {"update", "metadata", "remove", "write"}
Ops     == Chained \cup {"create", "select", "connect", "regenerate"}

\* Where no call is under way there is no operation.
ASSUME NothingAssumption == None \notin Ops

\* What a call does next, at the end of the await it is in.
Phases == {"idle", "waiting", "fetching", "checking", "comparing", "writing",
           "storing", "unlinking", "reloading", "behind", "reading", "read",
           "queued", "prepared"}

Calls == [ op : Ops \cup {None}, phase : Phases, id : Ids \cup {None},
           content : Versions \cup {None},
           changed : BOOLEAN,              \* routingChanged
           ruOff : BOOLEAN,                \* what its start was prepared with
           prev : Slots \cup {None},       \* the operation it waits for
           kind : Kinds \cup {None},       \* of the profile it creates
           todo : SUBSET Ids ]             \* regeneration: the profiles to come

NoCall == [op |-> None, phase |-> "idle", id |-> None, content |-> None,
           changed |-> FALSE, ruOff |-> FALSE, prev |-> None, kind |-> None, todo |-> {}]

Services == [id : Ids, content : Versions, ruOff : BOOLEAN]

\* A run of the app begins with what an earlier one left, its service included.
Init ==
    /\ \E known \in SUBSET Ids, v \in Usable :
         /\ rows \in [known -> Kinds]
         /\ files = [i \in Ids |-> IF i \in known THEN v ELSE None]
         /\ used = known
         /\ selected \in IF known = {} THEN {None} ELSE known
    /\ off = [i \in Ids |-> FALSE]
    /\ calls = [c \in Slots |-> NoCall]
    /\ chain = [i \in Ids |-> None]
    /\ starts = <<>>
    /\ service \in {None} \cup
         IF selected = None THEN {}
         ELSE {[id |-> selected, content |-> files[selected], ruOff |-> FALSE]}
    /\ begun = 0

-----------------------------------------------------------------------------
(* The life of a call. *)

Idle(c) == calls[c].phase = "idle"
In(c, phase) == calls[c].phase = phase

Call(op, id) == [NoCall EXCEPT !.op = op, !.id = id]

\* Variant of Begin: the operation finds itself in the chain.
BeginBehindItself(c, call) ==
    /\ Idle(c) /\ begun < MaxBegun
    /\ begun' = begun + 1
    /\ chain' = IF call.op \in Chained THEN [chain EXCEPT ![call.id] = c] ELSE chain
    /\ calls' = [calls EXCEPT ![c] =
         IF call.op \in Chained THEN [call EXCEPT !.phase = "waiting", !.prev = chain'[call.id]]
         ELSE call]
    /\ UNCHANGED <<files, off, starts, service>>

\* A call begins: a chained one behind the last on its profile.
Begin(c, call) ==
    /\ Idle(c) /\ begun < MaxBegun
    /\ begun' = begun + 1
    /\ IF call.op \in Chained
       THEN /\ calls' = [calls EXCEPT ![c] = [call EXCEPT !.phase = "waiting", !.prev = chain[call.id]]]
            /\ chain' = [chain EXCEPT ![call.id] = c]
       ELSE calls' = [calls EXCEPT ![c] = call] /\ UNCHANGED chain
    /\ UNCHANGED <<files, off, starts, service>>

Goes(c, phase) == calls' = [calls EXCEPT ![c].phase = phase] /\ UNCHANGED chain

\* To the reload, with nothing of what went before.
GoesToReload(c) ==
    /\ calls' = [calls EXCEPT ![c] = [Call(calls[c].op, calls[c].id) EXCEPT
                                        !.phase = "reloading", !.kind = calls[c].kind,
                                        !.todo = calls[c].todo]]
    /\ UNCHANGED chain

\* Variant of Forgotten: without a look at who has joined behind [c].
ForgottenAnyway(c) ==
    [i \in Ids |-> IF calls[c].op \in Chained /\ i = calls[c].id THEN None ELSE chain[i]]

\* The chain forgets [c] if nobody has joined behind it.
Forgotten(c) == [i \in Ids |-> IF chain[i] = c THEN None ELSE chain[i]]

\* [c] ends among [cs]: who waits for it goes on.  regenerateRemoteProfiles takes
\* the next profile.
Over(cs, c) ==
    IF cs[c].todo # {}
    THEN /\ \E next \in cs[c].todo :
              calls' = [cs EXCEPT ![c] = [Call("regenerate", next) EXCEPT
                                            !.phase = "fetching", !.todo = cs[c].todo \ {next}]]
         /\ UNCHANGED chain
    ELSE /\ calls' = [s \in Slots |-> IF s = c THEN NoCall
                                      ELSE [cs[s] EXCEPT !.prev = IF @ = c THEN None ELSE @]]
         /\ chain' = Forgotten(c)

-----------------------------------------------------------------------------
(* What may be asked for. *)

Fresh(id) == id \in Ids \ used

CreateRemote(c, id) ==
    /\ Fresh(id)
    /\ Begin(c, [Call("create", id) EXCEPT !.phase = "fetching", !.kind = "remote"])
    /\ used' = used \cup {id}
    /\ UNCHANGED <<rows, selected>>

CreateLocal(c, id, version) ==
    /\ Fresh(id)
    /\ Begin(c, [Call("create", id) EXCEPT
                   !.phase = "checking", !.kind = "local", !.content = version])
    /\ used' = used \cup {id}
    /\ UNCHANGED <<rows, selected>>

Update(c, id) ==
    /\ Begin(c, Call("update", id))
    /\ UNCHANGED <<rows, selected, used>>

UpdateMetadata(c, id) ==
    /\ Begin(c, Call("metadata", id))
    /\ UNCHANGED <<rows, selected, used>>

Remove(c, id) ==
    /\ Begin(c, Call("remove", id))
    /\ UNCHANGED <<rows, selected, used>>

WriteContent(c, id, version) ==
    /\ Begin(c, [Call("write", id) EXCEPT !.content = version])
    /\ UNCHANGED <<rows, selected, used>>

Select(c, id) ==
    /\ id \in DOMAIN rows /\ id # selected
    /\ Begin(c, [Call("select", id) EXCEPT !.phase = "reloading"])
    /\ selected' = id
    /\ UNCHANGED <<rows, used>>

Connect(c) ==
    /\ selected # None
    /\ Begin(c, [Call("connect", selected) EXCEPT !.phase = "reading"])
    /\ UNCHANGED <<rows, selected, used>>

Remotes == {i \in DOMAIN rows : rows[i] = "remote"}

Regenerate(c) ==
    /\ \E first \in Remotes :
         Begin(c, [Call("regenerate", first) EXCEPT
                     !.phase = "fetching", !.todo = Remotes \ {first}])
    /\ UNCHANGED <<rows, selected, used>>

-----------------------------------------------------------------------------
(* The steps of the operations. *)

\* What may be selected once [id] is removed.
SelectedWithout(id) ==
    IF selected # id THEN {selected}
    ELSE IF DOMAIN rows = {id} THEN {None} ELSE DOMAIN rows \ {id}

\* An operation's turn in the chain of its profile.
Turn(c) ==
    LET id == calls[c].id
        op == calls[c].op
    IN  /\ In(c, "waiting") /\ calls[c].prev = None
        /\ \/ /\ \/ id \notin DOMAIN rows
                 \/ op = "update" /\ id \notin Remotes
                 \/ op = "metadata"  \* the URL stays
              /\ Over(calls, c)
              /\ UNCHANGED <<rows, selected, off>>
           \/ /\ id \in Remotes /\ op \in {"update", "metadata"}
              /\ Goes(c, "fetching")
              /\ UNCHANGED <<rows, selected, off>>
           \/ /\ id \in DOMAIN rows /\ op = "write"
              /\ Goes(c, "writing")
              /\ UNCHANGED <<rows, selected, off>>
           \/ /\ id \in DOMAIN rows /\ op = "remove"
              /\ off' = [off EXCEPT ![id] = FALSE]
              /\ rows' = [i \in DOMAIN rows \ {id} |-> rows[i]]
              /\ selected' \in SelectedWithout(id)
              /\ Goes(c, "unlinking")
        /\ UNCHANGED <<files, used, starts, service, begun>>

\* A successful response has been converted; what it says of the routing is kept.
Fetched(c, version, ruOff) ==
    LET call == calls[c] IN
    /\ In(c, "fetching")
    /\ off' = [off EXCEPT ![call.id] = ruOff]
    /\ calls' = [calls EXCEPT
         ![c].content = version,
         ![c].changed = off[call.id] # ruOff,
         ![c].phase = IF call.op = "regenerate" THEN "writing" ELSE "checking"]
    /\ UNCHANGED <<rows, files, selected, used, chain, starts, service, begun>>

\* Variant of Checked: create inserts the row before it writes the file.
CheckedRowFirst(c) ==
    /\ In(c, "checking") /\ calls[c].content \in Usable
    /\ Goes(c, CASE calls[c].op = "update" -> "comparing"
                 [] calls[c].op = "create" -> "storing"
                 [] OTHER -> "writing")
    /\ UNCHANGED <<rows, files, selected, off, used, starts, service, begun>>

Checked(c) ==
    /\ In(c, "checking") /\ calls[c].content \in Usable
    /\ Goes(c, IF calls[c].op = "update" THEN "comparing" ELSE "writing")
    /\ UNCHANGED <<rows, files, selected, off, used, starts, service, begun>>

\* The update looks at the file there is.
Compared(c) ==
    /\ In(c, "comparing")
    /\ IF files[calls[c].id] # calls[c].content THEN Goes(c, "writing")
       ELSE IF calls[c].changed THEN GoesToReload(c)
       ELSE Over(calls, c)
    /\ UNCHANGED <<rows, files, selected, off, used, starts, service, begun>>

FileWritten(c) ==
    LET op == calls[c].op IN
    /\ In(c, "writing")
    /\ files' = [files EXCEPT ![calls[c].id] = calls[c].content]
    /\ IF op = "write" THEN Over(calls, c)
       ELSE IF op \in {"create", "metadata"} THEN Goes(c, "storing")
       ELSE GoesToReload(c)
    /\ UNCHANGED <<rows, selected, off, used, starts, service, begun>>

\* Variant of Stored: insertProfile leaves the selection alone.
StoredUnselected(c) ==
    LET id == calls[c].id IN
    /\ In(c, "storing")
    /\ \/ /\ calls[c].op = "create"
          /\ rows' = [i \in DOMAIN rows \cup {id} |-> IF i = id THEN calls[c].kind ELSE rows[i]]
          /\ selected' = IF selected = None THEN id ELSE selected
          /\ Over(calls, c)
       \/ /\ calls[c].op = "metadata"
          /\ UNCHANGED <<rows, selected>>
          /\ GoesToReload(c)
    /\ UNCHANGED <<files, off, used, starts, service, begun>>

\* insertProfile's transaction, or that of updateMetadata.
Stored(c) ==
    LET id == calls[c].id IN
    /\ In(c, "storing")
    /\ \/ /\ calls[c].op = "create"
          /\ rows' = [i \in DOMAIN rows \cup {id} |-> IF i = id THEN calls[c].kind ELSE rows[i]]
          /\ selected' = id
          /\ Over(calls, c)
       \/ /\ calls[c].op = "metadata"
          /\ UNCHANGED <<rows, selected>>
          /\ GoesToReload(c)
    /\ UNCHANGED <<files, off, used, starts, service, begun>>

Unlinked(c) ==
    /\ In(c, "unlinking")
    /\ files' = [files EXCEPT ![calls[c].id] = None]
    /\ Over(calls, c)
    /\ UNCHANGED <<rows, selected, off, used, starts, service, begun>>

\* A fetch, a check, a write, a read or an unlink fails.
Fails(c) ==
    /\ calls[c].phase \in {"fetching", "checking", "comparing", "writing", "unlinking", "reading"}
    /\ Over(calls, c)
    /\ UNCHANGED <<rows, files, selected, off, used, starts, service, begun>>

-----------------------------------------------------------------------------
(* Reloading the service. *)

\* reloadIfSelectedAndRunning up to its await; then, behind the starts there were.
Reload(c) ==
    /\ In(c, "reloading")
    /\ IF selected # calls[c].id THEN Over(calls, c)
       ELSE IF starts # <<>>
            THEN /\ calls' = [calls EXCEPT ![c].phase = "behind", ![c].prev = starts[Len(starts)]]
                 /\ UNCHANGED chain
       ELSE IF service # None THEN Goes(c, "reading")
       ELSE Over(calls, c)
    /\ UNCHANGED <<rows, files, selected, off, used, starts, service, begun>>

ReloadAfter(c) ==
    /\ In(c, "behind") /\ calls[c].prev = None
    /\ IF service # None THEN Goes(c, "reading") ELSE Over(calls, c)
    /\ UNCHANGED <<rows, files, selected, off, used, starts, service, begun>>

ContentRead(c) ==
    /\ In(c, "reading") /\ files[calls[c].id] # None
    /\ calls' = [calls EXCEPT ![c].phase = "read", ![c].content = files[calls[c].id]]
    /\ UNCHANGED <<rows, files, selected, off, used, chain, starts, service, begun>>

\* The await of the read ends: runServiceStart.
StartQueued(c) ==
    /\ In(c, "read")
    /\ Goes(c, "queued")
    /\ starts' = Append(starts, c)
    /\ UNCHANGED <<rows, files, selected, off, used, service, begun>>

\* russiaDirectWanted, after the probes.
StartPrepared(c) ==
    /\ In(c, "queued") /\ starts # <<>> /\ c = Head(starts)
    /\ calls' = [calls EXCEPT ![c].phase = "prepared", ![c].ruOff = off[calls[c].id]]
    /\ UNCHANGED <<rows, files, selected, off, used, chain, starts, service, begun>>

MayRun(c) == calls[c].content \in Usable
Ran(c) == [id |-> calls[c].id, content |-> calls[c].content, ruOff |-> calls[c].ruOff]

StartEnds(c, ok) ==
    LET freed == [s \in Slots |-> IF In(s, "behind") /\ calls[s].prev = c
                                  THEN [calls[s] EXCEPT !.prev = None] ELSE calls[s]]
    IN  /\ In(c, "prepared")
        /\ ok => MayRun(c)
        /\ service' \in IF ok THEN {Ran(c)} ELSE {None, service}
        /\ starts' = Tail(starts)
        /\ Over(freed, c)
        /\ UNCHANGED <<rows, files, selected, off, used, begun>>

\* The user stops it, or it ends.
ServiceStops ==
    /\ service # None
    /\ service' = None
    /\ UNCHANGED <<rows, files, selected, off, used, calls, chain, starts, begun>>

\* The app ends at any await and is started again; a start that is with the
\* daemon may still go through.
AppRestarts ==
    /\ \E c \in Slots : ~Idle(c)
    /\ service' \in {service} \cup {Ran(c) : c \in {d \in Slots : In(d, "prepared") /\ MayRun(d)}}
    /\ calls' = [c \in Slots |-> NoCall]
    /\ chain' = [i \in Ids |-> None]
    /\ starts' = <<>>
    /\ UNCHANGED <<rows, files, selected, off, used, begun>>

Asks(c) ==
    \/ \E id \in Ids :
         \/ CreateRemote(c, id)
         \/ \E version \in Versions : CreateLocal(c, id, version)
    \/ \E id \in DOMAIN rows :
         \/ Update(c, id) \/ Remove(c, id) \/ Select(c, id)
         \/ UpdateMetadata(c, id)
         \/ \E version \in Versions : WriteContent(c, id, version)
    \/ Connect(c)
    \/ Regenerate(c)

Continues(c) ==
    \/ Turn(c) \/ Checked(c) \/ Compared(c) \/ FileWritten(c) \/ Stored(c) \/ Unlinked(c)
    \/ \E version \in Versions, ruOff \in Said : Fetched(c, version, ruOff)
    \/ Fails(c)
    \/ Reload(c) \/ ReloadAfter(c) \/ ContentRead(c) \/ StartQueued(c) \/ StartPrepared(c)
    \/ \E ok \in BOOLEAN : StartEnds(c, ok)

Next ==
    \/ \E c \in Slots : Asks(c) \/ Continues(c)
    \/ ServiceStops
    \/ AppRestarts

Spec == Init /\ [][Next]_vars

\* Every await of an operation ends: requests have a timeout, the worker and the
\* daemon answer or their sockets break.
FairSpec == Spec /\ \A c \in Slots : WF_vars(Continues(c))

-----------------------------------------------------------------------------
(* Properties. *)

HasContent(call) ==
    \/ call.phase \in {"checking", "comparing", "writing", "storing", "read", "queued", "prepared"}
    \/ call.phase = "waiting" /\ call.op = "write"

Creates(c) == ~Idle(c) /\ calls[c].op = "create"

\* Every variable holds what its declaration says, and a call what its phase needs.
TypeOK ==
    /\ \E known \in SUBSET Ids : rows \in [known -> Kinds]
    /\ files \in [Ids -> Versions \cup {None}]
    /\ selected \in Ids \cup {None}
    /\ off \in [Ids -> BOOLEAN]
    /\ used \in SUBSET Ids
    /\ calls \in [Slots -> Calls]
    /\ \A c \in Slots : ~Idle(c) => calls[c].id \in used
    /\ \A c \in Slots : Creates(c) => calls[c].kind \in Kinds
    /\ \A c \in Slots : HasContent(calls[c]) => calls[c].content # None
    /\ chain \in [Ids -> Slots \cup {None}]
    /\ starts \in Seq(Slots)
    /\ service \in Services \cup {None}
    /\ begun \in Nat

\* A row always has its file, were the app to end between any two awaits: create
\* writes the file before the row, remove deletes the row before the file, and
\* nothing that runs next to a remove deletes the file of a row.
RowHasFile == \A id \in DOMAIN rows : files[id] # None

\* The selection is a row, and there is one as long as there are rows.
SelectionIsRow == IF DOMAIN rows = {} THEN selected = None ELSE selected \in DOMAIN rows

Active(c) == calls[c].op \in Chained /\ calls[c].phase # "waiting"

\* Operations on one profile never overlap, though the chain forgets an
\* operation as soon as nobody has joined behind it.
OneAtATime ==
    \A c, d \in Slots : c # d /\ Active(c) /\ Active(d) => calls[c].id # calls[d].id

\* An operation ends, those that wait in the chain of a profile, of the starts or
\* of both included.
OperationsEnd == \A c \in Slots : ~Idle(c) ~> Idle(c)

\* The store is a book of profiles in which every change is one step.
Book == INSTANCE ProfileBook WITH
    Contents <- Versions,
    book <- [id \in DOMAIN rows |-> files[id]],
    chosen <- selected

IsABook == Book!Spec
=============================================================================
