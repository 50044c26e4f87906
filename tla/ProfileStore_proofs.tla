------------------------ MODULE ProfileStore_proofs ------------------------
(***************************************************************************)
(* Proofs about ProfileStore, for every value of its constants: whatever   *)
(* is interleaved, a row has its file, the selection is a row, the store   *)
(* is a book of profiles, and operations on one profile take turns.        *)
(*                                                                         *)
(* An action moves one call on and leaves of the others all but the link   *)
(* to the operation they wait for.  That is Moves; a lemma per way to go   *)
(* on says so, and the invariants are proved from it.  The turns have an   *)
(* invariant of their own: the calls on a profile form one line.           *)
(*                                                                         *)
(* Last comes the timer of the automatic updates, AutoUpdate, which has    *)
(* rows of its own: their intervals and ages.                              *)
(***************************************************************************)
EXTENDS ProfileStore, AutoUpdate, SequenceTheorems, WellFoundedInduction, TLAPS

-----------------------------------------------------------------------------
(* The invariant. *)

\* Ids in use have been given out.
IdsAreUsed ==
    /\ DOMAIN rows \subseteq used
    /\ \A c \in Slots : ~Idle(c) => calls[c].todo \subseteq used

\* The id of a create is nobody else's until its row is there.
CreateIsAlone ==
    \A c \in Slots : Creates(c) =>
        /\ calls[c].id \notin DOMAIN rows
        /\ \A d \in Slots \ {c} : ~Idle(d) =>
              calls[d].id # calls[c].id /\ calls[c].id \notin calls[d].todo

\* Who deletes a file has deleted the row, and who adds a row has its file.
RowsAndFiles ==
    \A c \in Slots :
        /\ In(c, "unlinking") => calls[c].op # "create" /\ calls[c].id \notin DOMAIN rows
        /\ In(c, "storing") /\ calls[c].op = "create" => files[calls[c].id] # None

\* The start that is prepared is the first of the chain.
PreparedIsFirst ==
    \A c \in Slots : In(c, "prepared") => starts # <<>> /\ c = Head(starts)

StoreInv ==
    /\ TypeOK /\ IdsAreUsed /\ CreateIsAlone /\ RowsAndFiles /\ PreparedIsFirst
    /\ RowHasFile /\ SelectionIsRow

-----------------------------------------------------------------------------
(* How a call moves on. *)

Same(r, q) ==
    /\ r.op = q.op /\ r.phase = q.phase /\ r.id = q.id
    /\ r.content = q.content /\ r.todo = q.todo /\ r.kind = q.kind

\* Only [c] moves.
Moves(c) ==
    /\ calls' \in [Slots -> Calls]
    /\ \A s \in Slots \ {c} : Same(calls'[s], calls[s])

\* [c] has ended, or is a regeneration that takes its next profile.
Ended(c) ==
    \/ calls'[c] = NoCall
    \/ /\ calls'[c].op = "regenerate" /\ calls'[c].phase = "fetching"
       /\ calls'[c].id \in calls[c].todo
       /\ calls'[c].todo \subseteq calls[c].todo

LEMMA NoCallType == NoCall \in Calls
BY DEF NoCall, Calls, Phases, Ops

LEMMA CallType ==
    ASSUME NEW op \in Ops \cup {None}, NEW id \in Ids
    PROVE  /\ Call(op, id) \in Calls
           /\ Call(op, id).op = op /\ Call(op, id).id = id /\ Call(op, id).todo = {}
           /\ Call(op, id).phase = "idle"
<1> DEFINE call == [NoCall EXCEPT !.op = op, !.id = id]
<1>1. call \in Calls
  BY NoCallType DEF Calls
<1>2. call.op = op /\ call.id = id /\ call.todo = {} /\ call.phase = "idle"
  BY DEF NoCall
<1> HIDE DEF call
<1> QED
  BY <1>1, <1>2 DEF Call, call

LEMMA OverMoves ==
    ASSUME NEW cs \in [Slots -> Calls], NEW c \in Slots, calls \in [Slots -> Calls],
           \A s \in Slots : Same(cs[s], calls[s]),
           chain \in [Ids -> Slots \cup {None}],
           Over(cs, c)
    PROVE  Moves(c) /\ Ended(c) /\ chain' \in [Ids -> Slots \cup {None}]
<1>1. CASE cs[c].todo # {}
  <2>1. PICK next \in cs[c].todo :
          calls' = [cs EXCEPT ![c] = [Call("regenerate", next) EXCEPT
                                        !.phase = "fetching", !.todo = cs[c].todo \ {next}]]
    BY <1>1 DEF Over
  <2> DEFINE call == [Call("regenerate", next) EXCEPT
                        !.phase = "fetching", !.todo = cs[c].todo \ {next}]
  <2>2. cs[c].todo \subseteq Ids /\ cs[c].todo = calls[c].todo
    BY DEF Calls, Same
  <2>3. call \in Calls /\ call.op = "regenerate" /\ call.phase = "fetching"
        /\ call.id = next /\ call.todo = cs[c].todo \ {next}
    <3> HIDE DEF call
    <3>0. next \in Ids /\ "regenerate" \in Ops
      BY <2>2 DEF Ops
    <3>1. Call("regenerate", next) \in Calls /\ Call("regenerate", next).op = "regenerate"
          /\ Call("regenerate", next).id = next
      BY <3>0, CallType
    <3> USE DEF call
    <3> QED
      BY <2>2, <3>1 DEF Calls, Phases
  <2>4. calls' = [cs EXCEPT ![c] = call]
    BY <2>1
  <2> HIDE DEF call
  <2>5. Moves(c)
    BY <2>3, <2>4 DEF Moves
  <2>6. calls'[c] = call
    BY <2>4
  <2>7. UNCHANGED chain
    BY <1>1 DEF Over
  <2> QED
    BY <2>2, <2>3, <2>5, <2>6, <2>7 DEF Ended
<1>2. CASE cs[c].todo = {}
  <2>1. calls' = [s \in Slots |-> IF s = c THEN NoCall
                                  ELSE [cs[s] EXCEPT !.prev = IF @ = c THEN None ELSE @]]
    BY <1>2 DEF Over
  <2>2. chain' = Forgotten(c)
    BY <1>2 DEF Over
  <2>3. ASSUME NEW s \in Slots \ {c}
        PROVE  calls'[s] \in Calls /\ Same(calls'[s], calls[s])
    <3> DEFINE prev == IF cs[s].prev = c THEN None ELSE cs[s].prev
    <3>1. prev \in Slots \cup {None}
      BY DEF Calls
    <3>2. calls'[s] = [cs[s] EXCEPT !.prev = prev]
      BY <2>1
    <3> HIDE DEF prev
    <3>3. cs[s] \in Calls /\ Same(cs[s], calls[s])
      OBVIOUS
    <3>4. calls'[s] \in Calls
      BY <3>1, <3>2, <3>3 DEF Calls
    <3>5. Same(calls'[s], calls[s])
      BY <3>2, <3>3 DEF Calls, Same
    <3> QED
      BY <3>4, <3>5
  <2>4. calls'[c] = NoCall
    BY <2>1
  <2>5. calls' \in [Slots -> Calls]
    <3>1. calls' = [s \in Slots |-> calls'[s]]
      BY <2>1
    <3>2. \A s \in Slots : calls'[s] \in Calls
      BY <2>3, <2>4, NoCallType
    <3> QED
      BY <3>1, <3>2
  <2>6. chain' \in [Ids -> Slots \cup {None}]
    BY <2>2 DEF Forgotten
  <2> QED
    BY <2>3, <2>4, <2>5, <2>6 DEF Moves, Ended
<1> QED
  BY <1>1, <1>2

LEMMA GoesMoves ==
    ASSUME NEW c \in Slots, NEW phase \in Phases, calls \in [Slots -> Calls], Goes(c, phase)
    PROVE  /\ Moves(c) /\ UNCHANGED chain
           /\ calls'[c] = [calls[c] EXCEPT !.phase = phase]
<1>1. calls' = [calls EXCEPT ![c] = [calls[c] EXCEPT !.phase = phase]]
  BY DEF Goes
<1>2. [calls[c] EXCEPT !.phase = phase] \in Calls
  BY DEF Calls
<1> QED
  BY <1>1, <1>2 DEF Moves, Same, Goes

LEMMA GoesToReloadMoves ==
    ASSUME NEW c \in Slots, calls \in [Slots -> Calls], calls[c].id \in Ids, GoesToReload(c)
    PROVE  /\ Moves(c) /\ UNCHANGED chain
           /\ calls'[c].op = calls[c].op /\ calls'[c].phase = "reloading"
           /\ calls'[c].id = calls[c].id /\ calls'[c].todo = calls[c].todo
           /\ calls'[c].kind = calls[c].kind
<1> DEFINE call == [Call(calls[c].op, calls[c].id) EXCEPT
                      !.phase = "reloading", !.kind = calls[c].kind, !.todo = calls[c].todo]
<1>1. calls' = [calls EXCEPT ![c] = call]
  BY DEF GoesToReload
<1>2. Call(calls[c].op, calls[c].id) \in Calls
      /\ Call(calls[c].op, calls[c].id).op = calls[c].op
      /\ Call(calls[c].op, calls[c].id).id = calls[c].id
  <2> HIDE DEF call
  <2> DEFINE op == calls[c].op
             id == calls[c].id
  <2>1. op \in Ops \cup {None} /\ id \in Ids
    BY DEF Calls
  <2> HIDE DEF op, id
  <2>2. Call(op, id) \in Calls /\ Call(op, id).op = op /\ Call(op, id).id = id
    BY <2>1, CallType
  <2> QED
    BY <2>2 DEF op, id
<1>3. calls[c].todo \in SUBSET Ids /\ calls[c].kind \in Kinds \cup {None}
  BY DEF Calls
<1>4. call \in Calls /\ call.op = calls[c].op /\ call.phase = "reloading"
      /\ call.id = calls[c].id /\ call.todo = calls[c].todo /\ call.kind = calls[c].kind
  BY <1>2, <1>3 DEF Calls, Phases
<1> HIDE DEF call
<1> QED
  BY <1>1, <1>4 DEF Moves, Same, GoesToReload

LEMMA BeginMoves ==
    ASSUME NEW c \in Slots, NEW call \in Calls, call.op \in Ops, call.id \in Ids,
           calls \in [Slots -> Calls], chain \in [Ids -> Slots \cup {None}], begun \in Nat,
           Begin(c, call)
    PROVE  /\ Idle(c) /\ Moves(c) /\ chain' \in [Ids -> Slots \cup {None}] /\ begun' \in Nat
           /\ UNCHANGED <<files, off, starts, service>>
           /\ calls'[c].op = call.op /\ calls'[c].id = call.id
           /\ calls'[c].content = call.content /\ calls'[c].todo = call.todo
           /\ calls'[c].kind = call.kind
           /\ calls'[c].phase = IF call.op \in Chained THEN "waiting" ELSE call.phase
<1>1. CASE call.op \in Chained
  <2> DEFINE next == [call EXCEPT !.phase = "waiting", !.prev = chain[call.id]]
  <2>1. calls' = [calls EXCEPT ![c] = next] /\ chain' = [chain EXCEPT ![call.id] = c]
    BY <1>1 DEF Begin
  <2>2. /\ next \in Calls /\ next.op = call.op /\ next.id = call.id /\ next.content = call.content
        /\ next.todo = call.todo /\ next.kind = call.kind /\ next.phase = "waiting"
    BY DEF Calls, Phases
  <2> HIDE DEF next
  <2> QED
    BY <1>1, <2>1, <2>2 DEF Begin, Moves, Same
<1>2. CASE call.op \notin Chained
  <2>1. calls' = [calls EXCEPT ![c] = call] /\ UNCHANGED chain
    BY <1>2 DEF Begin
  <2> QED
    BY <1>2, <2>1 DEF Begin, Moves, Same
<1> QED
  BY <1>1, <1>2

-----------------------------------------------------------------------------
(* What a move keeps of the invariant. *)

\* The call goes on as what it was, or ends.
Follows(c) ==
    /\ ~Idle(c)
    /\ \/ Ended(c)
       \/ /\ calls'[c].op = calls[c].op /\ calls'[c].id = calls[c].id
          /\ calls'[c].todo = calls[c].todo /\ calls'[c].kind = calls[c].kind

LEMMA CallsKeepType ==
    ASSUME TypeOK, IdsAreUsed, NEW c \in Slots, Moves(c), used \subseteq used',
           calls'[c].phase # "idle" => calls'[c].id \in used',
           calls'[c].phase # "idle" /\ calls'[c].op = "create" => calls'[c].kind \in Kinds,
           HasContent(calls'[c]) => calls'[c].content # None
    PROVE  /\ calls' \in [Slots -> Calls]
           /\ \A s \in Slots : ~Idle(s)' => calls'[s].id \in used'
           /\ \A s \in Slots : Creates(s)' => calls'[s].kind \in Kinds
           /\ \A s \in Slots : HasContent(calls'[s]) => calls'[s].content # None
BY DEF TypeOK, Moves, Same, Idle, Creates, HasContent

LEMMA FollowsKeepType ==
    ASSUME TypeOK, IdsAreUsed, NEW c \in Slots, Moves(c), Follows(c), UNCHANGED used,
           HasContent(calls'[c]) => calls'[c].content # None
    PROVE  /\ calls' \in [Slots -> Calls]
           /\ \A s \in Slots : ~Idle(s)' => calls'[s].id \in used'
           /\ \A s \in Slots : Creates(s)' => calls'[s].kind \in Kinds
           /\ \A s \in Slots : HasContent(calls'[s]) => calls'[s].content # None
<1>1. calls'[c].phase # "idle" => calls'[c].id \in used'
  BY DEF TypeOK, IdsAreUsed, Follows, Ended, NoCall, Idle
<1>2. calls'[c].phase # "idle" /\ calls'[c].op = "create" => calls'[c].kind \in Kinds
  BY DEF TypeOK, Follows, Ended, NoCall, Idle, Creates
<1> QED
  BY <1>1, <1>2, CallsKeepType

LEMMA FollowsKeepIds ==
    ASSUME TypeOK, IdsAreUsed, CreateIsAlone, NEW c \in Slots, Moves(c), Follows(c), UNCHANGED used,
           \/ DOMAIN rows' \subseteq DOMAIN rows
           \/ Ended(c) /\ DOMAIN rows' \subseteq DOMAIN rows \cup {calls[c].id}
    PROVE  IdsAreUsed' /\ CreateIsAlone'
<1>1. calls[c].id \in used /\ calls[c].todo \subseteq used
  BY DEF TypeOK, IdsAreUsed, Follows
<1>2. IdsAreUsed'
  <2>1. DOMAIN rows' \subseteq used
    BY <1>1 DEF IdsAreUsed
  <2>2. ASSUME NEW s \in Slots, ~Idle(s)' PROVE calls'[s].todo \subseteq used
    <3>1. CASE s = c
      BY <1>1, <2>2, <3>1 DEF Follows, Ended, NoCall, Idle
    <3>2. CASE s # c
      BY <2>2, <3>2 DEF Moves, Same, IdsAreUsed, Idle
    <3> QED
      BY <3>1, <3>2
  <2> QED
    BY <2>1, <2>2 DEF IdsAreUsed
<1>3. CreateIsAlone'
  <2> SUFFICES ASSUME NEW s \in Slots, Creates(s)'
               PROVE  /\ calls'[s].id \notin DOMAIN rows'
                      /\ \A d \in Slots \ {s} : ~Idle(d)' =>
                           calls'[d].id # calls'[s].id /\ calls'[s].id \notin calls'[d].todo
    BY DEF CreateIsAlone
  <2>1. Creates(s) /\ calls'[s].id = calls[s].id
    BY DEF Moves, Same, Follows, Ended, NoCall, Creates, Idle
  <2>2. s = c => ~Ended(c)
    BY DEF Ended, NoCall, Creates, Idle
  <2>3. calls'[s].id \notin DOMAIN rows'
    BY <2>1, <2>2 DEF CreateIsAlone, Follows
  <2>4. ASSUME NEW d \in Slots \ {s}, ~Idle(d)'
        PROVE  calls'[d].id # calls'[s].id /\ calls'[s].id \notin calls'[d].todo
    <3>1. CASE d = c
      <4>1. calls[c].id # calls[s].id /\ calls[s].id \notin calls[c].todo
        BY <2>1, <3>1 DEF CreateIsAlone, Follows
      <4> QED
        BY <2>1, <2>4, <3>1, <4>1 DEF Follows, Ended, NoCall, Idle
    <3>2. CASE d # c
      BY <2>1, <2>4, <3>2 DEF Moves, Same, CreateIsAlone, Idle
    <3> QED
      BY <3>1, <3>2
  <2> QED
    BY <2>3, <2>4
<1> QED
  BY <1>2, <1>3

\* Files that go or rows that come are those of the call.
LEMMA FollowsKeepFiles ==
    ASSUME TypeOK, RowsAndFiles, CreateIsAlone, NEW c \in Slots, Moves(c), Follows(c),
           \/ DOMAIN rows' \subseteq DOMAIN rows
           \/ Creates(c) /\ DOMAIN rows' \subseteq DOMAIN rows \cup {calls[c].id},
           \A i \in Ids : i # calls[c].id /\ files[i] # None => files'[i] # None,
           calls'[c].phase = "unlinking" =>
               calls'[c].op # "create" /\ calls'[c].id \notin DOMAIN rows',
           calls'[c].phase = "storing" /\ calls'[c].op = "create" => files'[calls'[c].id] # None
    PROVE  RowsAndFiles'
<1> SUFFICES ASSUME NEW s \in Slots \ {c}
             PROVE  /\ In(s, "unlinking")' => calls'[s].op # "create" /\ calls'[s].id \notin DOMAIN rows'
                    /\ In(s, "storing")' /\ calls'[s].op = "create" => files'[calls'[s].id] # None
  BY DEF RowsAndFiles, In
<1>1. Same(calls'[s], calls[s])
  BY DEF Moves
<1>2. ASSUME In(s, "unlinking")'
      PROVE  calls'[s].op # "create" /\ calls'[s].id \notin DOMAIN rows'
  <2>1. In(s, "unlinking") /\ ~Idle(s)
    BY <1>1, <1>2 DEF Same, In, Idle
  <2>2. Creates(c) => calls[c].id # calls[s].id
    BY <2>1 DEF CreateIsAlone
  <2> QED
    BY <1>1, <2>1, <2>2 DEF RowsAndFiles, Same
<1>3. ASSUME In(s, "storing")', calls'[s].op = "create"
      PROVE  files'[calls'[s].id] # None
  <2>1. In(s, "storing") /\ calls[s].op = "create" /\ Creates(s)
    BY <1>1, <1>3 DEF Same, In, Idle, Creates
  <2>2. calls[c].id # calls[s].id
    BY <2>1 DEF CreateIsAlone, Follows
  <2>3. calls[s].id \in Ids /\ files[calls[s].id] # None
    BY <2>1 DEF RowsAndFiles, TypeOK, Creates
  <2> QED
    BY <1>1, <2>2, <2>3 DEF Same
<1> QED
  BY <1>2, <1>3

LEMMA FollowsKeepFirst ==
    ASSUME PreparedIsFirst, NEW c \in Slots, Moves(c), UNCHANGED starts,
           calls'[c].phase # "prepared"
    PROVE  PreparedIsFirst'
BY DEF PreparedIsFirst, Moves, Same, In

\* A step that leaves the rows and the selection, and takes no file away.
LEMMA QuietStep ==
    ASSUME StoreInv, NEW c \in Slots, Moves(c), Follows(c), PreparedIsFirst',
           UNCHANGED <<rows, selected, used, begun>>,
           files' \in [Ids -> Versions \cup {None}],
           \A i \in Ids : files[i] # None => files'[i] # None,
           off' \in [Ids -> BOOLEAN], chain' \in [Ids -> Slots \cup {None}],
           starts' \in Seq(Slots), service' \in Services \cup {None},
           HasContent(calls'[c]) => calls'[c].content # None,
           calls'[c].phase # "unlinking",
           calls'[c].phase = "storing" /\ calls'[c].op = "create" => files'[calls'[c].id] # None
    PROVE  StoreInv'
<1> USE DEF StoreInv
<1>1. TypeOK'
  <2>1. /\ calls' \in [Slots -> Calls]
        /\ \A s \in Slots : ~Idle(s)' => calls'[s].id \in used'
        /\ \A s \in Slots : Creates(s)' => calls'[s].kind \in Kinds
        /\ \A s \in Slots : HasContent(calls'[s]) => calls'[s].content # None
    BY FollowsKeepType
  <2> QED
    BY <2>1 DEF TypeOK
<1>2. IdsAreUsed' /\ CreateIsAlone'
  BY FollowsKeepIds
<1>3. RowsAndFiles'
  BY FollowsKeepFiles
<1>4. RowHasFile'
  <2>1. DOMAIN rows \subseteq Ids
    BY DEF TypeOK
  <2> QED
    BY <2>1 DEF RowHasFile
<1>5. SelectionIsRow'
  BY DEF SelectionIsRow
<1> QED
  BY <1>1, <1>2, <1>3, <1>4, <1>5

\* What is at hand of a call under way.
LEMMA CallFacts ==
    ASSUME TypeOK, NEW c \in Slots, ~Idle(c)
    PROVE  /\ calls \in [Slots -> Calls] /\ calls[c] \in Calls
           /\ calls[c].id \in Ids /\ calls[c].id \in used
           /\ chain \in [Ids -> Slots \cup {None}]
           /\ \A s \in Slots : Same(calls[s], calls[s])
BY DEF TypeOK, Same

\* An operation that ends without more.
LEMMA OverStep ==
    ASSUME StoreInv, NEW c \in Slots, ~Idle(c), Over(calls, c),
           UNCHANGED <<rows, files, selected, off, used, starts, service, begun>>
    PROVE  StoreInv'
<1>1. Moves(c) /\ Ended(c) /\ chain' \in [Ids -> Slots \cup {None}]
  BY OverMoves, CallFacts DEF StoreInv
<1>2. calls'[c].phase \in {"idle", "fetching"}
  BY <1>1 DEF Ended, NoCall
<1>3. Follows(c)
  BY <1>1 DEF Follows
<1>4. PreparedIsFirst'
  BY <1>1, <1>2, FollowsKeepFirst DEF StoreInv
<1> QED
  BY <1>1, <1>2, <1>3, <1>4, QuietStep DEF StoreInv, TypeOK, HasContent

\* An operation that goes on with nothing else changed.
LEMMA GoesStep ==
    ASSUME StoreInv, NEW c \in Slots, ~Idle(c), NEW phase \in Phases, Goes(c, phase),
           phase \notin {"waiting", "unlinking", "storing", "prepared"},
           HasContent([calls[c] EXCEPT !.phase = phase]) => calls[c].content # None,
           UNCHANGED <<rows, files, selected, off, used, starts, service, begun>>
    PROVE  StoreInv'
<1>1. Moves(c) /\ UNCHANGED chain /\ calls'[c] = [calls[c] EXCEPT !.phase = phase]
  BY GoesMoves, CallFacts DEF StoreInv
<1>2. /\ calls'[c].phase = phase /\ calls'[c].op = calls[c].op /\ calls'[c].id = calls[c].id
      /\ calls'[c].content = calls[c].content /\ calls'[c].todo = calls[c].todo
      /\ calls'[c].kind = calls[c].kind
  BY <1>1, CallFacts DEF StoreInv, Calls
<1>3. Follows(c)
  BY <1>2 DEF Follows
<1>4. PreparedIsFirst'
  BY <1>1, <1>2, FollowsKeepFirst DEF StoreInv
<1> QED
  BY <1>1, <1>2, <1>3, <1>4, QuietStep DEF StoreInv, TypeOK

\* The reload that follows a write, or an update that has changed the routing.
LEMMA ReloadStep ==
    ASSUME StoreInv, NEW c \in Slots, ~Idle(c), GoesToReload(c),
           files' \in [Ids -> Versions \cup {None}],
           \A i \in Ids : files[i] # None => files'[i] # None,
           UNCHANGED <<rows, selected, off, used, starts, service, begun>>
    PROVE  StoreInv'
<1>1. /\ Moves(c) /\ UNCHANGED chain
      /\ calls'[c].op = calls[c].op /\ calls'[c].phase = "reloading"
      /\ calls'[c].id = calls[c].id /\ calls'[c].todo = calls[c].todo
      /\ calls'[c].kind = calls[c].kind
  BY GoesToReloadMoves, CallFacts DEF StoreInv
<1>2. Follows(c)
  BY <1>1 DEF Follows
<1>3. PreparedIsFirst'
  BY <1>1, FollowsKeepFirst DEF StoreInv
<1> QED
  BY <1>1, <1>2, <1>3, QuietStep DEF StoreInv, TypeOK, HasContent

-----------------------------------------------------------------------------
(* The steps of the operations keep the invariant. *)

LEMMA FetchedStep ==
    ASSUME StoreInv, NEW c \in Slots, NEW version \in Versions, NEW ruOff \in BOOLEAN,
           Fetched(c, version, ruOff)
    PROVE  StoreInv'
<1> DEFINE phase == IF calls[c].op = "regenerate" THEN "writing" ELSE "checking"
           changed == off[calls[c].id] # ruOff
           call == [calls[c] EXCEPT !.content = version, !.changed = changed, !.phase = phase]
<1>1. ~Idle(c)
  BY DEF Fetched, In, Idle
<1>2. calls' = [calls EXCEPT ![c] = call]
  BY <1>1, CallFacts DEF Fetched, StoreInv
<1>3. phase \in Phases /\ phase \notin {"idle", "unlinking", "storing", "prepared"} /\ changed \in BOOLEAN
  BY DEF Phases
<1> HIDE DEF phase, changed
<1>4. /\ call \in Calls /\ call.op = calls[c].op /\ call.phase = phase /\ call.id = calls[c].id
      /\ call.content = version /\ call.todo = calls[c].todo /\ call.kind = calls[c].kind
  BY <1>1, <1>3, CallFacts DEF StoreInv, Calls
<1> HIDE DEF call
<1>5. Moves(c) /\ calls'[c] = call
  BY <1>1, <1>2, <1>4, CallFacts DEF StoreInv, Moves, Same
<1>6. Follows(c)
  BY <1>1, <1>4, <1>5 DEF Follows
<1>7. UNCHANGED <<rows, files, selected, used, chain, starts, service, begun>>
  BY DEF Fetched
<1>8. PreparedIsFirst'
  BY <1>3, <1>4, <1>5, <1>7, FollowsKeepFirst DEF StoreInv
<1>9. off' \in [Ids -> BOOLEAN]
  BY DEF Fetched, StoreInv, TypeOK
<1>10. version # None
  BY StoreAssumption
<1> QED
  BY <1>3, <1>4, <1>5, <1>6, <1>7, <1>8, <1>9, <1>10, QuietStep DEF StoreInv, TypeOK

LEMMA CheckedStep ==
    ASSUME StoreInv, NEW c \in Slots, Checked(c) PROVE StoreInv'
<1> DEFINE phase == IF calls[c].op = "update" THEN "comparing" ELSE "writing"
<1>1. ~Idle(c) /\ calls[c].content # None
  BY DEF Checked, In, Idle, StoreInv, TypeOK, HasContent
<1>2. phase \in Phases /\ phase \notin {"waiting", "unlinking", "storing", "prepared"}
  BY DEF Phases
<1>3. Goes(c, phase) /\ UNCHANGED <<rows, files, selected, off, used, starts, service, begun>>
  BY DEF Checked
<1> HIDE DEF phase
<1> QED
  BY <1>1, <1>2, <1>3, GoesStep

LEMMA ComparedStep ==
    ASSUME StoreInv, NEW c \in Slots, Compared(c) PROVE StoreInv'
<1>1. ~Idle(c) /\ calls[c].content # None
  BY DEF Compared, In, Idle, StoreInv, TypeOK, HasContent
<1>2. UNCHANGED <<rows, files, selected, off, used, starts, service, begun>>
  BY DEF Compared
<1>3. CASE Goes(c, "writing")
  <2>1. "writing" \in Phases
    BY DEF Phases
  <2> QED
    BY <1>1, <1>2, <1>3, <2>1, GoesStep
<1>4. CASE GoesToReload(c)
  BY <1>1, <1>2, <1>4, ReloadStep DEF StoreInv, TypeOK
<1>5. CASE Over(calls, c)
  BY <1>1, <1>2, <1>5, OverStep
<1> QED
  BY <1>3, <1>4, <1>5 DEF Compared

LEMMA FileWrittenStep ==
    ASSUME StoreInv, NEW c \in Slots, FileWritten(c) PROVE StoreInv'
<1>1. ~Idle(c) /\ calls[c].content # None
  BY DEF FileWritten, In, Idle, StoreInv, TypeOK, HasContent
<1>2. calls[c].id \in Ids /\ calls[c].content \in Versions
  BY <1>1, CallFacts DEF StoreInv, Calls
<1>3. UNCHANGED <<rows, selected, off, used, starts, service, begun>>
  BY DEF FileWritten
<1>4. /\ files' \in [Ids -> Versions \cup {None}]
      /\ \A i \in Ids : files[i] # None => files'[i] # None
      /\ files'[calls[c].id] # None
  BY <1>1, <1>2 DEF FileWritten, StoreInv, TypeOK
<1>5. CASE Over(calls, c)
  <2>1. Moves(c) /\ Ended(c) /\ chain' \in [Ids -> Slots \cup {None}]
    BY <1>1, <1>5, OverMoves, CallFacts DEF StoreInv
  <2>2. calls'[c].phase \in {"idle", "fetching"} /\ Follows(c)
    BY <1>1, <2>1 DEF Ended, NoCall, Follows
  <2>3. PreparedIsFirst'
    BY <1>3, <2>1, <2>2, FollowsKeepFirst DEF StoreInv
  <2> QED
    BY <1>3, <1>4, <2>1, <2>2, <2>3, QuietStep DEF StoreInv, TypeOK, HasContent
<1>6. CASE Goes(c, "storing")
  <2>1. "storing" \in Phases
    BY DEF Phases
  <2>2. Moves(c) /\ UNCHANGED chain /\ calls'[c] = [calls[c] EXCEPT !.phase = "storing"]
    BY <1>1, <1>6, <2>1, GoesMoves, CallFacts DEF StoreInv
  <2>3. /\ calls'[c].phase = "storing" /\ calls'[c].op = calls[c].op /\ calls'[c].id = calls[c].id
        /\ calls'[c].content = calls[c].content /\ calls'[c].todo = calls[c].todo
        /\ calls'[c].kind = calls[c].kind
    BY <1>1, <2>2, CallFacts DEF StoreInv, Calls
  <2>4. Follows(c)
    BY <1>1, <2>3 DEF Follows
  <2>5. PreparedIsFirst'
    BY <1>3, <2>2, <2>3, FollowsKeepFirst DEF StoreInv
  <2> QED
    BY <1>1, <1>3, <1>4, <2>2, <2>3, <2>4, <2>5, QuietStep DEF StoreInv, TypeOK
<1>7. CASE GoesToReload(c)
  BY <1>1, <1>3, <1>4, <1>7, ReloadStep
<1> QED
  BY <1>5, <1>6, <1>7 DEF FileWritten

\* The row comes to the file, and the selection to the row.
LEMMA StoredStep ==
    ASSUME StoreInv, NEW c \in Slots, Stored(c) PROVE StoreInv'
<1> DEFINE id == calls[c].id
<1>1. ~Idle(c)
  BY DEF Stored, In, Idle
<1>2. id \in Ids /\ id \in used
  BY <1>1, CallFacts DEF StoreInv
<1>3. UNCHANGED <<files, off, used, starts, service, begun>>
  BY DEF Stored
<1>4. CASE /\ calls[c].op = "create"
           /\ rows' = [i \in DOMAIN rows \cup {id} |-> IF i = id THEN calls[c].kind ELSE rows[i]]
           /\ selected' = id
           /\ Over(calls, c)
  <2>1. Creates(c) /\ calls[c].kind \in Kinds /\ files[id] # None
    BY <1>1, <1>4 DEF Stored, Creates, StoreInv, TypeOK, RowsAndFiles
  <2>2. Moves(c) /\ Ended(c) /\ chain' \in [Ids -> Slots \cup {None}]
    BY <1>1, <1>4, OverMoves, CallFacts DEF StoreInv
  <2>3. calls'[c].phase \in {"idle", "fetching"} /\ Follows(c)
    BY <1>1, <2>2 DEF Ended, NoCall, Follows
  <2>4. PreparedIsFirst'
    BY <1>3, <2>2, <2>3, FollowsKeepFirst DEF StoreInv
  <2>5. DOMAIN rows' = DOMAIN rows \cup {id}
    BY <1>4
  <2>6. rows' \in [DOMAIN rows \cup {id} -> Kinds] /\ DOMAIN rows \cup {id} \in SUBSET Ids
    <3>1. PICK known \in SUBSET Ids : rows \in [known -> Kinds]
      BY DEF StoreInv, TypeOK
    <3>2. DOMAIN rows = known
      BY <3>1
    <3> QED
      BY <1>2, <1>4, <2>1, <3>1, <3>2
  <2>7. TypeOK'
    <3>1. /\ calls' \in [Slots -> Calls]
          /\ \A s \in Slots : ~Idle(s)' => calls'[s].id \in used'
          /\ \A s \in Slots : Creates(s)' => calls'[s].kind \in Kinds
          /\ \A s \in Slots : HasContent(calls'[s]) => calls'[s].content # None
      BY <1>3, <2>2, <2>3, FollowsKeepType DEF StoreInv, HasContent
    <3>2. \E known \in SUBSET Ids : rows' \in [known -> Kinds]
      BY <2>6
    <3>3. selected' \in Ids \cup {None}
      BY <1>2, <1>4
    <3> QED
      BY <1>3, <2>2, <3>1, <3>2, <3>3 DEF StoreInv, TypeOK
  <2>8. IdsAreUsed' /\ CreateIsAlone'
    BY <1>3, <2>2, <2>3, <2>5, FollowsKeepIds DEF StoreInv
  <2>9. RowsAndFiles'
    BY <1>3, <2>1, <2>2, <2>3, <2>5, FollowsKeepFiles DEF StoreInv
  <2>10. RowHasFile' /\ SelectionIsRow'
    BY <1>3, <1>4, <2>1, <2>5 DEF StoreInv, RowHasFile, SelectionIsRow
  <2> QED
    BY <2>4, <2>7, <2>8, <2>9, <2>10 DEF StoreInv
<1>5. CASE GoesToReload(c) /\ UNCHANGED <<rows, selected>>
  BY <1>1, <1>3, <1>5, ReloadStep DEF StoreInv, TypeOK
<1> QED
  BY <1>4, <1>5 DEF Stored

\* The file goes, its row has gone before.
LEMMA UnlinkedStep ==
    ASSUME StoreInv, NEW c \in Slots, Unlinked(c) PROVE StoreInv'
<1>1. ~Idle(c) /\ calls[c].id \notin DOMAIN rows
  BY DEF Unlinked, In, Idle, StoreInv, RowsAndFiles
<1>2. UNCHANGED <<rows, selected, off, used, starts, service, begun>>
  BY DEF Unlinked
<1>3. Moves(c) /\ Ended(c) /\ chain' \in [Ids -> Slots \cup {None}]
  BY <1>1, OverMoves, CallFacts DEF Unlinked, StoreInv
<1>4. calls'[c].phase \in {"idle", "fetching"} /\ Follows(c)
  BY <1>1, <1>3 DEF Ended, NoCall, Follows
<1>5. PreparedIsFirst'
  BY <1>2, <1>3, <1>4, FollowsKeepFirst DEF StoreInv
<1>6. /\ files' \in [Ids -> Versions \cup {None}]
      /\ \A i \in Ids : i # calls[c].id => files'[i] = files[i]
  BY DEF Unlinked, StoreInv, TypeOK
<1>7. TypeOK'
  <2>1. /\ calls' \in [Slots -> Calls]
        /\ \A s \in Slots : ~Idle(s)' => calls'[s].id \in used'
        /\ \A s \in Slots : Creates(s)' => calls'[s].kind \in Kinds
        /\ \A s \in Slots : HasContent(calls'[s]) => calls'[s].content # None
    BY <1>2, <1>3, <1>4, FollowsKeepType DEF StoreInv, HasContent
  <2> QED
    BY <1>2, <1>3, <1>6, <2>1 DEF StoreInv, TypeOK
<1>8. IdsAreUsed' /\ CreateIsAlone'
  BY <1>2, <1>3, <1>4, FollowsKeepIds DEF StoreInv
<1>9. RowsAndFiles'
  BY <1>2, <1>3, <1>4, <1>6, FollowsKeepFiles DEF StoreInv
<1>10. RowHasFile' /\ SelectionIsRow'
  <2>1. DOMAIN rows \subseteq Ids
    BY DEF StoreInv, TypeOK
  <2> QED
    BY <1>1, <1>2, <1>6, <2>1 DEF StoreInv, RowHasFile, SelectionIsRow
<1> QED
  BY <1>5, <1>7, <1>8, <1>9, <1>10 DEF StoreInv

LEMMA FailsStep ==
    ASSUME StoreInv, NEW c \in Slots, Fails(c) PROVE StoreInv'
<1>1. ~Idle(c)
  BY DEF Fails, Idle
<1> QED
  BY <1>1, OverStep DEF Fails

\* An operation waits for its turn, a reload for the last of the starts.
LEMMA ReloadsStep ==
    ASSUME StoreInv, NEW c \in Slots, Reload(c) \/ ReloadAfter(c) PROVE StoreInv'
<1>1. ~Idle(c)
  BY DEF Reload, ReloadAfter, In, Idle
<1>2. UNCHANGED <<rows, files, selected, off, used, starts, service, begun>>
  BY DEF Reload, ReloadAfter
<1>3. CASE Over(calls, c)
  BY <1>1, <1>2, <1>3, OverStep
<1>4. CASE Goes(c, "reading")
  <2>1. "reading" \in Phases
    BY DEF Phases
  <2> QED
    BY <1>1, <1>2, <1>4, <2>1, GoesStep DEF HasContent
<1>5. CASE /\ starts # <<>> /\ UNCHANGED chain
           /\ calls' = [calls EXCEPT ![c].phase = "behind", ![c].prev = starts[Len(starts)]]
  <2> DEFINE last == starts[Len(starts)]
             call == [calls[c] EXCEPT !.phase = "behind", !.prev = last]
  <2>1. last \in Slots
    <3>1. starts \in Seq(Slots) /\ Len(starts) \in Nat \ {0}
      BY <1>5, EmptySeq DEF StoreInv, TypeOK
    <3> QED
      BY <3>1, ElementOfSeq
  <2>2. calls' = [calls EXCEPT ![c] = call]
    BY <1>1, <1>5, CallFacts DEF StoreInv
  <2> HIDE DEF last
  <2>3. /\ call \in Calls /\ call.op = calls[c].op /\ call.phase = "behind" /\ call.id = calls[c].id
        /\ call.content = calls[c].content /\ call.todo = calls[c].todo /\ call.kind = calls[c].kind
    BY <1>1, <2>1, CallFacts DEF StoreInv, Calls, Phases
  <2> HIDE DEF call
  <2>4. Moves(c) /\ calls'[c] = call
    BY <1>1, <2>2, <2>3, CallFacts DEF StoreInv, Moves, Same
  <2>5. Follows(c)
    BY <1>1, <2>3, <2>4 DEF Follows
  <2>6. PreparedIsFirst'
    BY <1>2, <2>3, <2>4, FollowsKeepFirst DEF StoreInv
  <2> QED
    BY <1>2, <1>5, <2>3, <2>4, <2>5, <2>6, QuietStep DEF StoreInv, TypeOK, HasContent
<1> QED
  BY <1>3, <1>4, <1>5 DEF Reload, ReloadAfter

LEMMA ContentReadStep ==
    ASSUME StoreInv, NEW c \in Slots, ContentRead(c) PROVE StoreInv'
<1> DEFINE content == files[calls[c].id]
           call == [calls[c] EXCEPT !.phase = "read", !.content = content]
<1>1. ~Idle(c)
  BY DEF ContentRead, In, Idle
<1>2. content \in Versions /\ content # None
  BY <1>1, CallFacts DEF ContentRead, StoreInv, TypeOK
<1>3. calls' = [calls EXCEPT ![c] = call]
  BY <1>1, CallFacts DEF ContentRead, StoreInv
<1> HIDE DEF content
<1>4. /\ call \in Calls /\ call.op = calls[c].op /\ call.phase = "read" /\ call.id = calls[c].id
      /\ call.content = content /\ call.todo = calls[c].todo /\ call.kind = calls[c].kind
  BY <1>1, <1>2, CallFacts DEF StoreInv, Calls, Phases
<1> HIDE DEF call
<1>5. Moves(c) /\ calls'[c] = call
  BY <1>1, <1>3, <1>4, CallFacts DEF StoreInv, Moves, Same
<1>6. Follows(c)
  BY <1>1, <1>4, <1>5 DEF Follows
<1>7. UNCHANGED <<rows, files, selected, off, used, chain, starts, service, begun>>
  BY DEF ContentRead
<1>8. PreparedIsFirst'
  BY <1>4, <1>5, <1>7, FollowsKeepFirst DEF StoreInv
<1> QED
  BY <1>2, <1>4, <1>5, <1>6, <1>7, <1>8, QuietStep DEF StoreInv, TypeOK

\* A start joins the chain behind those there are.
LEMMA StartQueuedStep ==
    ASSUME StoreInv, NEW c \in Slots, StartQueued(c) PROVE StoreInv'
<1>1. ~Idle(c) /\ calls[c].content # None
  BY DEF StartQueued, In, Idle, StoreInv, TypeOK, HasContent
<1>2. "queued" \in Phases
  BY DEF Phases
<1>3. Moves(c) /\ UNCHANGED chain /\ calls'[c] = [calls[c] EXCEPT !.phase = "queued"]
  BY <1>1, <1>2, GoesMoves, CallFacts DEF StoreInv, StartQueued
<1>4. /\ calls'[c].phase = "queued" /\ calls'[c].op = calls[c].op /\ calls'[c].id = calls[c].id
      /\ calls'[c].content = calls[c].content /\ calls'[c].todo = calls[c].todo
      /\ calls'[c].kind = calls[c].kind
  BY <1>1, <1>3, CallFacts DEF StoreInv, Calls
<1>5. Follows(c)
  BY <1>1, <1>4 DEF Follows
<1>6. starts \in Seq(Slots) /\ starts' = Append(starts, c)
  BY DEF StartQueued, StoreInv, TypeOK
<1>7. starts' \in Seq(Slots)
  BY <1>6, AppendProperties
<1>8. starts # <<>> => starts' # <<>> /\ Head(starts') = Head(starts)
  BY <1>6
<1>9. PreparedIsFirst'
  BY <1>3, <1>4, <1>8 DEF StoreInv, PreparedIsFirst, Moves, Same, In
<1>10. UNCHANGED <<rows, files, selected, off, used, service, begun>>
  BY DEF StartQueued
<1> QED
  BY <1>1, <1>3, <1>4, <1>5, <1>7, <1>9, <1>10, QuietStep DEF StoreInv, TypeOK

LEMMA StartPreparedStep ==
    ASSUME StoreInv, NEW c \in Slots, StartPrepared(c) PROVE StoreInv'
<1> DEFINE ruOff == off[calls[c].id]
           call == [calls[c] EXCEPT !.phase = "prepared", !.ruOff = ruOff]
<1>1. ~Idle(c) /\ calls[c].content # None
  BY DEF StartPrepared, In, Idle, StoreInv, TypeOK, HasContent
<1>2. ruOff \in BOOLEAN
  BY <1>1, CallFacts DEF StoreInv, TypeOK
<1>3. calls' = [calls EXCEPT ![c] = call]
  BY <1>1, CallFacts DEF StartPrepared, StoreInv
<1> HIDE DEF ruOff
<1>4. /\ call \in Calls /\ call.op = calls[c].op /\ call.phase = "prepared" /\ call.id = calls[c].id
      /\ call.content = calls[c].content /\ call.todo = calls[c].todo /\ call.kind = calls[c].kind
  BY <1>1, <1>2, CallFacts DEF StoreInv, Calls, Phases
<1> HIDE DEF call
<1>5. Moves(c) /\ calls'[c] = call
  BY <1>1, <1>3, <1>4, CallFacts DEF StoreInv, Moves, Same
<1>6. Follows(c)
  BY <1>1, <1>4, <1>5 DEF Follows
<1>7. UNCHANGED <<rows, files, selected, off, used, chain, starts, service, begun>>
  BY DEF StartPrepared
<1>8. starts # <<>> /\ c = Head(starts)
  BY DEF StartPrepared
<1>9. PreparedIsFirst'
  BY <1>5, <1>7, <1>8 DEF StoreInv, PreparedIsFirst, Moves, Same, In
<1> QED
  BY <1>1, <1>4, <1>5, <1>6, <1>7, <1>9, QuietStep DEF StoreInv, TypeOK

LEMMA StartEndsStep ==
    ASSUME StoreInv, NEW c \in Slots, NEW ok \in BOOLEAN, StartEnds(c, ok) PROVE StoreInv'
<1> DEFINE freed == [s \in Slots |-> IF In(s, "behind") /\ calls[s].prev = c
                                    THEN [calls[s] EXCEPT !.prev = None] ELSE calls[s]]
<1>1. ~Idle(c) /\ calls[c].content # None
  BY DEF StartEnds, In, Idle, StoreInv, TypeOK, HasContent
<1>2. calls \in [Slots -> Calls] /\ chain \in [Ids -> Slots \cup {None}]
  BY DEF StoreInv, TypeOK
<1>3. freed \in [Slots -> Calls] /\ \A s \in Slots : Same(freed[s], calls[s])
  <2> SUFFICES ASSUME NEW s \in Slots PROVE freed[s] \in Calls /\ Same(freed[s], calls[s])
    OBVIOUS
  <2>1. [calls[s] EXCEPT !.prev = None] \in Calls /\ Same([calls[s] EXCEPT !.prev = None], calls[s])
    BY <1>2 DEF Calls, Same
  <2>2. Same(calls[s], calls[s])
    BY DEF Same
  <2> QED
    BY <1>2, <2>1, <2>2
<1>4. Over(freed, c) /\ starts' = Tail(starts) /\ UNCHANGED <<rows, files, selected, off, used, begun>>
  BY DEF StartEnds
<1> HIDE DEF freed
<1>5. Moves(c) /\ Ended(c) /\ chain' \in [Ids -> Slots \cup {None}]
  BY <1>2, <1>3, <1>4, OverMoves
<1>6. calls'[c].phase \in {"idle", "fetching"} /\ Follows(c)
  BY <1>1, <1>5 DEF Ended, NoCall, Follows
<1>7. In(c, "prepared") /\ starts # <<>> /\ c = Head(starts)
  BY DEF StartEnds, StoreInv, PreparedIsFirst
<1>8. starts' \in Seq(Slots)
  BY <1>4, <1>7, HeadTailProperties DEF StoreInv, TypeOK
<1>9. \A s \in Slots : ~In(s, "prepared")'
  BY <1>5, <1>6, <1>7 DEF StoreInv, PreparedIsFirst, Moves, Same, In
<1>10. PreparedIsFirst'
  BY <1>9 DEF PreparedIsFirst
<1>11. service' \in Services \cup {None}
  <2>1. calls[c].id \in Ids /\ calls[c].content \in Versions /\ calls[c].ruOff \in BOOLEAN
    BY <1>1, CallFacts DEF StoreInv, Calls
  <2>2. Ran(c) \in Services
    BY <2>1 DEF Ran, Services
  <2> QED
    BY <2>2 DEF StartEnds, StoreInv, TypeOK
<1> QED
  BY <1>4, <1>5, <1>6, <1>8, <1>10, <1>11, QuietStep DEF StoreInv, TypeOK, HasContent

\* The row goes, and the selection with it.
LEMMA TurnToRemoveStep ==
    ASSUME StoreInv, NEW c \in Slots, ~Idle(c), calls[c].op = "remove",
           calls[c].id \in DOMAIN rows,
           off' = [off EXCEPT ![calls[c].id] = FALSE],
           rows' = [i \in DOMAIN rows \ {calls[c].id} |-> rows[i]],
           selected' \in SelectedWithout(calls[c].id),
           Goes(c, "unlinking"),
           UNCHANGED <<files, used, starts, service, begun>>
    PROVE  StoreInv'
<1> DEFINE id == calls[c].id
<1>1. "unlinking" \in Phases
  BY DEF Phases
<1>2. Moves(c) /\ UNCHANGED chain /\ calls'[c] = [calls[c] EXCEPT !.phase = "unlinking"]
  BY <1>1, GoesMoves, CallFacts DEF StoreInv
<1>3. /\ calls'[c].phase = "unlinking" /\ calls'[c].op = "remove" /\ calls'[c].id = id
      /\ calls'[c].content = calls[c].content /\ calls'[c].todo = calls[c].todo
      /\ calls'[c].kind = calls[c].kind
  BY <1>2, CallFacts DEF StoreInv, Calls
<1>4. Follows(c)
  BY <1>3 DEF Follows
<1>5. PreparedIsFirst'
  BY <1>2, <1>3, FollowsKeepFirst DEF StoreInv
<1>6. DOMAIN rows' = DOMAIN rows \ {id}
  OBVIOUS
<1>7. SelectionIsRow' /\ selected' \in Ids \cup {None}
  <2>1. DOMAIN rows \subseteq Ids /\ selected \in Ids \cup {None} /\ selected \in DOMAIN rows
    BY DEF StoreInv, TypeOK, SelectionIsRow
  <2>2. CASE selected # id
    BY <1>6, <2>1, <2>2 DEF SelectedWithout, SelectionIsRow
  <2>3. CASE selected = id /\ DOMAIN rows = {id}
    BY <1>6, <2>1, <2>3 DEF SelectedWithout, SelectionIsRow
  <2>4. CASE selected = id /\ DOMAIN rows # {id}
    BY <1>6, <2>1, <2>4 DEF SelectedWithout, SelectionIsRow
  <2> QED
    BY <2>2, <2>3, <2>4
<1>8. TypeOK'
  <2>1. /\ calls' \in [Slots -> Calls]
        /\ \A s \in Slots : ~Idle(s)' => calls'[s].id \in used'
        /\ \A s \in Slots : Creates(s)' => calls'[s].kind \in Kinds
        /\ \A s \in Slots : HasContent(calls'[s]) => calls'[s].content # None
    BY <1>2, <1>3, <1>4, FollowsKeepType DEF StoreInv, HasContent
  <2>2. \E known \in SUBSET Ids : rows' \in [known -> Kinds]
    <3>1. PICK known \in SUBSET Ids : rows \in [known -> Kinds]
      BY DEF StoreInv, TypeOK
    <3>2. rows' \in [known \ {id} -> Kinds]
      BY <3>1
    <3> QED
      BY <3>2
  <2>3. off' \in [Ids -> BOOLEAN]
    BY DEF StoreInv, TypeOK
  <2> QED
    BY <1>2, <1>7, <2>1, <2>2, <2>3 DEF StoreInv, TypeOK
<1>9. IdsAreUsed' /\ CreateIsAlone'
  BY <1>2, <1>4, <1>6, FollowsKeepIds DEF StoreInv
<1>10. RowsAndFiles'
  BY <1>2, <1>3, <1>4, <1>6, FollowsKeepFiles DEF StoreInv
<1>11. RowHasFile'
  BY <1>6 DEF StoreInv, RowHasFile
<1> QED
  BY <1>5, <1>7, <1>8, <1>9, <1>10, <1>11 DEF StoreInv

LEMMA TurnStep ==
    ASSUME StoreInv, NEW c \in Slots, Turn(c) PROVE StoreInv'
<1>1. ~Idle(c) /\ UNCHANGED <<files, used, starts, service, begun>>
  BY DEF Turn, In, Idle
<1>2. CASE Over(calls, c) /\ UNCHANGED <<rows, selected, off>>
  BY <1>1, <1>2, OverStep
<1>3. CASE Goes(c, "fetching") /\ UNCHANGED <<rows, selected, off>>
  <2>1. "fetching" \in Phases
    BY DEF Phases
  <2> QED
    BY <1>1, <1>3, <2>1, GoesStep DEF HasContent
<1>4. CASE /\ calls[c].op = "write" /\ Goes(c, "writing") /\ UNCHANGED <<rows, selected, off>>
  <2>1. "writing" \in Phases
    BY DEF Phases
  <2>2. calls[c].content # None
    BY <1>4 DEF Turn, In, StoreInv, TypeOK, HasContent
  <2> QED
    BY <1>1, <1>4, <2>1, <2>2, GoesStep
<1>5. CASE /\ calls[c].id \in DOMAIN rows /\ calls[c].op = "remove"
           /\ off' = [off EXCEPT ![calls[c].id] = FALSE]
           /\ rows' = [i \in DOMAIN rows \ {calls[c].id} |-> rows[i]]
           /\ selected' \in SelectedWithout(calls[c].id)
           /\ Goes(c, "unlinking")
  BY <1>1, <1>5, TurnToRemoveStep
<1> QED
  BY <1>2, <1>3, <1>4, <1>5 DEF Turn

-----------------------------------------------------------------------------
(* A call that begins keeps the invariant. *)

\* It is about a profile there is, or creates one under an id nobody has had.
LEMMA BeginStep ==
    ASSUME StoreInv, NEW c \in Slots, NEW call \in Calls, call.op \in Ops, call.id \in Ids,
           Begin(c, call), UNCHANGED rows,
           used' = used \cup {call.id},
           selected' = selected \/ selected' \in DOMAIN rows,
           \/ call.op = "create" /\ call.id \notin used /\ call.kind \in Kinds /\ call.todo = {}
           \/ call.op # "create" /\ call.id \in DOMAIN rows /\ call.todo \subseteq DOMAIN rows,
           call.phase \notin {"waiting", "unlinking", "storing", "prepared"},
           call.op = "write" \/ HasContent(call) => call.content # None
    PROVE  StoreInv'
<1>1. /\ Idle(c) /\ Moves(c) /\ chain' \in [Ids -> Slots \cup {None}] /\ begun' \in Nat
      /\ UNCHANGED <<files, off, starts, service>>
      /\ calls'[c].op = call.op /\ calls'[c].id = call.id
      /\ calls'[c].content = call.content /\ calls'[c].todo = call.todo
      /\ calls'[c].kind = call.kind
      /\ calls'[c].phase = IF call.op \in Chained THEN "waiting" ELSE call.phase
  BY BeginMoves DEF StoreInv, TypeOK
<1>2. calls'[c].phase \notin {"unlinking", "storing", "prepared"}
  BY <1>1
<1>3. HasContent(calls'[c]) => calls'[c].content # None
  BY <1>1 DEF HasContent
<1>4. TypeOK'
  <2>1. /\ calls' \in [Slots -> Calls]
        /\ \A s \in Slots : ~Idle(s)' => calls'[s].id \in used'
        /\ \A s \in Slots : Creates(s)' => calls'[s].kind \in Kinds
        /\ \A s \in Slots : HasContent(calls'[s]) => calls'[s].content # None
    BY <1>1, <1>3, CallsKeepType DEF StoreInv
  <2>2. used' \in SUBSET Ids /\ selected' \in Ids \cup {None}
    BY DEF StoreInv, TypeOK
  <2> QED
    BY <1>1, <2>1, <2>2 DEF StoreInv, TypeOK
<1>5. IdsAreUsed'
  <2>1. call.todo \subseteq used /\ DOMAIN rows \subseteq used
    BY DEF StoreInv, IdsAreUsed
  <2> QED
    BY <1>1, <2>1 DEF StoreInv, IdsAreUsed, Moves, Same, Idle
<1>6. CreateIsAlone'
  <2> SUFFICES ASSUME NEW s \in Slots, Creates(s)'
               PROVE  /\ calls'[s].id \notin DOMAIN rows
                      /\ \A d \in Slots \ {s} : ~Idle(d)' =>
                           calls'[d].id # calls'[s].id /\ calls'[s].id \notin calls'[d].todo
    BY DEF CreateIsAlone
  <2>1. CASE s = c
    <3>1. call.op = "create" /\ call.id \notin used /\ calls'[s].id = call.id
      BY <1>1, <2>1 DEF Creates
    <3>2. call.id \notin DOMAIN rows
      BY <3>1 DEF StoreInv, IdsAreUsed
    <3>3. ASSUME NEW d \in Slots \ {s}, ~Idle(d)'
          PROVE  calls'[d].id # call.id /\ call.id \notin calls'[d].todo
      <4>1. Same(calls'[d], calls[d]) /\ ~Idle(d)
        BY <1>1, <2>1, <3>3 DEF Moves, Same, Idle
      <4>2. calls[d].id \in used /\ calls[d].todo \subseteq used
        BY <4>1 DEF StoreInv, TypeOK, IdsAreUsed
      <4> QED
        BY <3>1, <4>1, <4>2 DEF Same
    <3> QED
      BY <3>1, <3>2, <3>3
  <2>2. CASE s # c
    <3>1. Creates(s) /\ calls'[s].id = calls[s].id
      BY <1>1, <2>2 DEF Moves, Same, Creates, Idle
    <3>2. calls[s].id \notin DOMAIN rows /\ calls[s].id \in used
      BY <3>1 DEF StoreInv, CreateIsAlone, TypeOK, Creates
    <3>3. call.id # calls[s].id /\ calls[s].id \notin call.todo
      BY <3>2
    <3>4. ASSUME NEW d \in Slots \ {s}, ~Idle(d)'
          PROVE  calls'[d].id # calls[s].id /\ calls[s].id \notin calls'[d].todo
      <4>1. CASE d = c
        BY <1>1, <3>3, <4>1
      <4>2. CASE d # c
        BY <1>1, <3>1, <3>4, <4>2 DEF StoreInv, CreateIsAlone, Moves, Same, Idle
      <4> QED
        BY <4>1, <4>2
    <3> QED
      BY <3>1, <3>2, <3>4
  <2> QED
    BY <2>1, <2>2
<1>7. RowsAndFiles'
  BY <1>1, <1>2 DEF StoreInv, RowsAndFiles, Moves, Same, In
<1>8. PreparedIsFirst'
  BY <1>1, <1>2, FollowsKeepFirst DEF StoreInv
<1>9. RowHasFile' /\ SelectionIsRow'
  BY <1>1 DEF StoreInv, RowHasFile, SelectionIsRow
<1> QED
  BY <1>4, <1>5, <1>6, <1>7, <1>8, <1>9 DEF StoreInv

\* An operation on a profile there is.
LEMMA BeginOnRowStep ==
    ASSUME StoreInv, NEW c \in Slots, NEW call \in Calls,
           call.op \in Ops \ {"create"}, call.id \in DOMAIN rows,
           call.phase \in {"idle", "fetching", "reloading", "reading"},
           call.op # "write" \/ call.content # None, call.todo \subseteq DOMAIN rows,
           Begin(c, call),
           selected' = selected \/ selected' = call.id, UNCHANGED <<rows, used>>
    PROVE  StoreInv'
<1>1. call.id \in Ids /\ call.id \in used
  BY DEF StoreInv, TypeOK, IdsAreUsed
<1>2. used' = used \cup {call.id}
  BY <1>1
<1>3. call.op = "write" \/ HasContent(call) => call.content # None
  BY DEF HasContent
<1> QED
  BY <1>1, <1>2, <1>3, BeginStep

LEMMA AsksOnRowStep ==
    ASSUME StoreInv, NEW c \in Slots, NEW id \in DOMAIN rows,
           \/ Update(c, id) \/ UpdateMetadata(c, id) \/ Remove(c, id) \/ Select(c, id)
           \/ \E version \in Versions : WriteContent(c, id, version)
    PROVE  StoreInv'
<1>1. id \in Ids
  BY DEF StoreInv, TypeOK
<1>2. ASSUME NEW op \in {"update", "metadata", "remove"},
             Begin(c, Call(op, id)), UNCHANGED <<rows, selected, used>>
      PROVE  StoreInv'
  <2>1. op \in Ops \cup {None} /\ op \in Ops \ {"create"} /\ op # "write"
    BY DEF Ops, Chained
  <2>2. /\ Call(op, id) \in Calls /\ Call(op, id).op = op /\ Call(op, id).id = id
        /\ Call(op, id).todo = {} /\ Call(op, id).phase = "idle"
    BY <1>1, <2>1, CallType
  <2> QED
    BY <1>2, <2>1, <2>2, BeginOnRowStep
<1>3. CASE Select(c, id)
  <2> DEFINE call == [Call("select", id) EXCEPT !.phase = "reloading"]
  <2>1. Begin(c, call) /\ selected' = id /\ UNCHANGED <<rows, used>>
    BY <1>3 DEF Select
  <2>2. "select" \in Ops
    BY DEF Ops
  <2>3. call \in Calls /\ call.op = "select" /\ call.id = id /\ call.todo = {} /\ call.phase = "reloading"
    BY <1>1, <2>2, CallType DEF Calls, Phases
  <2> HIDE DEF call
  <2> QED
    BY <2>1, <2>2, <2>3, BeginOnRowStep
<1>4. ASSUME NEW version \in Versions, WriteContent(c, id, version) PROVE StoreInv'
  <2> DEFINE call == [Call("write", id) EXCEPT !.content = version]
  <2>1. Begin(c, call) /\ UNCHANGED <<rows, selected, used>>
    BY <1>4 DEF WriteContent
  <2>2. "write" \in Ops /\ version # None
    BY StoreAssumption DEF Ops, Chained
  <2>3. call \in Calls /\ call.op = "write" /\ call.id = id /\ call.todo = {} /\ call.phase = "idle"
        /\ call.content = version
    BY <1>1, <2>2, CallType DEF Calls
  <2> HIDE DEF call
  <2> QED
    BY <2>1, <2>2, <2>3, BeginOnRowStep
<1> QED
  BY <1>2, <1>3, <1>4 DEF Update, UpdateMetadata, Remove

LEMMA ConnectStep ==
    ASSUME StoreInv, NEW c \in Slots, Connect(c) PROVE StoreInv'
<1> DEFINE call == [Call("connect", selected) EXCEPT !.phase = "reading"]
<1>1. selected \in DOMAIN rows /\ selected \in Ids
  BY DEF Connect, StoreInv, SelectionIsRow, TypeOK
<1>2. "connect" \in Ops
  BY DEF Ops
<1>3. call \in Calls /\ call.op = "connect" /\ call.id = selected /\ call.todo = {}
      /\ call.phase = "reading"
  BY <1>1, <1>2, CallType DEF Calls, Phases
<1>4. Begin(c, call) /\ UNCHANGED <<rows, selected, used>>
  BY DEF Connect
<1> HIDE DEF call
<1> QED
  BY <1>1, <1>2, <1>3, <1>4, BeginOnRowStep

LEMMA RegenerateStep ==
    ASSUME StoreInv, NEW c \in Slots, Regenerate(c) PROVE StoreInv'
<1>1. PICK first \in Remotes :
        Begin(c, [Call("regenerate", first) EXCEPT !.phase = "fetching", !.todo = Remotes \ {first}])
  BY DEF Regenerate
<1> DEFINE todo == Remotes \ {first}
           call == [Call("regenerate", first) EXCEPT !.phase = "fetching", !.todo = todo]
<1>2. Remotes \subseteq DOMAIN rows /\ first \in DOMAIN rows /\ first \in Ids /\ DOMAIN rows \subseteq Ids
  BY DEF Remotes, StoreInv, TypeOK
<1>3. "regenerate" \in Ops
  BY DEF Ops
<1>4. todo \subseteq DOMAIN rows
  BY <1>2
<1>5. Begin(c, call)
  BY <1>1
<1> HIDE DEF todo, call
<1>6. /\ Call("regenerate", first) \in Calls /\ Call("regenerate", first).op = "regenerate"
      /\ Call("regenerate", first).id = first
  BY <1>2, <1>3, CallType, Zenon
<1>7. /\ call \in Calls /\ call.op = "regenerate" /\ call.id = first /\ call.todo = todo
      /\ call.phase = "fetching"
  BY <1>2, <1>4, <1>6 DEF call, Calls, Phases
<1> QED
  BY <1>2, <1>3, <1>4, <1>5, <1>7, BeginOnRowStep DEF Regenerate

LEMMA CreatesStep ==
    ASSUME StoreInv, NEW c \in Slots, NEW id \in Ids,
           CreateRemote(c, id) \/ \E version \in Versions : CreateLocal(c, id, version)
    PROVE  StoreInv'
<1>1. "create" \in Ops
  BY DEF Ops
<1>2. /\ Call("create", id) \in Calls /\ Call("create", id).op = "create"
      /\ Call("create", id).id = id /\ Call("create", id).todo = {}
  BY <1>1, CallType
<1>3. CASE CreateRemote(c, id)
  <2> DEFINE call == [Call("create", id) EXCEPT !.phase = "fetching", !.kind = "remote"]
  <2>1. call \in Calls /\ call.op = "create" /\ call.id = id /\ call.todo = {} /\ call.phase = "fetching"
        /\ call.kind \in Kinds
    BY <1>2 DEF Calls, Phases, Kinds
  <2>2. Begin(c, call) /\ id \notin used /\ used' = used \cup {id} /\ UNCHANGED <<rows, selected>>
    BY <1>3 DEF CreateRemote, Fresh
  <2> HIDE DEF call
  <2> QED
    BY <1>1, <2>1, <2>2, BeginStep DEF HasContent
<1>4. ASSUME NEW version \in Versions, CreateLocal(c, id, version) PROVE StoreInv'
  <2> DEFINE call == [Call("create", id) EXCEPT !.phase = "checking", !.kind = "local", !.content = version]
  <2>1. call \in Calls /\ call.op = "create" /\ call.id = id /\ call.todo = {} /\ call.phase = "checking"
        /\ call.kind \in Kinds /\ call.content = version
    BY <1>2 DEF Calls, Phases, Kinds
  <2>2. Begin(c, call) /\ id \notin used /\ used' = used \cup {id} /\ UNCHANGED <<rows, selected>>
    BY <1>4 DEF CreateLocal, Fresh
  <2> HIDE DEF call
  <2>3. version # None
    BY StoreAssumption
  <2> QED
    BY <1>1, <2>1, <2>2, <2>3, BeginStep
<1> QED
  BY <1>3, <1>4

-----------------------------------------------------------------------------
(* The store implements the book. *)

BookOf == [id \in DOMAIN rows |-> files[id]]

LEMMA AnyVersion == Versions # {}
BY StoreAssumption

LEMMA BookMoves ==
    ASSUME NEW i \in Ids, NEW v \in Versions,
           Book!Add(i, v) \/ Book!Change(i, v) \/ Book!Choose(i) \/ Book!Remove(i)
    PROVE  Book!Next
BY Zenon DEF Book!Next

\* A file of a row is a config of the book, any other none of its.
LEMMA FileWrittenBook ==
    ASSUME StoreInv, NEW c \in Slots, FileWritten(c)
    PROVE  Book!Next \/ UNCHANGED Book!vars
<1>1. ~Idle(c) /\ calls[c].content # None
  BY DEF FileWritten, In, Idle, StoreInv, TypeOK, HasContent
<1>2. PICK id \in Ids, content \in Versions : id = calls[c].id /\ content = calls[c].content
  BY <1>1, CallFacts DEF StoreInv, Calls
<1>3. files' = [files EXCEPT ![id] = content] /\ UNCHANGED <<rows, selected>>
  BY <1>2 DEF FileWritten
<1>4. DOMAIN rows \subseteq Ids /\ DOMAIN files = Ids
  BY DEF StoreInv, TypeOK
<1>5. CASE id \in DOMAIN rows
  <2>1. BookOf' = [BookOf EXCEPT ![id] = content]
    BY <1>2, <1>3, <1>4, <1>5 DEF BookOf
  <2>2. Book!Change(id, content)
    BY <1>3, <1>5, <2>1 DEF Book!Change, BookOf
  <2> QED
    BY <2>2, BookMoves
<1>6. CASE id \notin DOMAIN rows
  BY <1>3, <1>4, <1>6 DEF Book!vars
<1> QED
  BY <1>5, <1>6

\* What a create adds has its file by then.
LEMMA StoredBook ==
    ASSUME StoreInv, NEW c \in Slots, Stored(c)
    PROVE  Book!Next \/ UNCHANGED Book!vars
<1>1. ~Idle(c) /\ In(c, "storing")
  BY DEF Stored, In, Idle
<1>2. PICK id \in Ids : id = calls[c].id /\ UNCHANGED files
  BY <1>1, CallFacts DEF StoreInv, Stored
<1>3. CASE UNCHANGED <<rows, selected>>
  BY <1>2, <1>3 DEF Book!vars
<1>4. CASE /\ calls[c].op = "create" /\ selected' = id
           /\ rows' = [i \in DOMAIN rows \cup {id} |-> IF i = id THEN calls[c].kind ELSE rows[i]]
  <2>1. files[id] # None /\ id \notin DOMAIN rows
    BY <1>1, <1>2, <1>4 DEF StoreInv, RowsAndFiles, CreateIsAlone, Creates
  <2>2. PICK content \in Versions : content = files[id]
    BY <1>2, <2>1 DEF StoreInv, TypeOK
  <2>3. BookOf' = [i \in DOMAIN BookOf \cup {id} |-> IF i = id THEN content ELSE BookOf[i]]
    BY <1>2, <1>4, <2>2 DEF BookOf
  <2>4. Book!Add(id, content)
    BY <1>2, <1>4, <2>1, <2>3 DEF Book!Add, BookOf
  <2> QED
    BY <2>4, BookMoves
<1> QED
  BY <1>2, <1>3, <1>4 DEF Stored

\* A remove is done with its transaction; the file is of no row any more.
LEMMA TurnBook ==
    ASSUME StoreInv, NEW c \in Slots, Turn(c)
    PROVE  Book!Next \/ UNCHANGED Book!vars
<1>1. ~Idle(c)
  BY DEF Turn, In, Idle
<1>2. PICK id \in Ids : id = calls[c].id /\ UNCHANGED files
  BY <1>1, CallFacts DEF StoreInv, Turn
<1>3. CASE UNCHANGED <<rows, selected>>
  BY <1>2, <1>3 DEF Book!vars
<1>4. CASE /\ id \in DOMAIN rows /\ selected' \in SelectedWithout(id)
           /\ rows' = [i \in DOMAIN rows \ {id} |-> rows[i]]
  <2>1. BookOf' = [i \in DOMAIN BookOf \ {id} |-> BookOf[i]]
    BY <1>2, <1>4 DEF BookOf
  <2>2. selected' \in IF selected # id THEN {selected}
                      ELSE IF DOMAIN BookOf \ {id} = {} THEN {None} ELSE DOMAIN BookOf \ {id}
    BY <1>4 DEF SelectedWithout, BookOf
  <2>3. Book!Remove(id)
    BY <1>4, <2>1, <2>2 DEF Book!Remove, BookOf
  <2> QED
    BY <1>2, <2>3, AnyVersion, BookMoves
<1> QED
  BY <1>2, <1>3, <1>4 DEF Turn

\* Every step of the store is a step of the book, or none of its.
LEMMA NextBook ==
    ASSUME StoreInv, [Next]_vars
    PROVE  Book!Next \/ UNCHANGED Book!vars
<1>1. CASE UNCHANGED <<rows, files, selected>>
  BY <1>1 DEF Book!vars
<1>2. ASSUME NEW c \in Slots, Asks(c) PROVE Book!Next \/ UNCHANGED Book!vars
  <2>1. UNCHANGED <<rows, files>>
    BY <1>2 DEF Asks, CreateRemote, CreateLocal, Update, UpdateMetadata, Remove, WriteContent,
                Select, Connect, Regenerate, Begin
  <2>2. ASSUME NEW id \in DOMAIN rows, selected' = id PROVE Book!Next
    <3>1. id \in Ids
      BY DEF StoreInv, TypeOK
    <3>2. Book!Choose(id)
      BY <2>1, <2>2 DEF Book!Choose
    <3> QED
      BY <3>1, <3>2, AnyVersion, BookMoves
  <2>3. CASE UNCHANGED selected
    BY <1>1, <2>1, <2>3
  <2>4. UNCHANGED selected \/ selected' \in DOMAIN rows
    BY <1>2 DEF Asks, CreateRemote, CreateLocal, Update, UpdateMetadata, Remove, WriteContent,
                Select, Connect, Regenerate
  <2> QED
    BY <2>2, <2>3, <2>4
<1>3. ASSUME NEW c \in Slots, Continues(c) PROVE Book!Next \/ UNCHANGED Book!vars
  <2>1. CASE FileWritten(c) \/ Stored(c) \/ Turn(c)
    BY <2>1, FileWrittenBook, StoredBook, TurnBook
  <2>2. CASE Unlinked(c)
    <3>1. ~Idle(c) /\ calls[c].id \notin DOMAIN rows
      BY <2>2 DEF Unlinked, In, Idle, StoreInv, RowsAndFiles
    <3>2. UNCHANGED <<rows, selected>> /\ \A i \in DOMAIN rows : files'[i] = files[i]
      BY <2>2, <3>1 DEF Unlinked, StoreInv, TypeOK
    <3> QED
      BY <3>2 DEF Book!vars
  <2>3. CASE \/ Checked(c) \/ Compared(c) \/ Fails(c)
             \/ \E version \in Versions, ruOff \in Said : Fetched(c, version, ruOff)
    BY <1>1, <2>3 DEF Checked, Compared, Fails, Fetched
  <2>4. CASE \/ Reload(c) \/ ReloadAfter(c) \/ ContentRead(c) \/ StartQueued(c) \/ StartPrepared(c)
             \/ \E ok \in BOOLEAN : StartEnds(c, ok)
    BY <1>1, <2>4 DEF Reload, ReloadAfter, ContentRead, StartQueued, StartPrepared, StartEnds
  <2> QED
    BY <1>3, <2>1, <2>2, <2>3, <2>4 DEF Continues
<1>4. CASE ServiceStops \/ AppRestarts \/ UNCHANGED vars
  BY <1>1, <1>4 DEF ServiceStops, AppRestarts, vars
<1> QED
  BY <1>2, <1>3, <1>4 DEF Next

-----------------------------------------------------------------------------
(* The theorems. *)

LEMMA RestartsStep ==
    ASSUME StoreInv, AppRestarts PROVE StoreInv'
<1>1. /\ calls' = [c \in Slots |-> NoCall] /\ chain' = [i \in Ids |-> None] /\ starts' = <<>>
      /\ UNCHANGED <<rows, files, selected, off, used, begun>>
  BY DEF AppRestarts
<1>2. calls' \in [Slots -> Calls] /\ \A c \in Slots : Idle(c)' /\ calls'[c] = NoCall
  BY <1>1, NoCallType DEF Idle, NoCall
<1>3. \A c \in Slots : calls'[c].phase = "idle"
  BY <1>2 DEF NoCall
<1>4. service' \in Services \cup {None}
  <2>1. ASSUME NEW c \in Slots, In(c, "prepared") PROVE Ran(c) \in Services
    <3>1. ~Idle(c) /\ calls[c].content # None
      BY <2>1 DEF In, Idle, StoreInv, TypeOK, HasContent
    <3>2. calls[c].id \in Ids /\ calls[c].content \in Versions /\ calls[c].ruOff \in BOOLEAN
      BY <3>1, CallFacts DEF StoreInv, Calls
    <3> QED
      BY <3>2 DEF Ran, Services
  <2> QED
    BY <2>1 DEF AppRestarts, StoreInv, TypeOK
<1>5. TypeOK'
  BY <1>1, <1>2, <1>3, <1>4, EmptySeq DEF StoreInv, TypeOK, Creates, HasContent
<1>6. IdsAreUsed' /\ CreateIsAlone' /\ RowsAndFiles' /\ PreparedIsFirst'
  BY <1>1, <1>2, <1>3 DEF StoreInv, IdsAreUsed, CreateIsAlone, Creates, RowsAndFiles,
     PreparedIsFirst, In
<1>7. RowHasFile' /\ SelectionIsRow'
  BY <1>1 DEF StoreInv, RowHasFile, SelectionIsRow
<1> QED
  BY <1>5, <1>6, <1>7 DEF StoreInv

LEMMA InitStoreInv == Init => StoreInv
<1> SUFFICES ASSUME Init PROVE StoreInv
  OBVIOUS
<1>1. PICK known \in SUBSET Ids, v \in Usable :
        /\ rows \in [known -> Kinds]
        /\ files = [i \in Ids |-> IF i \in known THEN v ELSE None]
        /\ used = known
        /\ selected \in IF known = {} THEN {None} ELSE known
  BY DEF Init
<1>2. DOMAIN rows = known /\ v \in Versions /\ v # None
  BY <1>1, StoreAssumption
<1>3. calls \in [Slots -> Calls] /\ \A c \in Slots : calls[c].phase = "idle"
  BY NoCallType DEF Init, NoCall
<1>4. selected \in Ids \cup {None} /\ (selected # None => selected \in known)
  BY <1>1
<1>5. service \in Services \cup {None}
  <2>1. service = None \/ (selected # None /\ service = [id |-> selected, content |-> files[selected], ruOff |-> FALSE])
    BY DEF Init
  <2>2. ASSUME selected # None
        PROVE  [id |-> selected, content |-> files[selected], ruOff |-> FALSE] \in Services
    <3>1. selected \in Ids /\ files[selected] \in Versions
      BY <1>1, <1>2, <1>4, <2>2
    <3> QED
      BY <3>1 DEF Services
  <2> QED
    BY <2>1, <2>2
<1>6. TypeOK
  BY <1>1, <1>2, <1>3, <1>4, <1>5, EmptySeq DEF Init, TypeOK, Idle, Creates, HasContent
<1>7. SelectionIsRow /\ RowHasFile
  BY <1>1, <1>2 DEF SelectionIsRow, RowHasFile
<1>8. IdsAreUsed /\ CreateIsAlone /\ RowsAndFiles /\ PreparedIsFirst
  BY <1>1, <1>2, <1>3 DEF IdsAreUsed, CreateIsAlone, Creates, RowsAndFiles, PreparedIsFirst,
     In, Idle
<1> QED
  BY <1>6, <1>7, <1>8 DEF StoreInv

-----------------------------------------------------------------------------
(* The theorems. *)

LEMMA NextStoreInv == StoreInv /\ [Next]_vars => StoreInv'
<1> SUFFICES ASSUME StoreInv, [Next]_vars PROVE StoreInv'
  OBVIOUS
<1>1. ASSUME NEW c \in Slots, Asks(c) PROVE StoreInv'
  BY <1>1, AsksOnRowStep, ConnectStep, RegenerateStep, CreatesStep DEF Asks
<1>2. ASSUME NEW c \in Slots, Continues(c) PROVE StoreInv'
  <2>1. CASE \/ Turn(c) \/ Checked(c) \/ Compared(c) \/ FileWritten(c)
             \/ Stored(c) \/ Unlinked(c) \/ Fails(c)
    BY <2>1, TurnStep, CheckedStep, ComparedStep, FileWrittenStep, StoredStep, UnlinkedStep,
       FailsStep
  <2>2. ASSUME NEW version \in Versions, NEW ruOff \in Said, Fetched(c, version, ruOff)
        PROVE  StoreInv'
    BY <2>2, FetchedStep, StoreAssumption
  <2>3. CASE Reload(c) \/ ReloadAfter(c) \/ ContentRead(c) \/ StartQueued(c) \/ StartPrepared(c)
    BY <2>3, ReloadsStep, ContentReadStep, StartQueuedStep, StartPreparedStep
  <2>4. CASE \E ok \in BOOLEAN : StartEnds(c, ok)
    BY <2>4, StartEndsStep
  <2> QED
    BY <1>2, <2>1, <2>2, <2>3, <2>4 DEF Continues
<1>3. CASE ServiceStops
  BY <1>3 DEF ServiceStops, StoreInv, TypeOK, IdsAreUsed, CreateIsAlone, RowsAndFiles,
              PreparedIsFirst, RowHasFile, SelectionIsRow, Idle, In, Creates, HasContent
<1>4. CASE AppRestarts
  BY <1>4, RestartsStep
<1>5. CASE UNCHANGED vars
  BY <1>5 DEF vars, StoreInv, TypeOK, IdsAreUsed, CreateIsAlone, RowsAndFiles,
              PreparedIsFirst, RowHasFile, SelectionIsRow, Idle, In, Creates, HasContent
<1> QED
  BY <1>1, <1>2, <1>3, <1>4, <1>5 DEF Next

\* The invariant holds whatever operations are interleaved, fail or are cut off by
\* the end of the app.
THEOREM StoreInvariant == Spec => []StoreInv
<1>1. Init => StoreInv
  BY InitStoreInv
<1>2. StoreInv /\ [Next]_vars => StoreInv'
  BY NextStoreInv
<1> QED
  BY <1>1, <1>2, PTL DEF Spec

\* Every variable of the store holds what its declaration says, and every operation
\* under way what its next step uses: its id has been given out, and a config that
\* it is to write or to start with is there.
THEOREM StoreTypeCorrect == Spec => []TypeOK
<1>1. StoreInv => TypeOK
  BY DEF StoreInv
<1> QED
  BY <1>1, StoreInvariant, PTL

\* A row always has its file (writeConfig before insertProfile, the transaction of
\* remove before its unlink), between any two awaits of any number of operations,
\* and whenever the app ends.
THEOREM RowsHaveFiles == Spec => []RowHasFile
<1>1. StoreInv => RowHasFile
  BY DEF StoreInv
<1> QED
  BY <1>1, StoreInvariant, PTL

\* The selection is a row as long as there are rows, and null without any
\* (insertProfile, setSelected, the transaction of remove).
THEOREM SelectionIsARow == Spec => []SelectionIsRow
<1>1. StoreInv => SelectionIsRow
  BY DEF StoreInv
<1> QED
  BY <1>1, StoreInvariant, PTL

\* The store implements the book: though a change is spread over a file, a row and
\* the selection, with awaits between, nobody ever sees but the changes that
\* ProfileBook has, each in one step.
THEOREM StoreIsABook == Spec => IsABook
<1>1. Init => Book!Init
  <2> SUFFICES ASSUME Init PROVE Book!TypeOK
    BY DEF Book!Init
  <2>1. StoreInv
    BY InitStoreInv
  <2>2. PICK known \in SUBSET Ids : rows \in [known -> Kinds]
    BY <2>1 DEF StoreInv, TypeOK
  <2>3. BookOf \in [known -> Versions] /\ DOMAIN BookOf = DOMAIN rows
    BY <2>1, <2>2 DEF BookOf, StoreInv, TypeOK, RowHasFile
  <2>4. selected \in DOMAIN BookOf \/ (selected = None /\ DOMAIN BookOf = {})
    BY <2>1, <2>3 DEF StoreInv, SelectionIsRow
  <2> QED
    BY <2>3, <2>4 DEF Book!TypeOK, BookOf
<1>2. StoreInv /\ [Next]_vars => [Book!Next]_(Book!vars)
  BY NextBook
<1> QED
  BY <1>1, <1>2, StoreInvariant, PTL DEF Spec, IsABook, Book!Spec

-----------------------------------------------------------------------------
(* Operations on one profile wait for each other. *)

\* [c] is in the chain of its profile: it has its turn, or is behind another.
Joined(c) == calls[c].op \in Chained
Before(c) == IF calls[c].phase = "waiting" THEN calls[c].prev ELSE None
Fellows(c, d) == c # d /\ Joined(c) /\ Joined(d) /\ calls[c].id = calls[d].id

\* [rank] orders the chain of each profile: who has its turn is the first, the one
\* that chain knows the last, and who waits does so for the one just before it.
Ordered(rank) ==
    \A c, d \in Slots : Fellows(c, d) =>
        /\ rank[c] # rank[d]
        /\ Before(c) = None => rank[c] < rank[d]
        /\ chain[calls[d].id] = d => rank[c] < rank[d]
        /\ Before(d) # None =>
             /\ rank[Before(d)] < rank[d]
             /\ (rank[c] < rank[d] /\ c # Before(d)) => rank[c] < rank[Before(d)]

ChainInv ==
    /\ \A c \in Slots : Joined(c) =>
         /\ ~Idle(c) /\ calls[c].todo = {}
         /\ calls[c].id \in Ids /\ chain[calls[c].id] # None
    /\ \A i \in Ids : chain[i] # None => Joined(chain[i]) /\ calls[chain[i]].id = i
    /\ \A c \in Slots : Joined(c) /\ Before(c) # None => Fellows(Before(c), c)
    /\ \E rank \in [Slots -> Nat] : Ordered(rank)

\* The chain does not see a call move that keeps its place.
LEMMA PlacesKeepChain ==
    ASSUME TypeOK, ChainInv, UNCHANGED chain,
           \A s \in Slots :
               /\ calls'[s].op \in Chained <=> Joined(s)
               /\ Joined(s) => /\ calls'[s].phase # "idle" /\ calls'[s].todo = {}
                               /\ calls'[s].id = calls[s].id
                               /\ Before(s)' = Before(s)
    PROVE  ChainInv'
<1>0. \A s \in Slots : Before(s) \in Slots \cup {None}
  BY DEF TypeOK, Calls, Before
<1>1. \A s \in Slots : Joined(s)' => ~Idle(s)' /\ calls'[s].todo = {} /\ calls'[s].id \in Ids
                                      /\ chain'[calls'[s].id] # None
  BY DEF ChainInv, Joined, Idle
<1>2. \A i \in Ids : chain'[i] # None => (Joined(chain[i]) /\ calls[chain[i]].id = i)'
  <2>1. \A i \in Ids : chain[i] # None => chain[i] \in Slots
    BY DEF TypeOK
  <2> QED
    BY <2>1 DEF ChainInv, Joined
<1>3. \A s \in Slots : (Joined(s) /\ Before(s) # None => Fellows(Before(s), s))'
  BY <1>0 DEF ChainInv, Joined, Fellows
<1>4. PICK rank \in [Slots -> Nat] : Ordered(rank)
  BY DEF ChainInv
<1>5. Ordered(rank)'
  BY <1>4 DEF Ordered, Fellows, Joined
<1> QED
  BY <1>1, <1>2, <1>3, <1>4, <1>5 DEF ChainInv

\* Who has its turn ends: the one that waits for it has it now.
LEMMA LeavingKeepsChain ==
    ASSUME TypeOK, ChainInv, NEW c \in Slots, Joined(c) => Before(c) = None,
           calls'[c].op \notin Chained,
           \A s \in Slots \ {c} :
               /\ calls'[s].op \in Chained <=> Joined(s)
               /\ Joined(s) => /\ calls'[s].phase # "idle" /\ calls'[s].todo = {}
                               /\ calls'[s].id = calls[s].id
                               /\ Before(s)' = IF Before(s) = c THEN None ELSE Before(s),
           chain' = Forgotten(c)
    PROVE  ChainInv'
<1>0. /\ \A s \in Slots : Before(s) \in Slots \cup {None}
      /\ chain \in [Ids -> Slots \cup {None}] /\ None \notin Slots
  BY StoreAssumption DEF TypeOK, Calls, Before
<1>1. PICK rank \in [Slots -> Nat] : Ordered(rank)
  BY DEF ChainInv
<1>2. ASSUME NEW s \in Slots \ {c}, Joined(s), chain[calls[s].id] = c
      PROVE  FALSE
  <2>1. calls[s].id \in Ids /\ Joined(c) /\ calls[c].id = calls[s].id
    BY <1>0, <1>2 DEF ChainInv
  <2>2. Fellows(s, c) /\ Fellows(c, s)
    BY <1>2, <2>1 DEF Fellows
  <2>3. rank[s] < rank[c]
    BY <1>1, <1>2, <2>1, <2>2 DEF Ordered
  <2>4. rank[c] < rank[s]
    BY <1>1, <2>1, <2>2 DEF Ordered
  <2> QED
    BY <2>3, <2>4
<1>3. \A s \in Slots : Joined(s)' => ~Idle(s)' /\ calls'[s].todo = {} /\ calls'[s].id \in Ids
                                      /\ chain'[calls'[s].id] # None
  <2> SUFFICES ASSUME NEW s \in Slots, Joined(s)'
               PROVE  ~Idle(s)' /\ calls'[s].todo = {} /\ calls'[s].id \in Ids
                      /\ chain'[calls'[s].id] # None
    OBVIOUS
  <2>1. s # c /\ Joined(s) /\ calls'[s].id = calls[s].id
    BY DEF Joined
  <2>2. ~Idle(s)' /\ calls'[s].todo = {} /\ calls'[s].id \in Ids /\ chain[calls[s].id] # None
    BY <2>1 DEF ChainInv, Idle
  <2>3. chain[calls[s].id] # c
    BY <1>2, <2>1
  <2> QED
    BY <2>1, <2>2, <2>3 DEF Forgotten
<1>4. \A i \in Ids : chain'[i] # None => (Joined(chain[i]) /\ calls[chain[i]].id = i)'
  <2>1. \A i \in Ids : chain'[i] # None => chain'[i] = chain[i] /\ chain[i] \in Slots \ {c}
    BY <1>0 DEF Forgotten
  <2> QED
    BY <2>1 DEF ChainInv, Joined
<1>5. \A s \in Slots : (Joined(s) /\ Before(s) # None => Fellows(Before(s), s))'
  <2> SUFFICES ASSUME NEW s \in Slots, Joined(s)', Before(s)' # None
               PROVE  Fellows(Before(s), s)'
    OBVIOUS
  <2>1. s # c /\ Joined(s) /\ Before(s)' = Before(s) /\ Before(s) \in Slots \ {c}
    BY <1>0 DEF Joined
  <2> QED
    BY <2>1 DEF ChainInv, Joined, Fellows
<1>6. Ordered(rank)'
  <2> SUFFICES ASSUME NEW x \in Slots, NEW y \in Slots, Fellows(x, y)'
               PROVE  (/\ rank[x] # rank[y]
                       /\ Before(x) = None => rank[x] < rank[y]
                       /\ chain[calls[y].id] = y => rank[x] < rank[y]
                       /\ Before(y) # None =>
                            /\ rank[Before(y)] < rank[y]
                            /\ (rank[x] < rank[y] /\ x # Before(y)) => rank[x] < rank[Before(y)])'
    BY DEF Ordered
  <2>1. x # c /\ y # c /\ Fellows(x, y) /\ calls'[y].id = calls[y].id /\ calls[y].id \in Ids
    BY DEF Fellows, Joined, ChainInv
  <2>2. /\ Before(x)' = IF Before(x) = c THEN None ELSE Before(x)
        /\ Before(y)' = IF Before(y) = c THEN None ELSE Before(y)
    BY <2>1 DEF Fellows
  <2>3. rank[x] # rank[y] /\ rank[x] \in Nat /\ rank[y] \in Nat /\ rank[c] \in Nat
    BY <1>1, <2>1 DEF Ordered
  <2>4. ASSUME Before(x)' = None PROVE rank[x] < rank[y]
    <3>1. CASE Before(x) = None
      BY <1>1, <2>1, <3>1 DEF Ordered
    <3>2. CASE Before(x) = c
      <4>1. Fellows(c, x) /\ Fellows(c, y) /\ Fellows(y, x)
        BY <1>0, <2>1, <3>2 DEF ChainInv, Fellows
      <4>2. rank[c] < rank[y]
        BY <1>1, <4>1 DEF Ordered, Fellows
      <4>3. rank[y] < rank[x] => rank[y] < rank[c]
        BY <1>0, <1>1, <2>1, <3>2, <4>1 DEF Ordered
      <4> QED
        BY <2>3, <4>2, <4>3
    <3> QED
      BY <2>2, <2>4, <3>1, <3>2
  <2>5. ASSUME chain'[calls'[y].id] = y PROVE rank[x] < rank[y]
    <3>1. chain[calls[y].id] = y
      BY <1>0, <2>1, <2>5 DEF Forgotten
    <3> QED
      BY <1>1, <2>1, <3>1 DEF Ordered
  <2>6. ASSUME Before(y)' # None
        PROVE  /\ rank[Before(y)'] < rank[y]
               /\ (rank[x] < rank[y] /\ x # Before(y)') => rank[x] < rank[Before(y)']
    BY <1>1, <2>1, <2>2, <2>6 DEF Ordered
  <2> QED
    BY <2>3, <2>4, <2>5, <2>6
<1> QED
  BY <1>1, <1>3, <1>4, <1>5, <1>6 DEF ChainInv

LEMMA OverKeepsChain ==
    ASSUME TypeOK, ChainInv, NEW cs \in [Slots -> Calls], NEW c \in Slots,
           \A s \in Slots : Same(cs[s], calls[s])
                            /\ (calls[s].phase = "waiting" => cs[s].prev = calls[s].prev),
           Joined(c) => Before(c) = None,
           Over(cs, c)
    PROVE  ChainInv'
<1>0. calls \in [Slots -> Calls] /\ chain \in [Ids -> Slots \cup {None}]
  BY DEF TypeOK
<1>1. CASE cs[c].todo # {}
  <2>1. PICK next \in cs[c].todo :
          calls' = [cs EXCEPT ![c] = [Call("regenerate", next) EXCEPT
                                        !.phase = "fetching", !.todo = cs[c].todo \ {next}]]
    BY <1>1 DEF Over
  <2>2. ~Joined(c)
    BY <1>1 DEF ChainInv, Same
  <2>3. Moves(c) /\ Ended(c) /\ UNCHANGED chain
    BY <1>0, <1>1, OverMoves DEF Over
  <2>4. calls'[c].op \notin Chained
    BY <2>3, NothingAssumption DEF Ended, NoCall, Chained, Ops
  <2>5. ASSUME NEW s \in Slots \ {c}
        PROVE  calls'[s] = cs[s]
    BY <2>1
  <2>6. ASSUME NEW s \in Slots \ {c}
        PROVE  /\ calls'[s].op = calls[s].op /\ calls'[s].phase = calls[s].phase
               /\ calls'[s].todo = calls[s].todo /\ calls'[s].id = calls[s].id
               /\ Before(s)' = Before(s)
    BY <2>5 DEF Same, Before
  <2> QED
    BY <2>2, <2>3, <2>4, <2>6, PlacesKeepChain DEF ChainInv, Joined, Idle
<1>2. CASE cs[c].todo = {}
  <2>1. /\ calls' = [s \in Slots |-> IF s = c THEN NoCall
                                     ELSE [cs[s] EXCEPT !.prev = IF @ = c THEN None ELSE @]]
        /\ chain' = Forgotten(c)
    BY <1>2 DEF Over
  <2>2. calls'[c].op \notin Chained
    BY <2>1, NothingAssumption DEF NoCall, Chained, Ops
  <2>3. ASSUME NEW s \in Slots \ {c}
        PROVE  /\ calls'[s].op = calls[s].op /\ calls'[s].phase = calls[s].phase
               /\ calls'[s].todo = calls[s].todo /\ calls'[s].id = calls[s].id
               /\ Before(s)' = IF Before(s) = c THEN None ELSE Before(s)
    <3> DEFINE prev == IF cs[s].prev = c THEN None ELSE cs[s].prev
    <3>1. calls'[s] = [cs[s] EXCEPT !.prev = prev]
      BY <2>1
    <3> HIDE DEF prev
    <3>2. /\ calls'[s].op = calls[s].op /\ calls'[s].phase = calls[s].phase
          /\ calls'[s].todo = calls[s].todo /\ calls'[s].id = calls[s].id
          /\ calls'[s].prev = prev
      BY <3>1 DEF Same, Calls
    <3>3. None # c
      BY StoreAssumption
    <3> QED
      BY <3>2, <3>3 DEF prev, Before
  <2>4. \A s \in Slots : Joined(s) => calls[s].phase # "idle" /\ calls[s].todo = {}
    BY DEF ChainInv, Idle
  <2>5. \A s \in Slots \ {c} :
           /\ calls'[s].op \in Chained <=> Joined(s)
           /\ Joined(s) => /\ calls'[s].phase # "idle" /\ calls'[s].todo = {}
                           /\ calls'[s].id = calls[s].id
                           /\ Before(s)' = IF Before(s) = c THEN None ELSE Before(s)
    BY <2>3, <2>4 DEF Joined
  <2> QED
    BY <2>1, <2>2, <2>5, LeavingKeepsChain
<1> QED
  BY <1>1, <1>2

\* A call joins as the last in the chain of its profile.
LEMMA BeginKeepsChain ==
    ASSUME TypeOK, ChainInv, NEW c \in Slots, NEW call \in Calls, call.op \in Ops, call.id \in Ids,
           call.op \in Chained => call.todo = {},
           Begin(c, call)
    PROVE  ChainInv'
<1>0. /\ calls \in [Slots -> Calls] /\ chain \in [Ids -> Slots \cup {None}] /\ None \notin Slots
      /\ \A s \in Slots : Before(s) \in Slots \cup {None}
  BY StoreAssumption DEF TypeOK, Calls, Before
<1>1. Idle(c) /\ ~Joined(c)
  BY DEF Begin, ChainInv
<1>2. CASE call.op \notin Chained
  <2>1. calls' = [calls EXCEPT ![c] = call] /\ UNCHANGED chain
    BY <1>2 DEF Begin
  <2>2. /\ calls'[c].op \notin Chained
        /\ \A s \in Slots \ {c} : calls'[s] = calls[s] /\ Before(s)' = Before(s)
    BY <1>0, <1>2, <2>1 DEF Before
  <2> QED
    BY <1>1, <2>1, <2>2, PlacesKeepChain DEF ChainInv, Joined, Idle
<1>3. CASE call.op \in Chained
  <2> DEFINE next == [call EXCEPT !.phase = "waiting", !.prev = chain[call.id]]
             k    == call.id
             p    == chain[call.id]
  <2>1. calls' = [calls EXCEPT ![c] = next] /\ chain' = [chain EXCEPT ![k] = c]
    BY <1>3 DEF Begin
  <2>2. next.op \in Chained /\ next.id = k /\ next.todo = {} /\ next.phase = "waiting" /\ next.prev = p
    BY <1>3 DEF Calls
  <2> HIDE DEF next
  <2>3. /\ Joined(c)' /\ ~Idle(c)' /\ calls'[c].todo = {} /\ calls'[c].id = k /\ Before(c)' = p
        /\ \A s \in Slots \ {c} : /\ calls'[s] = calls[s] /\ Before(s)' = Before(s)
                                  /\ (Joined(s)' <=> Joined(s)) /\ (Idle(s)' <=> Idle(s))
    <3>1. calls'[c] = next /\ \A s \in Slots \ {c} : calls'[s] = calls[s]
      BY <1>0, <2>1
    <3> HIDE DEF k, p
    <3>2. Joined(c)' /\ ~Idle(c)' /\ calls'[c].todo = {} /\ calls'[c].id = k /\ Before(c)' = p
      BY <2>2, <3>1 DEF Joined, Idle, Before
    <3> QED
      BY <3>1, <3>2 DEF Joined, Idle, Before
  <2>4. /\ k \in Ids /\ p \in Slots \cup {None} /\ p # c
        /\ p # None => Joined(p) /\ calls[p].id = k
    BY <1>0, <1>1 DEF ChainInv
  <2> HIDE DEF k, p
  <2>5. p = chain[k] /\ \A i \in Ids : chain'[i] = IF i = k THEN c ELSE chain[i]
    BY <1>0, <2>1 DEF k, p
  <2>6. \A s \in Slots : Joined(s)' => ~Idle(s)' /\ calls'[s].todo = {} /\ calls'[s].id \in Ids
                                        /\ chain'[calls'[s].id] # None
    BY <1>0, <2>3, <2>4, <2>5 DEF ChainInv, Joined, Idle
  <2>7. \A i \in Ids : chain'[i] # None => (Joined(chain[i]) /\ calls[chain[i]].id = i)'
    <3>1. \A i \in Ids : chain[i] # None => chain[i] \in Slots \ {c} /\ Joined(chain[i])
      BY <1>0, <1>1 DEF ChainInv
    <3> QED
      BY <2>3, <2>5, <3>1 DEF ChainInv, Joined
  <2>8. \A s \in Slots : Joined(s) /\ Before(s) # None => Before(s) \in Slots \ {c} /\ s # c
                                                           /\ Fellows(Before(s), s)
    BY <1>0, <1>1 DEF ChainInv, Fellows
  <2>9. \A s \in Slots : (Joined(s) /\ Before(s) # None => Fellows(Before(s), s))'
    <3> SUFFICES ASSUME NEW s \in Slots, Joined(s)', Before(s)' # None
                 PROVE  Fellows(Before(s), s)'
      OBVIOUS
    <3>1. CASE s = c
      BY <2>3, <2>4, <3>1 DEF Joined, Fellows
    <3>2. CASE s # c
      BY <2>3, <2>8, <3>2 DEF Joined, Fellows
    <3> QED
      BY <3>1, <3>2
  <2>10. PICK rank \in [Slots -> Nat] : Ordered(rank)
    BY DEF ChainInv
  <2>11. PICK new \in [Slots -> Nat] : /\ \A s \in Slots \ {c} : new[s] = rank[s]
                                       /\ p # None => new[c] = rank[p] + 1
    <3> DEFINE first == IF p = None THEN 0 ELSE rank[p] + 1
    <3>1. first \in Nat /\ (p # None => first = rank[p] + 1)
      BY <2>4, <2>10
    <3> HIDE DEF first
    <3>2. [rank EXCEPT ![c] = first] \in [Slots -> Nat]
      BY <2>10, <3>1
    <3> QED
      BY <2>10, <3>1, <3>2
  <2>12. \A s \in Slots \ {c} : Joined(s) /\ calls[s].id = k => p # None /\ (s = p \/ rank[s] < rank[p])
    <3> SUFFICES ASSUME NEW s \in Slots \ {c}, Joined(s), calls[s].id = k
                 PROVE  p # None /\ (s = p \/ rank[s] < rank[p])
      OBVIOUS
    <3>1. p # None
      BY <2>5 DEF ChainInv
    <3>2. s # p => Fellows(s, p) /\ p \in Slots /\ chain[calls[p].id] = p
      BY <2>4, <2>5, <3>1 DEF Fellows
    <3>3. s # p => rank[s] < rank[p]
      BY <2>10, <3>2 DEF Ordered
    <3> QED
      BY <3>1, <3>3
  <2>13. Ordered(new)'
    <3> SUFFICES ASSUME NEW x \in Slots, NEW y \in Slots, Fellows(x, y)'
                 PROVE  (/\ new[x] # new[y]
                         /\ Before(x) = None => new[x] < new[y]
                         /\ chain[calls[y].id] = y => new[x] < new[y]
                         /\ Before(y) # None =>
                              /\ new[Before(y)] < new[y]
                              /\ (new[x] < new[y] /\ x # Before(y)) => new[x] < new[Before(y)])'
      BY DEF Ordered
    <3>1. CASE x # c /\ y # c
      <4>1. Fellows(x, y) /\ calls'[y].id = calls[y].id /\ calls[y].id \in Ids
        BY <2>3, <3>1 DEF Fellows, Joined, ChainInv
      <4>2. chain'[calls'[y].id] = y => chain[calls[y].id] = y
        BY <2>5, <3>1, <4>1
      <4>3. Before(y)' # None => new[Before(y)'] = rank[Before(y)] /\ Before(y)' = Before(y)
        BY <2>3, <2>8, <2>11, <3>1, <4>1 DEF Fellows, Before
      <4>4. Before(x)' = Before(x) /\ Before(y)' = Before(y) /\ new[x] = rank[x] /\ new[y] = rank[y]
        BY <2>3, <2>11, <3>1 DEF Before
      <4> QED
        BY <2>10, <4>1, <4>2, <4>3, <4>4 DEF Ordered, Before
    <3>2. CASE x # c /\ y = c
      <4>1. Joined(x) /\ calls[x].id = k
        BY <2>3, <3>2 DEF Fellows, Joined
      <4>2. p # None /\ (x = p \/ rank[x] < rank[p]) /\ p \in Slots \ {c}
        BY <2>4, <2>12, <3>2, <4>1
      <4>3. new[x] = rank[x] /\ new[p] = rank[p] /\ new[y] = rank[p] + 1 /\ Before(y)' = p
            /\ rank[x] \in Nat /\ rank[p] \in Nat
        BY <2>3, <2>10, <2>11, <3>2, <4>2 DEF Before
      <4> QED
        BY <4>2, <4>3
    <3>3. CASE x = c /\ y # c
      <4>1. Joined(y) /\ calls[y].id = k /\ calls'[y].id = k
        BY <2>3, <3>3 DEF Fellows, Joined
      <4>2. p # None /\ (y = p \/ rank[y] < rank[p]) /\ p \in Slots \ {c}
        BY <2>4, <2>12, <3>3, <4>1
      <4>3. new[y] = rank[y] /\ new[x] = rank[p] + 1 /\ Before(x)' = p /\ Before(y)' = Before(y)
            /\ rank[y] \in Nat /\ rank[p] \in Nat
        BY <2>3, <2>10, <2>11, <3>3, <4>2 DEF Before
      <4>4. chain'[calls'[y].id] # y
        BY <2>4, <2>5, <3>3, <4>1
      <4>5. Before(y)' # None => new[Before(y)'] < new[y]
        <5> SUFFICES ASSUME Before(y) # None PROVE new[Before(y)] < new[y]
          BY <4>3 DEF Before
        <5>1. Fellows(Before(y), y) /\ Before(y) \in Slots \ {c}
          BY <2>8, <4>1
        <5>2. rank[Before(y)] < rank[y]
          BY <2>10, <5>1 DEF Ordered
        <5> QED
          BY <2>11, <4>3, <5>1, <5>2
      <4> QED
        BY <4>2, <4>3, <4>4, <4>5
    <3> QED
      BY <3>1, <3>2, <3>3 DEF Fellows
  <2> QED
    BY <2>6, <2>7, <2>9, <2>11, <2>13 DEF ChainInv
<1> QED
  BY <1>2, <1>3

\* Who has its turn goes on with what it does.
LEMMA MoveKeepsChain ==
    ASSUME TypeOK, ChainInv, NEW c \in Slots, Before(c) = None, UNCHANGED chain,
           \A s \in Slots \ {c} : calls'[s] = calls[s],
           calls'[c].op = calls[c].op, calls'[c].id = calls[c].id,
           calls'[c].todo = calls[c].todo,
           calls'[c].phase \notin {"idle", "waiting"}
    PROVE  ChainInv'
<1>1. ASSUME NEW s \in Slots, Joined(s)
      PROVE  calls'[s].phase # "idle" /\ calls'[s].todo = {} /\ calls'[s].id = calls[s].id
  BY <1>1 DEF ChainInv, Idle
<1>2. ASSUME NEW s \in Slots PROVE Before(s)' = Before(s)
  <2>1. CASE s = c
    BY <2>1 DEF Before
  <2>2. CASE s # c
    BY <2>2 DEF Before
  <2> QED
    BY <2>1, <2>2
<1>3. \A s \in Slots : calls'[s].op \in Chained <=> Joined(s)
  BY DEF Joined
<1> QED
  BY <1>1, <1>2, <1>3, PlacesKeepChain

\* A call that goes on leaves the others and its place as they are, or it is over.
LEMMA ContinuesKeepsChain ==
    ASSUME StoreInv, ChainInv, NEW c \in Slots, Continues(c) PROVE ChainInv'
<1>0. /\ TypeOK /\ calls \in [Slots -> Calls] /\ None \notin Slots
      /\ \A s \in Slots : Same(calls[s], calls[s])
  BY StoreAssumption DEF StoreInv, TypeOK, Same
<1>1. Before(c) = None /\ ~Idle(c)
  BY DEF Continues, Turn, Checked, Compared, FileWritten, Stored, Unlinked, Fetched, Fails,
     Reload, ReloadAfter, ContentRead, StartQueued, StartPrepared, StartEnds, Before, In,
     Idle
<1>2. calls[c].id \in Ids
  BY <1>0, <1>1, CallFacts
<1>3. ASSUME Over(calls, c) PROVE ChainInv'
  BY <1>0, <1>1, <1>3, OverKeepsChain
<1>4. ASSUME NEW r, calls' = [calls EXCEPT ![c] = r], UNCHANGED chain,
             r.op = calls[c].op, r.id = calls[c].id, r.todo = calls[c].todo,
             r.phase \notin {"idle", "waiting"}
      PROVE  ChainInv'
  <2>1. calls'[c] = r /\ \A s \in Slots \ {c} : calls'[s] = calls[s]
    BY <1>0, <1>4
  <2> QED
    BY <1>0, <1>1, <1>4, <2>1, MoveKeepsChain
<1>5. ASSUME NEW phase \in Phases \ {"idle", "waiting"}, Goes(c, phase) PROVE ChainInv'
  <2> DEFINE r == [calls[c] EXCEPT !.phase = phase]
  <2>1. /\ calls' = [calls EXCEPT ![c] = r] /\ UNCHANGED chain
        /\ r.op = calls[c].op /\ r.id = calls[c].id /\ r.todo = calls[c].todo /\ r.phase = phase
    BY <1>0, <1>5 DEF Goes, Calls
  <2> HIDE DEF r
  <2> QED
    BY <1>4, <2>1
<1>6. ASSUME GoesToReload(c) PROVE ChainInv'
  <2>1. /\ Moves(c) /\ UNCHANGED chain
        /\ calls'[c].op = calls[c].op /\ calls'[c].phase = "reloading"
        /\ calls'[c].id = calls[c].id /\ calls'[c].todo = calls[c].todo
    BY <1>0, <1>2, <1>6, GoesToReloadMoves
  <2>2. \A s \in Slots \ {c} : calls'[s] = calls[s]
    BY <1>0, <1>6 DEF GoesToReload
  <2> QED
    BY <1>0, <1>1, <2>1, <2>2, MoveKeepsChain
<1>7. {"fetching", "checking", "comparing", "writing", "storing", "unlinking", "reading", "queued"}
        \subseteq Phases \ {"idle", "waiting"}
  BY DEF Phases
<1>8. CASE Turn(c)
  BY <1>3, <1>5, <1>7, <1>8 DEF Turn
<1>9. CASE Checked(c)
  BY <1>5, <1>7, <1>9 DEF Checked
<1>10. CASE Compared(c)
  BY <1>3, <1>5, <1>6, <1>7, <1>10 DEF Compared
<1>11. CASE FileWritten(c)
  BY <1>3, <1>5, <1>6, <1>7, <1>11 DEF FileWritten
<1>12. CASE Stored(c)
  BY <1>3, <1>6, <1>12 DEF Stored
<1>13. CASE Unlinked(c) \/ Fails(c)
  BY <1>3, <1>13 DEF Unlinked, Fails
<1>14. ASSUME NEW version \in Versions, NEW ruOff \in Said, Fetched(c, version, ruOff)
       PROVE  ChainInv'
  <2> DEFINE changed == off[calls[c].id] # ruOff
             phase   == IF calls[c].op = "regenerate" THEN "writing" ELSE "checking"
             r == [calls[c] EXCEPT !.content = version, !.changed = changed, !.phase = phase]
  <2>1. calls' = [calls EXCEPT ![c] = r] /\ UNCHANGED chain
    BY <1>0, <1>14 DEF Fetched
  <2>2. phase \notin {"idle", "waiting"}
    OBVIOUS
  <2> HIDE DEF changed, phase
  <2>3. r.op = calls[c].op /\ r.id = calls[c].id /\ r.todo = calls[c].todo /\ r.phase = phase
    BY <1>0 DEF Calls
  <2> HIDE DEF r
  <2> QED
    BY <1>4, <2>1, <2>2, <2>3
<1>15. CASE Reload(c)
  <2>1. CASE Over(calls, c) \/ Goes(c, "reading")
    BY <1>3, <1>5, <1>7, <2>1
  <2>2. CASE /\ calls' = [calls EXCEPT ![c].phase = "behind", ![c].prev = starts[Len(starts)]]
             /\ UNCHANGED chain
    <3> DEFINE last == starts[Len(starts)]
               r == [calls[c] EXCEPT !.phase = "behind", !.prev = last]
    <3>1. calls' = [calls EXCEPT ![c] = r]
      BY <1>0, <2>2
    <3> HIDE DEF last
    <3>2. r.op = calls[c].op /\ r.id = calls[c].id /\ r.todo = calls[c].todo /\ r.phase = "behind"
      BY <1>0 DEF Calls
    <3> HIDE DEF r
    <3> QED
      BY <1>4, <2>2, <3>1, <3>2
  <2> QED
    BY <1>15, <2>1, <2>2 DEF Reload
<1>16. CASE ReloadAfter(c)
  BY <1>3, <1>5, <1>7, <1>16 DEF ReloadAfter
<1>17. CASE ContentRead(c)
  <2> DEFINE content == files[calls[c].id]
             r == [calls[c] EXCEPT !.phase = "read", !.content = content]
  <2>1. calls' = [calls EXCEPT ![c] = r] /\ UNCHANGED chain
    BY <1>0, <1>17 DEF ContentRead
  <2> HIDE DEF content
  <2>2. r.op = calls[c].op /\ r.id = calls[c].id /\ r.todo = calls[c].todo /\ r.phase = "read"
    BY <1>0 DEF Calls
  <2> HIDE DEF r
  <2> QED
    BY <1>4, <2>1, <2>2
<1>18. CASE StartQueued(c)
  BY <1>5, <1>7, <1>18 DEF StartQueued
<1>19. CASE StartPrepared(c)
  <2> DEFINE ruOff == off[calls[c].id]
             r == [calls[c] EXCEPT !.phase = "prepared", !.ruOff = ruOff]
  <2>1. calls' = [calls EXCEPT ![c] = r] /\ UNCHANGED chain
    BY <1>0, <1>19 DEF StartPrepared
  <2> HIDE DEF ruOff
  <2>2. r.op = calls[c].op /\ r.id = calls[c].id /\ r.todo = calls[c].todo /\ r.phase = "prepared"
    BY <1>0 DEF Calls
  <2> HIDE DEF r
  <2> QED
    BY <1>4, <2>1, <2>2
<1>20. ASSUME NEW ok \in BOOLEAN, StartEnds(c, ok) PROVE ChainInv'
  <2> DEFINE freed == [s \in Slots |-> IF In(s, "behind") /\ calls[s].prev = c
                                       THEN [calls[s] EXCEPT !.prev = None] ELSE calls[s]]
  <2>1. ASSUME NEW s \in Slots
        PROVE  /\ freed[s] \in Calls /\ Same(freed[s], calls[s])
               /\ calls[s].phase = "waiting" => freed[s].prev = calls[s].prev
    <3>1. /\ [calls[s] EXCEPT !.prev = None] \in Calls
          /\ Same([calls[s] EXCEPT !.prev = None], calls[s])
      BY <1>0 DEF Calls, Same
    <3> QED
      BY <1>0, <3>1 DEF In
  <2>2. freed \in [Slots -> Calls]
    BY <2>1
  <2>3. Over(freed, c)
    BY <1>20 DEF StartEnds
  <2> HIDE DEF freed
  <2> QED
    BY <1>0, <1>1, <2>1, <2>2, <2>3, OverKeepsChain
<1> QED
  BY <1>8, <1>9, <1>10, <1>11, <1>12, <1>13, <1>14, <1>15, <1>16, <1>17, <1>18, <1>19, <1>20
     DEF Continues

\* Nobody is in a chain.
Nobody == chain = [i \in Ids |-> None] /\ \A c \in Slots : ~Joined(c)

LEMMA NobodyChain == Nobody => ChainInv
<1> SUFFICES ASSUME Nobody PROVE ChainInv
  OBVIOUS
<1>1. [c \in Slots |-> 0] \in [Slots -> Nat]
  OBVIOUS
<1>2. \A rank : Ordered(rank)
  BY DEF Nobody, Ordered, Fellows
<1>3. \E rank \in [Slots -> Nat] : Ordered(rank)
  BY <1>1, <1>2
<1> QED
  BY <1>3 DEF Nobody, ChainInv

\* Whatever is asked for begins a call; one that joins a chain is about one profile.
LEMMA AsksKeepsChain ==
    ASSUME StoreInv, ChainInv, NEW c \in Slots, Asks(c) PROVE ChainInv'
<1>0. TypeOK /\ DOMAIN rows \subseteq Ids
  BY DEF StoreInv, TypeOK
<1>1. ASSUME NEW call \in Calls, call.op \in Ops, call.id \in Ids,
             call.op \in Chained => call.todo = {}, Begin(c, call)
      PROVE  ChainInv'
  BY <1>0, <1>1, BeginKeepsChain
<1>2. ASSUME NEW op \in Ops, NEW id \in Ids
      PROVE  /\ Call(op, id) \in Calls /\ Call(op, id).op = op /\ Call(op, id).id = id
             /\ Call(op, id).todo = {}
  BY CallType
<1>3. {"create", "select", "connect", "regenerate", "update", "metadata", "remove", "write"} = Ops
  BY DEF Ops, Chained
<1>4. ASSUME NEW id \in DOMAIN rows, Update(c, id) \/ UpdateMetadata(c, id) \/ Remove(c, id)
      PROVE  ChainInv'
  <2>1. PICK op \in {"update", "metadata", "remove"} : Begin(c, Call(op, id))
    BY <1>4 DEF Update, UpdateMetadata, Remove
  <2>2. op \in Ops /\ id \in Ids
    BY <1>0, <1>3
  <2> QED
    BY <1>1, <1>2, <2>1, <2>2
<1>5. ASSUME NEW id \in DOMAIN rows, NEW version \in Versions, WriteContent(c, id, version)
      PROVE  ChainInv'
  <2> DEFINE call == [Call("write", id) EXCEPT !.content = version]
  <2>1. Call("write", id) \in Calls /\ Call("write", id).op = "write"
        /\ Call("write", id).id = id /\ Call("write", id).todo = {}
    BY <1>0, <1>2, <1>3
  <2>2. call \in Calls /\ call.op = "write" /\ call.id = id /\ call.todo = {}
    BY <2>1 DEF Calls
  <2>3. Begin(c, call)
    BY <1>5 DEF WriteContent
  <2> HIDE DEF call
  <2> QED
    BY <1>0, <1>1, <1>3, <2>2, <2>3
<1>6. {"create", "select", "connect", "regenerate"} \subseteq Ops \ Chained
  BY DEF Ops, Chained
<1>7. ASSUME NEW id \in Ids, CreateRemote(c, id) PROVE ChainInv'
  <2> DEFINE call == [Call("create", id) EXCEPT !.phase = "fetching", !.kind = "remote"]
  <2>1. Call("create", id) \in Calls /\ Call("create", id).op = "create" /\ Call("create", id).id = id
    BY <1>2, <1>6
  <2>2. call \in Calls /\ call.op = "create" /\ call.id = id
    BY <2>1 DEF Calls, Phases, Kinds
  <2>3. Begin(c, call)
    BY <1>7 DEF CreateRemote
  <2> HIDE DEF call
  <2> QED
    BY <1>1, <1>6, <2>2, <2>3
<1>8. ASSUME NEW id \in Ids, NEW version \in Versions, CreateLocal(c, id, version) PROVE ChainInv'
  <2> DEFINE call == [Call("create", id) EXCEPT
                        !.phase = "checking", !.kind = "local", !.content = version]
  <2>1. Call("create", id) \in Calls /\ Call("create", id).op = "create" /\ Call("create", id).id = id
    BY <1>2, <1>6
  <2>2. call \in Calls /\ call.op = "create" /\ call.id = id
    BY <2>1 DEF Calls, Phases, Kinds
  <2>3. Begin(c, call)
    BY <1>8 DEF CreateLocal
  <2> HIDE DEF call
  <2> QED
    BY <1>1, <1>6, <2>2, <2>3
<1>9. ASSUME NEW id \in DOMAIN rows, Select(c, id) PROVE ChainInv'
  <2> DEFINE call == [Call("select", id) EXCEPT !.phase = "reloading"]
  <2>1. Call("select", id) \in Calls /\ Call("select", id).op = "select" /\ Call("select", id).id = id
    BY <1>0, <1>2, <1>6
  <2>2. call \in Calls /\ call.op = "select" /\ call.id = id
    BY <2>1 DEF Calls, Phases
  <2>3. Begin(c, call)
    BY <1>9 DEF Select
  <2> HIDE DEF call
  <2> QED
    BY <1>0, <1>1, <1>6, <2>2, <2>3
<1>10. CASE Connect(c)
  <2> DEFINE call == [Call("connect", selected) EXCEPT !.phase = "reading"]
  <2>1. selected \in Ids
    BY <1>10 DEF Connect, StoreInv, TypeOK
  <2>2. /\ Call("connect", selected) \in Calls /\ Call("connect", selected).op = "connect"
        /\ Call("connect", selected).id = selected
    BY <1>2, <1>6, <2>1
  <2>3. call \in Calls /\ call.op = "connect" /\ call.id = selected
    BY <2>2 DEF Calls, Phases
  <2>4. Begin(c, call)
    BY <1>10 DEF Connect
  <2> HIDE DEF call
  <2> QED
    BY <1>1, <1>6, <2>1, <2>3, <2>4
<1>11. CASE Regenerate(c)
  <2>1. PICK first \in Remotes :
          Begin(c, [Call("regenerate", first) EXCEPT
                      !.phase = "fetching", !.todo = Remotes \ {first}])
    BY <1>11 DEF Regenerate
  <2> DEFINE todo == Remotes \ {first}
             call == [Call("regenerate", first) EXCEPT !.phase = "fetching", !.todo = todo]
  <2>2. Begin(c, call)
    BY <2>1
  <2>3. first \in Ids /\ todo \subseteq Ids
    BY <1>0 DEF Remotes
  <2> HIDE DEF todo, call
  <2>4. /\ Call("regenerate", first) \in Calls /\ Call("regenerate", first).op = "regenerate"
        /\ Call("regenerate", first).id = first
    BY <1>2, <1>6, <2>3
  <2>5. call \in Calls /\ call.op = "regenerate" /\ call.id = first
    BY <2>3, <2>4 DEF call, Calls, Phases
  <2> QED
    BY <1>1, <1>6, <2>2, <2>3, <2>5
<1> QED
  BY <1>4, <1>5, <1>7, <1>8, <1>9, <1>10, <1>11 DEF Asks

LEMMA NextChainInv == StoreInv /\ ChainInv /\ [Next]_vars => ChainInv'
<1> SUFFICES ASSUME StoreInv, ChainInv, [Next]_vars PROVE ChainInv'
  OBVIOUS
<1>1. ASSUME NEW c \in Slots, Asks(c) \/ Continues(c) PROVE ChainInv'
  BY <1>1, AsksKeepsChain, ContinuesKeepsChain
<1>2. CASE UNCHANGED <<calls, chain>>
  BY <1>2, PlacesKeepChain DEF StoreInv, ChainInv, Joined, Before, Idle
<1>3. CASE AppRestarts
  <2>1. Nobody'
    BY <1>3, NothingAssumption DEF AppRestarts, Nobody, Joined, NoCall, Chained, Ops
  <2>2. Nobody' => ChainInv'
    BY NobodyChain, PTL
  <2> QED
    BY <2>1, <2>2
<1> QED
  BY <1>1, <1>2, <1>3 DEF Next, ServiceStops, vars

\* Operations on one profile never overlap (runProfileOperation): whatever joins and
\* whatever ends or fails in whatever order, the chain of a profile stays one line in
\* which only the first has its turn.
THEOREM ProfileOperationsTakeTurns == Spec => []OneAtATime
<1>1. Init => ChainInv
  <2> SUFFICES ASSUME Init PROVE ChainInv
    OBVIOUS
  <2>1. Nobody
    BY NothingAssumption DEF Init, Nobody, Joined, NoCall, Chained, Ops
  <2> QED
    BY <2>1, NobodyChain
<1>2. StoreInv /\ ChainInv /\ [Next]_vars => ChainInv'
  BY NextChainInv
<1>3. ChainInv => OneAtATime
  <2> SUFFICES ASSUME ChainInv, NEW c \in Slots, NEW d \in Slots, c # d, Active(c), Active(d),
                      calls[c].id = calls[d].id
               PROVE  FALSE
    BY DEF OneAtATime
  <2>1. PICK rank \in [Slots -> Nat] : Ordered(rank)
    BY DEF ChainInv
  <2>2. Fellows(c, d) /\ Fellows(d, c) /\ Before(c) = None /\ Before(d) = None
    BY DEF Active, Fellows, Joined, Before
  <2>3. rank[c] < rank[d] /\ rank[d] < rank[c]
    BY <2>1, <2>2 DEF Ordered
  <2> QED
    BY <2>3
<1> QED
  BY <1>1, <1>2, <1>3, StoreInvariant, PTL DEF Spec

-----------------------------------------------------------------------------
(* The timer of the automatic updates. *)

\* The least of a set of naturals is there: this is the one place that needs more
\* than arithmetic.
LEMMA LeastOfNaturals ==
    ASSUME NEW S \in SUBSET Nat, S # {}
    PROVE  Min(S) \in S /\ \A y \in S : Min(S) <= y
<1> DEFINE Less == {ss \in Nat \X Nat : ss[1] < ss[2]}
<1>1. IsWellFoundedOn(Less, Nat)
  BY NatLessThanWellFounded DEF OpToRel
<1>2. PICK x \in S : \A y \in S : <<y, x>> \notin Less
  <2> HIDE DEF Less
  <2> QED
    BY <1>1, WFMin
<1>3. ASSUME NEW y \in S PROVE x <= y
  <2>1. x \in Nat /\ y \in Nat
    OBVIOUS
  <2>2. ~(y < x)
    <3>1. <<y, x>> \in Nat \X Nat /\ <<y, x>>[1] = y /\ <<y, x>>[2] = x
      BY <2>1
    <3> QED
      BY <1>2, <3>1
  <2> QED
    BY <2>1, <2>2
<1> QED
  BY <1>3 DEF Min

\* The longest interval is the most an age can be.
LEMMA LongestFacts ==
    /\ Longest \in Nat \ {0}
    /\ \A i \in Intervals : i \in Nat \ {0} /\ i <= Longest
    /\ Absent \notin Nat
  BY AutoUpdateAssumption DEF Longest

\* The timer that is armed waits for no profile longer than that profile's interval.
LEMMA ReconfiguredFacts ==
    ASSUME NEW rs \in [RemoteProfiles -> Rows \cup {Absent}]
    PROVE  /\ Reconfigured(rs) \in 0 .. Longest \cup {Absent}
           /\ \A p \in AutoOf(rs) :
                /\ Reconfigured(rs) # Absent
                /\ Reconfigured(rs) <= Left(rs[p].age, rs[p].interval)
<1>1. CASE AutoOf(rs) = {}
  BY <1>1 DEF Reconfigured
<1>2. CASE AutoOf(rs) # {}
  <2> DEFINE Shortest == ShortestOf(rs)
             Lefts == {Left(rs[p].age, Shortest) : p \in AutoOf(rs)}
  <2>1. ASSUME NEW p \in AutoOf(rs)
        PROVE  /\ rs[p].interval \in Intervals /\ rs[p].age \in Nat
               /\ rs[p].interval \in Nat \ {0} /\ rs[p].interval <= Longest
    <3>1. rs[p] \in Rows
      BY DEF AutoOf
    <3>2. rs[p].interval \in Intervals /\ rs[p].age \in 0 .. Longest
      BY <3>1 DEF Rows
    <3>3. Longest \in Nat /\ rs[p].interval \in Nat \ {0} /\ rs[p].interval <= Longest
      BY <3>2, LongestFacts
    <3>4. rs[p].age \in Nat
      BY <3>2, <3>3
    <3> QED
      BY <3>2, <3>3, <3>4
  <2>2. /\ \E p \in AutoOf(rs) : Shortest = rs[p].interval
        /\ \A p \in AutoOf(rs) : Shortest <= rs[p].interval
    <3> DEFINE S == {rs[p].interval : p \in AutoOf(rs)}
    <3>1. S \in SUBSET Nat /\ S # {}
      BY <1>2, <2>1
    <3>2. Min(S) \in S /\ \A y \in S : Min(S) <= y
      <4> HIDE DEF S
      <4> QED
        BY <3>1, LeastOfNaturals
    <3> QED
      BY <3>2 DEF ShortestOf
  <2>3. Shortest \in Nat \ {0} /\ Shortest <= Longest
    BY <2>1, <2>2
  <2> HIDE DEF Shortest
  <2>4. \A p \in AutoOf(rs) :
           /\ Left(rs[p].age, Shortest) \in Nat
           /\ Left(rs[p].age, Shortest) <= Shortest
           /\ Left(rs[p].age, Shortest) <= Left(rs[p].age, rs[p].interval)
    BY <2>1, <2>2, <2>3 DEF Left
  <2>5. Lefts \in SUBSET Nat /\ Lefts # {}
    BY <1>2, <2>4
  <2>6. Min(Lefts) \in Lefts /\ \A y \in Lefts : Min(Lefts) <= y
    <3> HIDE DEF Lefts
    <3> QED
      BY <2>5, LeastOfNaturals
  <2>7. Reconfigured(rs) = Min(Lefts)
    BY <1>2 DEF Reconfigured, Shortest
  <2> DEFINE least == Min(Lefts)
  <2>8. least \in Nat /\ least <= Shortest
    <3> HIDE DEF least
    <3> SUFFICES ASSUME least \in Lefts PROVE least \in Nat /\ least <= Shortest
      BY <2>6 DEF least
    <3> QED
      BY <2>4
  <2>9. ASSUME NEW p \in AutoOf(rs)
        PROVE  least <= Left(rs[p].age, rs[p].interval)
    <3>1. least <= Left(rs[p].age, Shortest)
      BY <2>6
    <3> HIDE DEF least
    <3> QED
      BY <2>1, <2>3, <2>4, <2>8, <3>1 DEF Left
  <2> HIDE DEF least
  <2>10. least \in 0 .. Longest /\ least # Absent
    BY <2>3, <2>8, LongestFacts
  <2> QED
    BY <2>7, <2>9, <2>10 DEF least
<1> QED
  BY <1>1, <1>2

TimerInv == TimerTypeOK /\ DueIsScheduled

\* Whatever arms the timer anew keeps the promise, whatever has become of the rows.
LEMMA ReconfigureKeeps ==
    ASSUME row' \in [RemoteProfiles -> Rows \cup {Absent}],
           updating' \in [Runs -> SUBSET RemoteProfiles],
           Reconfigure
    PROVE  TimerInv'
<1>1. /\ timer' \in 0 .. Longest \cup {Absent}
      /\ \A p \in AutoOf(row') :
           timer' # Absent /\ timer' <= Left(row'[p].age, row'[p].interval)
  BY ReconfiguredFacts DEF Reconfigure
<1> QED
  BY <1>1 DEF TimerInv, TimerTypeOK, DueIsScheduled, AutoUpdated

\* While time passes each profile comes nearer to its update as fast as the timer.
LEMMA TickKeeps ==
    ASSUME TimerInv, Tick
    PROVE  TimerInv'
<1> DEFINE most == Longest
<1>0. most \in Nat /\ Absent \notin Nat
  BY LongestFacts
<1>1. ASSUME NEW p \in RemoteProfiles
      PROVE  /\ row'[p] \in Rows \cup {Absent}
             /\ row'[p] # Absent => row[p] # Absent
             /\ row[p] # Absent => /\ row[p] \in Rows
                                 /\ row'[p].auto = row[p].auto
                                 /\ row'[p].interval = row[p].interval
                                 /\ row'[p].age \in {row[p].age, row[p].age + 1}
  <2>1. row'[p] = IF row[p] = Absent \/ row[p].age = most THEN row[p]
                  ELSE [row[p] EXCEPT !.age = @ + 1]
    BY DEF Tick
  <2>2. CASE row[p] = Absent \/ row[p].age = most
    BY <2>1, <2>2 DEF TimerInv, TimerTypeOK
  <2>3. CASE row[p] # Absent /\ row[p].age # most
    <3>1. row[p] \in Rows
      BY <2>3 DEF TimerInv, TimerTypeOK
    <3>2. row[p].age + 1 \in 0 .. most
      <4>1. row[p].age \in 0 .. most
        BY <3>1 DEF Rows
      <4> HIDE DEF most
      <4> QED
        BY <4>1, <2>3, <1>0
    <3>3. row'[p] = [row[p] EXCEPT !.age = @ + 1]
      BY <2>1, <2>3
    <3> QED
      BY <2>3, <3>1, <3>2, <3>3 DEF Rows
  <2> QED
    BY <2>2, <2>3
<1>2. row' \in [RemoteProfiles -> Rows \cup {Absent}] /\ UNCHANGED updating
  <2>1. row' = [p \in RemoteProfiles |-> row'[p]]
    BY DEF Tick
  <2> QED
    BY <2>1, <1>1 DEF Tick
<1>3. timer' \in 0 .. most \cup {Absent} /\ (timer # Absent => timer' = timer - 1 /\ timer' # Absent)
  <2>1. /\ timer \in 0 .. most \cup {Absent} /\ timer # 0
        /\ timer' = IF timer = Absent THEN Absent ELSE timer - 1
    BY DEF Tick, TimerInv, TimerTypeOK
  <2> HIDE DEF most
  <2> QED
    BY <2>1, <1>0
<1>4. ASSUME NEW p \in AutoUpdated', NoRun'
      PROVE  timer' # Absent /\ timer' <= Left(row'[p].age, row'[p].interval)
  <2>1. p \in RemoteProfiles /\ row[p] # Absent /\ row[p].auto
    BY <1>1 DEF AutoUpdated, AutoOf
  <2>2. timer # Absent /\ timer <= Left(row[p].age, row[p].interval)
    BY <1>2, <1>4, <2>1 DEF TimerInv, DueIsScheduled, AutoUpdated, AutoOf,
       NoRun
  <2>3. row[p].age \in Nat /\ row[p].interval \in Nat /\ timer \in Nat /\ timer # 0
    <3>1. row[p].interval \in Intervals /\ row[p].age \in 0 .. most
      BY <2>1, <1>1 DEF Rows
    <3>2. timer \in 0 .. most /\ timer # 0
      BY <2>2 DEF TimerInv, TimerTypeOK, Tick
    <3>3. row[p].interval \in Nat
      BY <3>1, LongestFacts
    <3> HIDE DEF most
    <3> QED
      BY <3>1, <3>2, <3>3, <1>0
  <2>4. /\ row'[p].interval = row[p].interval
        /\ row'[p].age \in {row[p].age, row[p].age + 1}
    BY <1>1, <2>1
  <2> QED
    BY <1>3, <2>2, <2>3, <2>4 DEF Left
<1> QED
  BY <1>2, <1>3, <1>4 DEF TimerInv, TimerTypeOK, DueIsScheduled

LEMMA ReplacesRow ==
    ASSUME NEW p \in RemoteProfiles, NEW new \in Rows \cup {Absent},
           row \in [RemoteProfiles -> Rows \cup {Absent}],
           row' = [row EXCEPT ![p] = new]
    PROVE  row' \in [RemoteProfiles -> Rows \cup {Absent}]
  OBVIOUS

\* What has been updated is due later.
LEMMA UpdatedFacts ==
    ASSUME TimerInv, NEW p \in RemoteProfiles, row[p] # Absent,
           row' = [row EXCEPT ![p].age = 0]
    PROVE  /\ row' \in [RemoteProfiles -> Rows \cup {Absent}]
           /\ AutoUpdated' \subseteq AutoUpdated
           /\ \A q \in AutoUpdated :
                \A t \in Nat : t <= Left(row[q].age, row[q].interval) =>
                    t <= Left(row'[q].age, row'[q].interval)
<1>1. /\ row[p] \in Rows /\ row'[p] = [row[p] EXCEPT !.age = 0]
      /\ \A q \in RemoteProfiles \ {p} : row'[q] = row[q]
      /\ row' = [q \in RemoteProfiles |-> row'[q]]
      /\ \A q \in RemoteProfiles : row[q] \in Rows \cup {Absent}
  BY DEF TimerInv, TimerTypeOK
<1>2. /\ row'[p] \in Rows /\ row'[p].age = 0
      /\ row'[p].auto = row[p].auto /\ row'[p].interval = row[p].interval
  <2>1. 0 \in 0 .. Longest
    BY LongestFacts
  <2> QED
    BY <1>1, <2>1 DEF Rows
<1>3. row[p].age \in Nat /\ row[p].interval \in Nat
  <2>1. row[p].age \in 0 .. Longest /\ row[p].interval \in Intervals
    BY <1>1 DEF Rows
  <2>2. Longest \in Nat
    BY LongestFacts
  <2>3. row[p].interval \in Nat
    BY <2>1, LongestFacts
  <2> QED
    BY <2>1, <2>2, <2>3
<1>4. row' \in [RemoteProfiles -> Rows \cup {Absent}]
  BY <1>1, <1>2
<1>5. AutoUpdated' \subseteq AutoUpdated
  <2>1. \A q \in RemoteProfiles : row'[q] # Absent /\ row'[q].auto => row[q] # Absent /\ row[q].auto
    BY <1>1, <1>2
  <2> QED
    BY <2>1 DEF AutoUpdated, AutoOf
<1> QED
  BY <1>1, <1>2, <1>3, <1>4, <1>5 DEF Left, AutoUpdated, AutoOf

\* A run that has begun, or has more to update, will arm the timer.
LEMMA RunsKeep ==
    ASSUME TimerInv, timer' \in {timer, Absent}, NEW s \in Runs, updating'[s] # {},
           row' \in [RemoteProfiles -> Rows \cup {Absent}],
           updating' \in [Runs -> SUBSET RemoteProfiles]
    PROVE  TimerInv'
  BY DEF TimerInv, TimerTypeOK, DueIsScheduled, NoRun

LEMMA TimerKeeps ==
    ASSUME TimerInv, [TimerNext]_timerVars
    PROVE  TimerInv'
<1>1. /\ row \in [RemoteProfiles -> Rows \cup {Absent}]
      /\ timer \in 0 .. Longest \cup {Absent}
      /\ updating \in [Runs -> SUBSET RemoteProfiles]
  BY DEF TimerInv, TimerTypeOK
<1>2. 0 \in 0 .. Longest /\ Longest \in Nat
  BY LongestFacts
<1>3. CASE Tick
  BY <1>3, TickKeeps
<1>4. CASE TimerRestarts
  BY <1>1, <1>4, ReconfigureKeeps DEF TimerRestarts
<1>5. ASSUME NEW p \in RemoteProfiles, Insert(p) PROVE TimerInv'
  BY <1>1, <1>5, ReconfigureKeeps DEF Insert
<1>6. ASSUME NEW p \in RemoteProfiles, RemoveRow(p) PROVE TimerInv'
  BY <1>1, <1>6, ReconfigureKeeps DEF RemoveRow
<1>7. ASSUME NEW p \in RemoteProfiles, EditRow(p) PROVE TimerInv'
  <2>1. PICK auto \in BOOLEAN, interval \in Intervals, age \in {0, row[p].age} :
           row' = [row EXCEPT ![p] = [auto |-> auto, interval |-> interval, age |-> age]]
    BY <1>7 DEF EditRow
  <2>2. age \in 0 .. Longest
    <3>1. row[p] \in Rows
      BY <1>1, <1>7 DEF EditRow
    <3> QED
      BY <1>2, <3>1 DEF Rows
  <2>3. [auto |-> auto, interval |-> interval, age |-> age] \in Rows
    BY <2>2 DEF Rows
  <2>4. row' \in [RemoteProfiles -> Rows \cup {Absent}]
    BY <1>1, <2>1, <2>3
  <2> QED
    BY <1>1, <1>7, <2>4, ReconfigureKeeps DEF EditRow, Settled
<1>8. ASSUME NEW p \in RemoteProfiles, UpdateRemote(p) PROVE TimerInv'
  <2>1. /\ row' \in [RemoteProfiles -> Rows \cup {Absent}]
        /\ AutoUpdated' \subseteq AutoUpdated
        /\ \A q \in AutoUpdated :
             \A t \in Nat : t <= Left(row[q].age, row[q].interval) =>
                 t <= Left(row'[q].age, row'[q].interval)
    BY <1>8, UpdatedFacts DEF UpdateRemote
  <2>2. UNCHANGED <<timer, updating>>
    BY <1>8 DEF UpdateRemote
  <2>3. timer # Absent => timer \in Nat
    BY <1>1, <1>2
  <2>4. DueIsScheduled
    BY DEF TimerInv
  <2>5. ASSUME NEW q \in AutoUpdated', NoRun'
        PROVE  timer' # Absent /\ timer' <= Left(row'[q].age, row'[q].interval)
    <3>1. timer # Absent /\ timer <= Left(row[q].age, row[q].interval)
      BY <2>1, <2>2, <2>4, <2>5 DEF DueIsScheduled, NoRun
    <3> QED
      BY <2>1, <2>2, <2>3, <2>5, <3>1
  <2> QED
    BY <1>1, <2>1, <2>2, <2>5 DEF TimerInv, TimerTypeOK, DueIsScheduled
<1>9. ASSUME NEW s \in Runs, Fires(s) PROVE TimerInv'
  <2>1. CASE DueProfiles = {}
    BY <1>1, <1>9, <2>1, ReconfigureKeeps DEF Fires
  <2>2. CASE DueProfiles # {}
    <3>1. timer' = Absent /\ updating' = [updating EXCEPT ![s] = DueProfiles]
      BY <1>9, <2>2 DEF Fires
    <3>2. DueProfiles \in SUBSET RemoteProfiles
      BY DEF DueProfiles
    <3>3. updating' \in [Runs -> SUBSET RemoteProfiles] /\ updating'[s] # {}
      BY <1>1, <2>2, <3>1, <3>2
    <3> QED
      BY <1>1, <1>9, <3>1, <3>3, RunsKeep DEF Fires
  <2> QED
    BY <2>1, <2>2
<1>10. ASSUME NEW s \in Runs, NEW p \in RemoteProfiles, Updated(s, p) \/ UpdateFails(s, p)
       PROVE  TimerInv'
  <2>1. row' \in [RemoteProfiles -> Rows \cup {Absent}]
    <3>1. CASE Updated(s, p)
      BY <3>1, UpdatedFacts DEF Updated
    <3>2. CASE UpdateFails(s, p)
      BY <1>1, <3>2 DEF UpdateFails
    <3> QED
      BY <1>10, <3>1, <3>2
  <2>2. /\ updating' = [updating EXCEPT ![s] = @ \ {p}]
        /\ IF updating'[s] = {} THEN Reconfigure ELSE timer' = timer
    BY <1>10 DEF Updated, UpdateFails, EndsRun
  <2>3. updating' \in [Runs -> SUBSET RemoteProfiles]
    BY <1>1, <2>2
  <2>4. CASE updating'[s] = {}
    BY <2>1, <2>2, <2>3, <2>4, ReconfigureKeeps
  <2>5. CASE updating'[s] # {}
    BY <2>1, <2>2, <2>3, <2>5, RunsKeep
  <2> QED
    BY <2>4, <2>5
<1>11. CASE UNCHANGED timerVars
  BY <1>11 DEF TimerInv, timerVars, TimerTypeOK, DueIsScheduled, AutoUpdated,
     AutoOf, NoRun
<1> QED
  BY <1>3, <1>4, <1>5, <1>6, <1>7, <1>8, <1>9, <1>10, <1>11 DEF TimerNext

\* No profile is updated later than its own interval asks for, though there is one
\* timer for all, armed by whatever changed last, and runs that overlap.
THEOREM UpdatesAreScheduled ==
    TimerSpec => [](TimerTypeOK /\ DueIsScheduled)
<1>1. TimerInit => TimerInv
  <2> SUFFICES ASSUME TimerInit PROVE TimerInv
    OBVIOUS
  <2>1. row \in [RemoteProfiles -> {Absent}] /\ timer = Absent /\ updating = [s \in Runs |-> {}]
    BY DEF TimerInit
  <2>2. TimerTypeOK
    BY <2>1 DEF TimerTypeOK
  <2>3. AutoUpdated = {}
    BY <2>1 DEF AutoUpdated, AutoOf
  <2> QED
    BY <2>2, <2>3 DEF TimerInv, DueIsScheduled
<1>2. TimerInv /\ [TimerNext]_timerVars => TimerInv'
  BY TimerKeeps
<1>3. TimerInv => TimerTypeOK /\ DueIsScheduled
  BY DEF TimerInv
<1> QED
  BY <1>1, <1>2, <1>3, PTL DEF TimerSpec
=============================================================================
