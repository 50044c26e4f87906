---------------------- MODULE OpenConnectBrowser_proofs ----------------------
(***************************************************************************)
(* Proofs about OpenConnectBrowser, for every value of its constants: any  *)
(* number of requests, storages, cookies that share names, windows and     *)
(* calls of cookies.get under way.                                         *)
(*                                                                         *)
(* A request that ends leaves nothing to prove of its cookies; so a step   *)
(* either ends the one that runs, or opens a window, or keeps the requests *)
(* as they are and changes the jar, the events or what is known of them.   *)
(***************************************************************************)
EXTENDS OpenConnectBrowser, SequenceTheorems, TLAPS

-----------------------------------------------------------------------------
(* The invariant. *)

\* An event of cookie [c] is under way: the candidate of [c] is about to be corrected.
Announced(p, c) == \E i \in 1..Len(pending[p]) : pending[p][i].cookie = c

\* The request whose window is open, the one that hears of cookies.
Running(r) == active = r /\ auth[r].opening = "opened"

\* How far a request is, and what it holds of the browser.
Stage(r) ==
    /\ auth[r].phase = "active" <=> active = r
    /\ auth[r].phase = "new" <=> auth[r].opening = "none"
    /\ auth[r].phase # "new" => auth[r].ask \in RequestTypes /\ auth[r].storage \in Partitions

Holds(r) ==
    /\ auth[r].opening # "opened" =>
          r \notin listening /\ \A w \in Windows : page[r][w] = "closed"
    /\ \A p \in Partitions : handler[p] = r => auth[r].opening = "opened" /\ auth[r].storage = p
    /\ Running(r) => r \in listening

\* It holds nothing that was there at its end, and takes it only if it is opened later.
Leaves(r) ==
    auth[r].phase = "done" =>
        \/ auth[r].ended \in {"reading", "clearing"}
        \/ /\ auth[r].ended = "opened" /\ auth[r].opening = "opened"
           /\ r \notin listening /\ \A p \in Partitions : handler[p] # r

RequestInv == \A r \in Requests : Stage(r) /\ Holds(r) /\ Leaves(r)

\* Without an open window nothing is known of cookies and nothing under way.
QuietInv ==
    (\A r \in Requests : ~Running(r)) =>
        /\ candidates = NoCookies
        /\ \A s \in Slots : gets[s] = None
        /\ \A w \in Windows : completion[w] = None

\* The last that the browser tells of a cookie is what the jar holds.
JarInv ==
    \A p \in Partitions : \A i \in 1..Len(pending[p]) :
        pending[p][i].value # jar[p][pending[p][i].cookie] =>
            \E j \in 1..Len(pending[p]) : i < j /\ pending[p][j].cookie = pending[p][i].cookie

\* Of a cookie this is what the jar holds, or the browser has yet to tell more of it.
Sure(r, c, value) ==
    value = jar[auth[r].storage][c] \/ Announced(auth[r].storage, c)

\* So it is for the candidates,
CandidatesAreSure(r) ==
    \A c \in Cookies : candidates[c] # None =>
        c \in Wanted(auth[r].ask) /\ Sure(r, c, candidates[c])

\* for the cookies that have changed while a call was under way,
ChangesAreSure(r) ==
    \A s \in Slots : Live(s) => \A c \in gets[s].changed :
        c \in Wanted(auth[r].ask) /\ Sure(r, c, candidates[c])

\* and for what a call has seen of the others that it was asked for.
AskedFor(r, get) == {c \in Wanted(auth[r].ask) : get.token = "none" => c \in AtOther}

AnswersAreSure(r) ==
    \A s \in Slots : Live(s) /\ gets[s].seen # None => \A c \in Cookies :
        /\ gets[s].seen[c] # None => c \in AskedFor(r, gets[s])
        /\ c \in AskedFor(r, gets[s]) \ gets[s].changed => Sure(r, c, gets[s].seen[c])

KnownInv ==
    \A r \in Requests : Running(r) =>
        CandidatesAreSure(r) /\ ChangesAreSure(r) /\ AnswersAreSure(r)

\* A completion is there for the windows at the final page, and a token of it is held
\* for no other.
FinalInv ==
    \A r \in Requests : Running(r) =>
        /\ \A s \in Slots : Live(s) /\ gets[s].token \in Windows =>
              page[r][gets[s].token] = "final"
        /\ \A w \in Windows : completion[w] # None => page[r][w] = "final"
        /\ \A w \in Windows : page[r][w] = "final" /\ auth[r].ask.cookies # {} =>
              completion[w] # None

\* A cookie of the final page that is in the jar is on its way to complete it.
PursuedInv ==
    \A r \in Requests, w \in Windows, c \in Cookies :
        AtFinal(r, w, c) =>
            \/ \E s \in Slots : Live(s) /\ gets[s].token = w
            \/ completion[w] = "timer"
            \/ Announced(auth[r].storage, c)

BrowserInv ==
    /\ TypeOK /\ RequestInv /\ QuietInv /\ JarInv /\ KnownInv /\ FinalInv /\ PursuedInv
    /\ HeadersReachTheRequest

-----------------------------------------------------------------------------
(* The calls of cookies.get. *)

LEMMA ClearedFacts ==
    ASSUME gets \in [Slots -> Gets \cup {None}], NEW w
    PROVE  /\ Cleared(w) \in [Slots -> Gets \cup {None}]
           /\ \A s \in Slots :
                /\ Cleared(w)[s] = None <=> gets[s] = None
                /\ Live(s) => /\ Cleared(w)[s].seen = gets[s].seen
                              /\ Cleared(w)[s].changed = gets[s].changed
                              /\ Cleared(w)[s].token = IF gets[s].token = w THEN "stale"
                                                       ELSE gets[s].token
<1>1. ASSUME NEW s \in Slots
      PROVE  /\ Cleared(w)[s] \in Gets \cup {None}
             /\ Cleared(w)[s] = None <=> gets[s] = None
             /\ Live(s) => /\ Cleared(w)[s].seen = gets[s].seen
                           /\ Cleared(w)[s].changed = gets[s].changed
                           /\ Cleared(w)[s].token = IF gets[s].token = w THEN "stale"
                                                    ELSE gets[s].token
  <2>1. CASE Live(s) /\ gets[s].token = w
    <3>1. gets[s] \in Gets
      BY <2>1 DEF Live
    <3>2. /\ [gets[s] EXCEPT !.token = "stale"] \in Gets
          /\ [gets[s] EXCEPT !.token = "stale"].seen = gets[s].seen
          /\ [gets[s] EXCEPT !.token = "stale"].changed = gets[s].changed
          /\ [gets[s] EXCEPT !.token = "stale"].token = "stale"
      BY <3>1 DEF Gets
    <3>3. Cleared(w)[s] = [gets[s] EXCEPT !.token = "stale"]
      BY <2>1 DEF Cleared
    <3> QED
      BY <2>1, <3>2, <3>3, NothingAssumption DEF Live
  <2>2. CASE ~(Live(s) /\ gets[s].token = w)
    <3>1. Cleared(w)[s] = gets[s]
      BY <2>2 DEF Cleared
    <3> QED
      BY <2>2, <3>1
  <2> QED
    BY <2>1, <2>2
<1>2. Cleared(w) = [s \in Slots |-> Cleared(w)[s]]
  BY DEF Cleared
<1> QED
  BY <1>1, <1>2

LEMMA ToldFacts ==
    ASSUME NEW calls \in [Slots -> Gets \cup {None}], NEW cookies \in SUBSET Cookies
    PROVE  /\ Told(calls, cookies) \in [Slots -> Gets \cup {None}]
           /\ \A s \in Slots :
                /\ Told(calls, cookies)[s] = None <=> calls[s] = None
                /\ calls[s] # None =>
                     /\ Told(calls, cookies)[s].seen = calls[s].seen
                     /\ Told(calls, cookies)[s].token = calls[s].token
                     /\ Told(calls, cookies)[s].changed = calls[s].changed \cup cookies
<1> DEFINE told == Told(calls, cookies)
<1>1. ASSUME NEW s \in Slots
      PROVE  /\ told[s] \in Gets \cup {None}
             /\ told[s] = None <=> calls[s] = None
             /\ calls[s] # None => /\ told[s].seen = calls[s].seen
                                   /\ told[s].token = calls[s].token
                                   /\ told[s].changed = calls[s].changed \cup cookies
  <2>1. CASE calls[s] = None
    BY <2>1 DEF Told
  <2>2. CASE calls[s] # None
    <3> DEFINE changed == calls[s].changed \cup cookies
    <3>1. calls[s] \in Gets
      BY <2>2
    <3>2. changed \in SUBSET Cookies
      BY <3>1 DEF Gets
    <3>3. told[s] = [calls[s] EXCEPT !.changed = changed]
      BY <2>2 DEF Told
    <3> HIDE DEF changed, told
    <3>4. /\ told[s] \in Gets /\ told[s].seen = calls[s].seen
          /\ told[s].token = calls[s].token /\ told[s].changed = changed
      BY <3>1, <3>2, <3>3 DEF Gets
    <3>5. changed = calls[s].changed \cup cookies
      BY DEF changed
    <3> QED
      BY <2>2, <3>4, <3>5, NothingAssumption
  <2> QED
    BY <2>1, <2>2
<1>2. told = [s \in Slots |-> told[s]]
  BY DEF Told
<1> QED
  BY <1>1, <1>2

LEMMA CaptureFacts ==
    ASSUME NEW calls \in [Slots -> Gets \cup {None}],
           NEW token \in Windows \cup {"stale", "none"}, Capture(calls, token)
    PROVE  /\ gets' \in [Slots -> Gets \cup {None}]
           /\ \E s \in Slots :
                /\ calls[s] = None /\ gets'[s] # None
                /\ gets'[s].token = token /\ gets'[s].seen = None /\ gets'[s].changed = {}
                /\ \A t \in Slots \ {s} : gets'[t] = calls[t]
<1> DEFINE get == [token |-> token, seen |-> None, changed |-> {}]
           s == CHOOSE t \in Slots : calls[t] = None
<1>1. s \in Slots /\ calls[s] = None
  BY DEF Capture
<1>2. gets' = [calls EXCEPT ![s] = get]
  BY DEF Capture
<1>3. get \in Gets /\ get.token = token /\ get.seen = None /\ get.changed = {}
  BY DEF Gets
<1>4. get # None
  BY <1>3, NothingAssumption
<1> HIDE DEF get, s
<1>5. gets' \in [Slots -> Gets \cup {None}] /\ gets'[s] = get
      /\ \A t \in Slots \ {s} : gets'[t] = calls[t]
  BY <1>1, <1>2, <1>3
<1> QED
  BY <1>1, <1>3, <1>4, <1>5

\* What a step that asks, or forgets of what page, keeps of the calls: [get] is one
\* of them or has just begun.
Follows(get, s) ==
    \/ get.seen = None /\ get.changed = {}
    \/ /\ Live(s) /\ get.seen = gets[s].seen /\ get.changed = gets[s].changed
       /\ get.token = "none" <=> gets[s].token = "none"

-----------------------------------------------------------------------------
(* The jar and the events. *)

Growth(p, c) ==
    /\ Len(pending[p]) <= Len(pending'[p])
    /\ \A i \in 1..Len(pending[p]) : pending'[p][i] = pending[p][i]
    /\ \A i \in (Len(pending[p]) + 1)..Len(pending'[p]) : pending'[p][i].cookie = c
    /\ Len(pending[p]) < Len(pending'[p]) =>
          pending'[p][Len(pending'[p])] = [cookie |-> c, value |-> jar'[p][c]]

\* A change is announced, the value there is now last.
LEMMA ChangedFacts ==
    ASSUME TypeOK, NEW p \in Partitions, NEW c \in Cookies, NEW value \in Values \cup {None},
           Changed(p, c, value)
    PROVE  /\ jar' \in [Partitions -> [Cookies -> Values \cup {None}]]
           /\ pending' \in [Partitions -> Seq(Events)]
           /\ \A q \in Partitions \ {p} : jar'[q] = jar[q] /\ pending'[q] = pending[q]
           /\ \A d \in Cookies \ {c} : jar'[p][d] = jar[p][d]
           /\ Growth(p, c)
           /\ jar'[p][c] # jar[p][c] => Len(pending[p]) < Len(pending'[p])
<1> DEFINE removal   == IF jar[p][c] = None THEN <<>> ELSE <<[cookie |-> c, value |-> None]>>
           insertion == IF value = None THEN <<>> ELSE <<[cookie |-> c, value |-> value]>>
           old       == pending[p]
<1>1. /\ jar' = [jar EXCEPT ![p] = [jar[p] EXCEPT ![c] = value]]
      /\ pending' = [pending EXCEPT ![p] = (old \o removal) \o insertion]
  BY DEF Changed
<1>2. /\ jar \in [Partitions -> [Cookies -> Values \cup {None}]]
      /\ pending \in [Partitions -> Seq(Events)] /\ old \in Seq(Events)
  BY DEF TypeOK
<1>3. /\ jar' \in [Partitions -> [Cookies -> Values \cup {None}]]
      /\ \A q \in Partitions \ {p} : jar'[q] = jar[q]
      /\ \A d \in Cookies \ {c} : jar'[p][d] = jar[p][d]
      /\ jar'[p][c] = value
  BY <1>1, <1>2
<1> DEFINE removed  == [cookie |-> c, value |-> None]
           inserted == [cookie |-> c, value |-> value]
<1>4. removed \in Events /\ inserted \in Events /\ removed.cookie = c /\ inserted.cookie = c
  BY DEF Events
<1>5. ASSUME NEW s \in Seq(Events), NEW e \in Events
      PROVE  /\ s \o <<e>> = Append(s, e) /\ s \o <<>> = s
             /\ Append(s, e) \in Seq(Events) /\ Len(Append(s, e)) = Len(s) + 1
             /\ \A i \in 1..Len(s) : Append(s, e)[i] = s[i]
             /\ Append(s, e)[Len(s) + 1] = e
  BY AppendIsConcat, ConcatEmptySeq, AppendProperties
<1>6. /\ removal = IF jar[p][c] = None THEN <<>> ELSE <<removed>>
      /\ insertion = IF value = None THEN <<>> ELSE <<inserted>>
      /\ value = None => inserted = removed
  OBVIOUS
<1> DEFINE middle == old \o removal
           all    == middle \o insertion
<1>7. /\ middle \in Seq(Events) /\ Len(old) \in Nat /\ Len(middle) \in Nat
      /\ middle = IF jar[p][c] = None THEN old ELSE Append(old, removed)
  <2> HIDE DEF removed, inserted
  <2>1. /\ old \o <<removed>> = Append(old, removed) /\ old \o <<>> = old
        /\ Append(old, removed) \in Seq(Events)
    BY <1>2, <1>4, <1>5
  <2> HIDE DEF old, removal
  <2>2. middle = IF jar[p][c] = None THEN old ELSE Append(old, removed)
    BY <1>6, <2>1
  <2>3. middle \in Seq(Events)
    BY <1>2, <2>1, <2>2
  <2> HIDE DEF middle
  <2> QED
    BY <1>2, <2>2, <2>3, LenProperties
<1>8. all = IF value = None THEN middle ELSE Append(middle, inserted)
  <2> HIDE DEF removed, inserted, middle
  <2>1. middle \o <<inserted>> = Append(middle, inserted) /\ middle \o <<>> = middle
    BY <1>4, <1>5, <1>7
  <2> HIDE DEF insertion
  <2> QED
    BY <1>6, <2>1
<1>9. pending' = [pending EXCEPT ![p] = all]
  BY <1>1
<1> HIDE DEF removal, insertion, removed, inserted, middle, all
<1>10. /\ all \in Seq(Events) /\ Len(all) \in Nat /\ Len(old) <= Len(all)
       /\ \A i \in 1..Len(old) : all[i] = old[i]
       /\ \A i \in (Len(old) + 1)..Len(all) : all[i].cookie = c
       /\ Len(old) < Len(all) => all[Len(all)] = [cookie |-> c, value |-> value]
       /\ jar[p][c] # value => Len(old) < Len(all)
  <2> HIDE DEF old
  <2>0. removed.value = None /\ removed = [cookie |-> c, value |-> None]
        /\ inserted = [cookie |-> c, value |-> value]
    BY DEF removed, inserted
  <2>1. CASE jar[p][c] = None /\ value = None
    BY <1>7, <1>8, <2>1
  <2>2. CASE jar[p][c] # None /\ value = None
    <3>1. all = Append(old, removed)
      BY <1>7, <1>8, <2>2
    <3> QED
      BY <1>2, <1>4, <1>5, <1>7, <2>0, <2>2, <3>1
  <2>3. CASE jar[p][c] = None /\ value # None
    <3>1. all = Append(old, inserted)
      BY <1>7, <1>8, <2>3
    <3> QED
      BY <1>2, <1>4, <1>5, <1>7, <2>0, <2>3, <3>1
  <2>4. CASE jar[p][c] # None /\ value # None
    <3>1. middle = Append(old, removed) /\ all = Append(middle, inserted)
      BY <1>7, <1>8, <2>4
    <3>2. /\ middle \in Seq(Events) /\ Len(middle) = Len(old) + 1
          /\ \A i \in 1..Len(old) : middle[i] = old[i]
          /\ middle[Len(old) + 1] = removed
      BY <1>2, <1>4, <1>5, <3>1
    <3>3. /\ all \in Seq(Events) /\ Len(all) = Len(middle) + 1
          /\ \A i \in 1..Len(middle) : all[i] = middle[i]
          /\ all[Len(middle) + 1] = inserted
      BY <1>4, <1>5, <3>1, <3>2
    <3>4. Len(all) = Len(old) + 2 /\ all[Len(old) + 1] = removed /\ all[Len(old) + 2] = inserted
      BY <1>7, <3>2, <3>3
    <3>5. \A i \in 1..Len(old) : all[i] = old[i]
      BY <1>7, <3>2, <3>3
    <3>6. \A i \in (Len(old) + 1)..Len(all) : all[i] = removed \/ all[i] = inserted
      BY <1>7, <3>4
    <3> QED
      BY <1>4, <1>7, <2>0, <3>3, <3>4, <3>5, <3>6
  <2> QED
    BY <2>1, <2>2, <2>3, <2>4
<1>11. /\ pending' \in [Partitions -> Seq(Events)] /\ pending'[p] = all
       /\ \A q \in Partitions \ {p} : pending'[q] = pending[q]
  BY <1>2, <1>9, <1>10
<1> QED
  BY <1>3, <1>10, <1>11 DEF Growth

LEMMA ChangedKeepsJar ==
    ASSUME TypeOK, JarInv,
           NEW p \in Partitions, NEW c \in Cookies, NEW value \in Values \cup {None},
           Changed(p, c, value)
    PROVE  /\ JarInv'
           /\ \A q \in Partitions, d \in Cookies :
                /\ Announced(q, d) => Announced(q, d)'
                /\ jar'[q][d] # jar[q][d] => Announced(q, d)'
<1>1. /\ \A q \in Partitions \ {p} : jar'[q] = jar[q] /\ pending'[q] = pending[q]
      /\ \A d \in Cookies \ {c} : jar'[p][d] = jar[p][d]
      /\ Growth(p, c)
      /\ jar'[p][c] # jar[p][c] => Len(pending[p]) < Len(pending'[p])
  BY ChangedFacts
<1>2. \A q \in Partitions : pending[q] \in Seq(Events) /\ Len(pending[q]) \in Nat
  BY LenProperties DEF TypeOK
<1>3. Len(pending'[p]) \in Nat
  BY ChangedFacts, LenProperties
<1>4. \A d \in Cookies : Announced(p, d) => Announced(p, d)'
  BY <1>1, <1>2, <1>3 DEF Announced, Growth
<1>5. jar'[p][c] # jar[p][c] => Announced(p, c)'
  BY <1>1, <1>2, <1>3 DEF Announced, Growth
<1>6. \A q \in Partitions, d \in Cookies : Announced(q, d) => Announced(q, d)'
  <2> SUFFICES ASSUME NEW q \in Partitions, NEW d \in Cookies, Announced(q, d)
               PROVE  Announced(q, d)'
    OBVIOUS
  <2>1. CASE q = p
    BY <1>4, <2>1 DEF Announced
  <2>2. CASE q # p
    BY <1>1, <2>2 DEF Announced
  <2> QED
    BY <2>1, <2>2
<1>7. \A q \in Partitions, d \in Cookies : jar'[q][d] # jar[q][d] => Announced(q, d)'
  BY <1>1, <1>5 DEF Announced
<1>8. JarInv'
  <2> SUFFICES ASSUME NEW q \in Partitions, NEW i \in 1..Len(pending'[q]),
                      pending'[q][i].value # jar'[q][pending'[q][i].cookie]
               PROVE  \E j \in 1..Len(pending'[q]) :
                        i < j /\ pending'[q][j].cookie = pending'[q][i].cookie
    BY DEF JarInv
  <2>1. CASE q # p
    BY <1>1, <2>1 DEF JarInv
  <2>2. CASE q = p /\ i > Len(pending[p])
    <3>1. pending'[p][i].cookie = c /\ Len(pending[p]) < Len(pending'[p])
      BY <1>1, <1>2, <1>3, <2>2 DEF Growth
    <3>2. /\ pending'[p][Len(pending'[p])].cookie = c
          /\ pending'[p][Len(pending'[p])].value = jar'[p][c]
      BY <1>1, <3>1 DEF Growth
    <3>3. i # Len(pending'[p])
      BY <2>2, <3>1, <3>2
    <3> QED
      BY <1>2, <1>3, <2>2, <3>1, <3>2, <3>3
  <2>3. CASE q = p /\ i <= Len(pending[p])
    <3>1. i \in 1..Len(pending[p]) /\ pending'[p][i] = pending[p][i]
      BY <1>1, <1>2, <1>3, <2>3 DEF Growth
    <3>2. CASE pending[p][i].value # jar[p][pending[p][i].cookie]
      <4>1. PICK j \in 1..Len(pending[p]) : i < j /\ pending[p][j].cookie = pending[p][i].cookie
        BY <3>1, <3>2 DEF JarInv
      <4>2. j \in 1..Len(pending'[p]) /\ pending'[p][j] = pending[p][j]
        BY <1>1, <1>2, <1>3 DEF Growth
      <4> QED
        BY <2>3, <3>1, <4>1, <4>2
    <3>3. CASE pending[p][i].value = jar[p][pending[p][i].cookie]
      <4>1. pending[p][i].cookie = c /\ jar'[p][c] # jar[p][c]
        <5>1. pending[p][i] \in Events
          BY <1>2, <3>1, ElementOfSeq
        <5>2. pending[p][i].cookie \in Cookies
          BY <5>1 DEF Events
        <5> QED
          BY <1>1, <2>3, <3>1, <3>3, <5>2
      <4>2. /\ Len(pending[p]) < Len(pending'[p])
            /\ pending'[p][Len(pending'[p])].cookie = c
        BY <1>1, <4>1 DEF Growth
      <4> QED
        BY <1>2, <1>3, <2>3, <3>1, <4>1, <4>2
    <3> QED
      BY <3>2, <3>3
  <2> QED
    BY <1>2, <2>1, <2>2, <2>3
<1> QED
  BY <1>6, <1>7, <1>8

\* An event is delivered: what it tells is what the jar holds, unless another follows.
LEMMA DeliveredFacts ==
    ASSUME TypeOK, JarInv, NEW p \in Partitions, pending[p] # <<>>,
           pending' = [pending EXCEPT ![p] = Tail(@)], UNCHANGED jar
    PROVE  /\ pending' \in [Partitions -> Seq(Events)] /\ JarInv'
           /\ Head(pending[p]) \in Events
           /\ \A q \in Partitions, d \in Cookies :
                Announced(q, d) => Announced(q, d)' \/ (q = p /\ d = Head(pending[p]).cookie)
           /\ \A d \in Cookies :
                d = Head(pending[p]).cookie /\ Head(pending[p]).value # jar[p][d]
                  => Announced(p, d)'
<1> DEFINE s == pending[p]
           t == Tail(pending[p])
<1>1. s \in Seq(Events) /\ pending \in [Partitions -> Seq(Events)]
  BY DEF TypeOK
<1>2. /\ t \in Seq(Events) /\ Head(s) \in Events /\ Head(s) = s[1]
      /\ Len(s) \in Nat /\ Len(s) > 0 /\ Len(t) = Len(s) - 1
      /\ \A i \in 1..Len(t) : t[i] = s[i + 1]
  BY <1>1, HeadTailProperties, LenProperties
<1>3. /\ pending' \in [Partitions -> Seq(Events)] /\ pending'[p] = t
      /\ \A q \in Partitions \ {p} : pending'[q] = pending[q]
  BY <1>1, <1>2
<1> HIDE DEF t
<1>4. \A i \in 1..Len(s) : i # 1 => i - 1 \in 1..Len(t) /\ t[i - 1] = s[i]
  BY <1>2
<1>5. \A q \in Partitions, d \in Cookies :
        Announced(q, d) => Announced(q, d)' \/ (q = p /\ d = Head(pending[p]).cookie)
  <2> SUFFICES ASSUME NEW q \in Partitions, NEW d \in Cookies, Announced(q, d)
               PROVE  Announced(q, d)' \/ (q = p /\ d = Head(pending[p]).cookie)
    OBVIOUS
  <2>1. PICK i \in 1..Len(pending[q]) : pending[q][i].cookie = d
    BY DEF Announced
  <2>2. CASE q # p
    BY <1>3, <2>1, <2>2 DEF Announced
  <2>3. CASE q = p /\ i = 1
    BY <1>2, <2>1, <2>3
  <2>4. CASE q = p /\ i # 1
    <3>1. i - 1 \in 1..Len(t) /\ t[i - 1].cookie = d
      BY <1>4, <2>1, <2>4
    <3>2. i - 1 \in 1..Len(pending'[q]) /\ pending'[q][i - 1].cookie = d
      BY <1>3, <2>4, <3>1
    <3> QED
      BY <3>2 DEF Announced
  <2> QED
    BY <2>2, <2>3, <2>4
<1>6. JarInv'
  <2> SUFFICES ASSUME NEW q \in Partitions, NEW i \in 1..Len(pending'[q]),
                      pending'[q][i].value # jar'[q][pending'[q][i].cookie]
               PROVE  \E j \in 1..Len(pending'[q]) :
                        i < j /\ pending'[q][j].cookie = pending'[q][i].cookie
    BY DEF JarInv
  <2>1. CASE q # p
    BY <1>3, <2>1 DEF JarInv
  <2>2. CASE q = p
    <3>1. i \in 1..Len(t) /\ pending'[q][i] = s[i + 1] /\ i + 1 \in 1..Len(s)
      BY <1>2, <1>3, <2>2
    <3>2. PICK k \in 1..Len(s) : i + 1 < k /\ s[k].cookie = s[i + 1].cookie
      BY <2>2, <3>1 DEF JarInv
    <3>3. k - 1 \in 1..Len(t) /\ t[k - 1] = s[k] /\ i < k - 1
      BY <1>2, <1>4, <3>1, <3>2
    <3> QED
      BY <1>3, <2>2, <3>1, <3>2, <3>3
  <2> QED
    BY <2>1, <2>2
<1>7. ASSUME NEW d \in Cookies, d = Head(s).cookie, Head(s).value # jar[p][d]
      PROVE  Announced(p, d)'
  <2>1. 1 \in 1..Len(s) /\ s[1].cookie = d /\ s[1].value # jar[p][s[1].cookie]
    BY <1>2, <1>7
  <2>2. PICK k \in 1..Len(s) : 1 < k /\ s[k].cookie = d
    BY <2>1 DEF JarInv
  <2>3. k - 1 \in 1..Len(t) /\ t[k - 1].cookie = d
    BY <1>2, <1>4, <2>2
  <2>4. k - 1 \in 1..Len(pending'[p]) /\ pending'[p][k - 1].cookie = d
    BY <1>3, <2>3
  <2> QED
    BY <2>4 DEF Announced
<1> QED
  BY <1>2, <1>3, <1>5, <1>6, <1>7

-----------------------------------------------------------------------------
(* A request that ends. *)

LEMMA FinishFacts ==
    ASSUME TypeOK, NEW r \in Requests, auth[r].storage \in Partitions,
           NEW answer \in Answers, Finish(r, answer)
    PROVE  /\ active' \in Requests \cup {None} /\ auth' \in [Requests -> Auths]
           /\ completion' \in [Windows -> {None, "idle", "timer"}]
           /\ candidates' \in [Cookies -> Values \cup {None}] /\ collected' \subseteq Headers
           /\ gets' \in [Slots -> Gets \cup {None}]
           /\ listening' \subseteq Requests
           /\ handler' \in [Partitions -> Requests \cup {None}]
           /\ active' = IF active = r THEN None ELSE active
           /\ \A q \in Requests \ {r} : auth'[q] = auth[q]
           /\ auth'[r].phase = "done" /\ auth'[r].answer = answer
           /\ auth'[r].ended = auth[r].opening /\ auth'[r].opening = auth[r].opening
           /\ auth'[r].ask = auth[r].ask /\ auth'[r].storage = auth[r].storage
           /\ candidates' = NoCookies /\ listening' = listening \ {r}
           /\ \A s \in Slots : gets'[s] = None
           /\ \A w \in Windows : completion'[w] = None
           /\ \A p \in Partitions :
                handler'[p] = IF p = auth[r].storage THEN None ELSE handler[p]
<1> DEFINE opening == auth[r].opening
           over == [auth[r] EXCEPT !.phase = "done", !.answer = answer, !.ended = opening]
<1>1. auth \in [Requests -> Auths] /\ opening \in Openings
  BY DEF TypeOK, Auths
<1>2. auth' = [auth EXCEPT ![r] = over]
  BY <1>1 DEF Finish
<1> HIDE DEF opening
<1>3. /\ over \in Auths /\ over.phase = "done" /\ over.answer = answer /\ over.ended = opening
      /\ over.opening = auth[r].opening /\ over.ask = auth[r].ask /\ over.storage = auth[r].storage
  BY <1>1 DEF Auths
<1> HIDE DEF over
<1>4. /\ auth' \in [Requests -> Auths] /\ auth'[r] = over
      /\ \A q \in Requests \ {r} : auth'[q] = auth[q]
  BY <1>1, <1>2, <1>3
<1>5. /\ candidates' = NoCookies /\ NoCookies \in [Cookies -> Values \cup {None}]
      /\ collected' = {} /\ listening' = listening \ {r}
      /\ active' = IF active = r THEN None ELSE active
  BY DEF Finish, NoCookies
<1>6. /\ gets' \in [Slots -> Gets \cup {None}] /\ \A s \in Slots : gets'[s] = None
      /\ completion' \in [Windows -> {None, "idle", "timer"}]
      /\ \A w \in Windows : completion'[w] = None
  BY DEF Finish
<1>7. /\ handler' \in [Partitions -> Requests \cup {None}]
      /\ \A p \in Partitions : handler'[p] = IF p = auth[r].storage THEN None ELSE handler[p]
  BY DEF Finish, TypeOK
<1> QED
  BY <1>3, <1>4, <1>5, <1>6, <1>7 DEF TypeOK, opening

\* The windows and events may change with it, the jar does not.
LEMMA FinishStep ==
    ASSUME BrowserInv, NEW r \in Requests, active = r, NEW answer \in Answers, Finish(r, answer),
           page' \in [Requests -> [Windows -> Pages \cup {"closed", "loading"}]],
           \A q \in Requests, w \in Windows : page[q][w] = "closed" => page'[q][w] = "closed",
           UNCHANGED jar, pending' \in [Partitions -> Seq(Events)], JarInv'
    PROVE  BrowserInv'
<1> USE DEF BrowserInv
<1>1. auth[r].phase = "active" /\ auth[r].storage \in Partitions /\ auth[r].opening # "none"
  BY DEF RequestInv, Stage
<1>2. /\ active' \in Requests \cup {None} /\ auth' \in [Requests -> Auths]
      /\ completion' \in [Windows -> {None, "idle", "timer"}]
      /\ candidates' \in [Cookies -> Values \cup {None}] /\ collected' \subseteq Headers
      /\ gets' \in [Slots -> Gets \cup {None}]
      /\ listening' \subseteq Requests
      /\ handler' \in [Partitions -> Requests \cup {None}]
      /\ active' = None
      /\ \A q \in Requests \ {r} : auth'[q] = auth[q]
      /\ auth'[r].phase = "done"
      /\ auth'[r].ended = auth[r].opening /\ auth'[r].opening = auth[r].opening
      /\ auth'[r].ask = auth[r].ask /\ auth'[r].storage = auth[r].storage
      /\ candidates' = NoCookies /\ listening' = listening \ {r}
      /\ \A s \in Slots : gets'[s] = None
      /\ \A w \in Windows : completion'[w] = None
      /\ \A p \in Partitions :
           handler'[p] = IF p = auth[r].storage THEN None ELSE handler[p]
  BY <1>1, FinishFacts
<1>3. TypeOK'
  BY <1>2 DEF TypeOK
<1>4. None \notin Requests
  BY NothingAssumption
<1>5. ASSUME NEW q \in Requests PROVE (Stage(q) /\ Holds(q) /\ Leaves(q))'
  <2>1. Stage(q) /\ Holds(q) /\ Leaves(q)
    BY DEF RequestInv
  <2>2. active' # q /\ ~Running(q)'
    BY <1>2, <1>4 DEF Running
  <2>3. CASE q = r
    <3>1. auth[r].opening \in {"reading", "clearing", "opened"}
      BY <1>1 DEF TypeOK, Auths, Openings
    <3>2. Stage(r)'
      BY <1>1, <1>2, <2>1, <2>2, <2>3, <3>1 DEF Stage
    <3>3. /\ auth[r].opening # "opened" =>
                r \notin listening /\ \A w \in Windows : page[r][w] = "closed"
          /\ \A p \in Partitions : handler[p] = r =>
                auth[r].opening = "opened" /\ auth[r].storage = p
      BY <2>1, <2>3 DEF Holds
    <3>4. r \notin listening' /\ \A p \in Partitions : handler'[p] # r
      <4>1. ASSUME NEW p \in Partitions PROVE handler'[p] # r
        <5>1. handler'[p] = IF p = auth[r].storage THEN None ELSE handler[p]
          BY <1>2
        <5>2. handler[p] = r => auth[r].storage = p
          BY <3>3
        <5> QED
          BY <1>4, <5>1, <5>2
      <4>2. r \notin listening'
        BY <1>2
      <4> QED
        BY <4>1, <4>2
    <3>5. auth'[r].opening # "opened" => \A w \in Windows : page'[r][w] = "closed"
      BY <1>2, <3>3
    <3>6. Holds(r)'
      BY <2>2, <2>3, <3>4, <3>5 DEF Holds, Running
    <3>7. Leaves(r)'
      BY <1>2, <3>1, <3>4 DEF Leaves
    <3> QED
      BY <2>3, <3>2, <3>6, <3>7 DEF Stage, Holds, Leaves, Running
  <2>4. CASE q # r
    <3>1. auth'[q] = auth[q] /\ active # q
      BY <1>2, <2>4
    <3>2. Stage(q)'
      BY <2>1, <2>2, <3>1 DEF Stage
    <3>3. Holds(q)'
      BY <1>2, <1>4, <2>1, <2>2, <3>1 DEF Holds
    <3>4. \A p \in Partitions : handler[p] # q => handler'[p] # q
      BY <1>2, <1>4
    <3>5. q \notin listening => q \notin listening'
      BY <1>2
    <3>6. Leaves(q)'
      BY <2>1, <3>1, <3>4, <3>5 DEF Leaves
    <3> QED
      BY <3>2, <3>3, <3>6
  <2> QED
    BY <2>3, <2>4
<1>6. \A q \in Requests : ~Running(q)' /\ auth'[q].phase # "active"
  BY <1>2, <1>4, <1>5 DEF Running, Stage
<1>7. QuietInv' /\ KnownInv' /\ FinalInv' /\ PursuedInv'
  BY <1>2, <1>6 DEF QuietInv, KnownInv, FinalInv, PursuedInv, AtFinal, NoCookies
<1>8. HeadersReachTheRequest'
  BY <1>2 DEF HeadersReachTheRequest
<1>9. RequestInv'
  BY <1>5 DEF RequestInv
<1> QED
  BY <1>3, <1>7, <1>8, <1>9

-----------------------------------------------------------------------------
(* What steps keep that do not end a request. *)

\* Cookies are only known, and calls only under way, for the request that runs.
LEMMA WhoRuns ==
    ASSUME BrowserInv,
           \/ \E s \in Slots : Live(s)
           \/ \E w \in Windows : completion[w] # None
           \/ active \in listening
           \/ active \in Requests /\ \E w \in Windows : IsOpen(active, w)
    PROVE  active \in Requests /\ Running(active)
<1>1. active \in Requests => (active \in listening => Running(active))
  BY DEF BrowserInv, RequestInv, Holds, Running
<1>2. active \in Requests /\ (\E w \in Windows : IsOpen(active, w)) => Running(active)
  BY DEF BrowserInv, RequestInv, Holds, Running, IsOpen
<1>3. active \in listening => active \in Requests
  BY DEF BrowserInv, TypeOK
<1>4. ASSUME (\E s \in Slots : Live(s)) \/ (\E w \in Windows : completion[w] # None)
      PROVE  active \in Requests /\ Running(active)
  <2>1. PICK r \in Requests : Running(r)
    BY <1>4 DEF BrowserInv, QuietInv, Live
  <2> QED
    BY <2>1 DEF Running
<1> QED
  BY <1>1, <1>2, <1>3, <1>4

LEMMA OneRuns ==
    ASSUME NEW r, NEW q, Running(r), Running(q) PROVE r = q
BY DEF Running

\* The requests are as they were; a window opens only beside an open one.
LEMMA SameRequests ==
    ASSUME BrowserInv, UNCHANGED <<active, auth, listening, handler>>,
           \A q \in Requests : auth[q].opening # "opened" =>
              \A w \in Windows : page[q][w] = "closed" => page'[q][w] = "closed"
    PROVE  /\ RequestInv' /\ HeadersReachTheRequest'
           /\ \A q \in Requests : Running(q)' <=> Running(q)
<1>1. ASSUME NEW q \in Requests PROVE (Stage(q) /\ Holds(q) /\ Leaves(q))' /\ (Running(q)' <=> Running(q))
  <2>1. Stage(q) /\ Holds(q) /\ Leaves(q)
    BY DEF BrowserInv, RequestInv
  <2>2. Running(q)' <=> Running(q)
    BY DEF Running
  <2>3. Stage(q)'
    BY <2>1 DEF Stage
  <2>4. Holds(q)'
    BY <2>1, <2>2 DEF Holds
  <2>5. Leaves(q)'
    BY <2>1 DEF Leaves
  <2> QED
    BY <2>2, <2>3, <2>4, <2>5
<1>2. HeadersReachTheRequest'
  BY DEF BrowserInv, HeadersReachTheRequest
<1>3. RequestInv'
  BY <1>1 DEF RequestInv
<1> QED
  BY <1>1, <1>2, <1>3

\* What is known stays so while the calls follow and every change is announced.
LEMMA KnownStays ==
    ASSUME BrowserInv, UNCHANGED candidates,
           \A q \in Requests : Running(q)' =>
              Running(q) /\ auth'[q].ask = auth[q].ask /\ auth'[q].storage = auth[q].storage,
           \A s \in Slots : gets'[s] # None => Follows(gets'[s], s),
           \A p \in Partitions, c \in Cookies :
              /\ Announced(p, c) => Announced(p, c)'
              /\ jar'[p][c] # jar[p][c] => Announced(p, c)'
    PROVE  KnownInv'
<1> SUFFICES ASSUME NEW r \in Requests, Running(r)'
             PROVE  (CandidatesAreSure(r) /\ ChangesAreSure(r) /\ AnswersAreSure(r))'
  BY DEF KnownInv
<1>1. /\ CandidatesAreSure(r) /\ ChangesAreSure(r) /\ AnswersAreSure(r)
      /\ auth'[r].ask = auth[r].ask /\ auth'[r].storage = auth[r].storage
      /\ auth[r].storage \in Partitions
  <2>1. Running(r) /\ auth'[r].ask = auth[r].ask /\ auth'[r].storage = auth[r].storage
    OBVIOUS
  <2>2. auth[r].phase = "active"
    BY <2>1 DEF BrowserInv, RequestInv, Stage, Running
  <2> QED
    BY <2>1, <2>2 DEF BrowserInv, KnownInv, RequestInv, Stage
<1>2. ASSUME NEW c \in Cookies, NEW value, Sure(r, c, value)
      PROVE  value = jar'[auth'[r].storage][c] \/ Announced(auth[r].storage, c)'
  BY <1>1, <1>2 DEF Sure, Announced
<1>3. CandidatesAreSure(r)'
  BY <1>1, <1>2 DEF CandidatesAreSure, Sure, Wanted
<1>4. gets \in [Slots -> Gets \cup {None}] /\ \A s \in Slots : Live(s) => gets[s].changed \subseteq Cookies
  BY DEF BrowserInv, TypeOK, Gets, Live
<1>5. ChangesAreSure(r)'
  <2> SUFFICES ASSUME NEW s \in Slots, Live(s)', NEW c \in gets'[s].changed
               PROVE  (c \in Wanted(auth[r].ask) /\ Sure(r, c, candidates[c]))'
    BY DEF ChangesAreSure
  <2>1. Live(s) /\ gets'[s].changed = gets[s].changed
    BY DEF Live, Follows
  <2>2. c \in Cookies /\ c \in Wanted(auth[r].ask) /\ Sure(r, c, candidates[c])
    BY <1>1, <1>4, <2>1 DEF ChangesAreSure
  <2> QED
    BY <1>1, <1>2, <2>2 DEF Sure, Wanted
<1>6. AnswersAreSure(r)'
  <2> SUFFICES ASSUME NEW s \in Slots, Live(s)', gets'[s].seen # None, NEW c \in Cookies
               PROVE  (/\ gets[s].seen[c] # None => c \in AskedFor(r, gets[s])
                       /\ c \in AskedFor(r, gets[s]) \ gets[s].changed => Sure(r, c, gets[s].seen[c]))'
    BY DEF AnswersAreSure
  <2>1. /\ Live(s) /\ gets'[s].seen = gets[s].seen /\ gets'[s].changed = gets[s].changed
        /\ gets'[s].token = "none" <=> gets[s].token = "none"
    BY DEF Live, Follows
  <2>2. /\ gets[s].seen[c] # None => c \in AskedFor(r, gets[s])
        /\ c \in AskedFor(r, gets[s]) \ gets[s].changed => Sure(r, c, gets[s].seen[c])
    BY <1>1, <2>1 DEF AnswersAreSure
  <2>3. (c \in AskedFor(r, gets[s]))' <=> c \in AskedFor(r, gets[s])
    BY <1>1, <2>1 DEF AskedFor, Wanted
  <2> QED
    BY <1>2, <2>1, <2>2, <2>3 DEF Sure
<1> QED
  BY <1>3, <1>5, <1>6

-----------------------------------------------------------------------------
(* The windows. *)

Shows == Pages \cup {"closed", "loading"}

LEMMA PageFacts ==
    ASSUME TypeOK, NEW r \in Requests, NEW w \in Windows, NEW shown \in Shows,
           page' = [page EXCEPT ![r][w] = shown]
    PROVE  /\ page' \in [Requests -> [Windows -> Shows]]
           /\ page'[r][w] = shown
           /\ \A q \in Requests, v \in Windows : q # r \/ v # w => page'[q][v] = page[q][v]
<1>1. page \in [Requests -> [Windows -> Shows]]
  BY DEF TypeOK, Shows
<1>2. page' = [page EXCEPT ![r] = [page[r] EXCEPT ![w] = shown]]
  BY <1>1
<1>3. [page[r] EXCEPT ![w] = shown] \in [Windows -> Shows]
  BY <1>1
<1> QED
  BY <1>1, <1>2, <1>3

\* Steps that leave the jar, its events and the candidates alone.
LEMMA StepOfRunning ==
    ASSUME BrowserInv, UNCHANGED <<active, auth, candidates, listening, handler, jar, pending>>,
           collected' \subseteq Headers, page' \in [Requests -> [Windows -> Shows]],
           completion' \in [Windows -> {None, "idle", "timer"}],
           gets' \in [Slots -> Gets \cup {None}],
           \A q \in Requests : auth[q].opening # "opened" =>
              \A w \in Windows : page[q][w] = "closed" => page'[q][w] = "closed",
           \A s \in Slots : gets'[s] # None => Follows(gets'[s], s),
           UNCHANGED <<completion, gets>> \/ \E q \in Requests : Running(q),
           FinalInv', PursuedInv'
    PROVE  BrowserInv'
<1>1. RequestInv' /\ HeadersReachTheRequest' /\ \A q \in Requests : Running(q)' <=> Running(q)
  BY SameRequests
<1>2. \A p \in Partitions, c \in Cookies : Announced(p, c)' <=> Announced(p, c)
  BY DEF Announced
<1>3. KnownInv'
  BY <1>1, <1>2, KnownStays
<1>4. TypeOK'
  BY DEF BrowserInv, TypeOK, Shows
<1>5. JarInv'
  BY DEF BrowserInv, JarInv
<1>6. QuietInv'
  BY <1>1 DEF BrowserInv, QuietInv
<1> QED
  BY <1>1, <1>3, <1>4, <1>5, <1>6 DEF BrowserInv

LEMMA CallsFollow ==
    ASSUME UNCHANGED gets PROVE \A s \in Slots : gets'[s] # None => Follows(gets'[s], s)
BY DEF Follows, Live

\* A window that shows no page now, of the request that runs or of another.
LEMMA LeavesPageStep ==
    ASSUME BrowserInv, NEW r \in Requests, NEW w \in Windows, NEW shown \in {"closed", "loading"},
           IsOpen(r, w), page' = [page EXCEPT ![r][w] = shown], ClearCompletion(r, w),
           UNCHANGED <<active, auth, candidates, collected, listening, handler, jar, pending>>
    PROVE  BrowserInv'
<1>1. /\ page' \in [Requests -> [Windows -> Shows]] /\ page'[r][w] = shown
      /\ \A q \in Requests, v \in Windows : q # r \/ v # w => page'[q][v] = page[q][v]
  <2>1. TypeOK /\ shown \in Shows
    BY DEF Shows, BrowserInv
  <2> QED
    BY <2>1, PageFacts
<1>2. auth[r].opening = "opened"
  BY DEF BrowserInv, RequestInv, Holds, IsOpen
<1>3. /\ completion \in [Windows -> {None, "idle", "timer"}] /\ gets \in [Slots -> Gets \cup {None}]
      /\ collected \subseteq Headers
  BY DEF BrowserInv, TypeOK
<1>4. \A q \in Requests, v \in Windows, c \in Cookies :
        AtFinal(q, v, c)' => AtFinal(q, v, c) /\ (q # r \/ v # w)
  BY <1>1 DEF AtFinal
<1>5. \A p \in Partitions, c \in Cookies : Announced(p, c)' <=> Announced(p, c)
  BY DEF Announced
<1>6. CASE active = r
  <2>1. /\ completion' = [completion EXCEPT ![w] = None] /\ gets' = Cleared(w)
    BY <1>6 DEF ClearCompletion
  <2>2. /\ gets' \in [Slots -> Gets \cup {None}]
        /\ \A s \in Slots :
             /\ gets'[s] = None <=> gets[s] = None
             /\ Live(s) => /\ gets'[s].seen = gets[s].seen /\ gets'[s].changed = gets[s].changed
                           /\ gets'[s].token = IF gets[s].token = w THEN "stale" ELSE gets[s].token
    BY <1>3, <2>1, ClearedFacts
  <2>3. \A s \in Slots : gets'[s] # None => Follows(gets'[s], s)
    BY <2>2, NothingAssumption DEF Follows, Live
  <2>4. Running(r)
    BY <1>2, <1>6 DEF Running
  <2>5. FinalInv'
    <3> SUFFICES ASSUME NEW q \in Requests, Running(q)'
                 PROVE  /\ \A s \in Slots : Live(s)' /\ gets'[s].token \in Windows =>
                              page'[q][gets'[s].token] = "final"
                        /\ \A v \in Windows : completion'[v] # None => page'[q][v] = "final"
                        /\ \A v \in Windows : page'[q][v] = "final" /\ auth'[q].ask.cookies # {} =>
                              completion'[v] # None
      BY DEF FinalInv
    <3>1. q = r
      BY <1>6 DEF Running
    <3>2. /\ \A s \in Slots : Live(s) /\ gets[s].token \in Windows => page[r][gets[s].token] = "final"
          /\ \A v \in Windows : completion[v] # None => page[r][v] = "final"
          /\ \A v \in Windows : page[r][v] = "final" /\ auth[r].ask.cookies # {} =>
                completion[v] # None
      BY <2>4 DEF BrowserInv, FinalInv
    <3>3. \A s \in Slots : Live(s)' /\ gets'[s].token \in Windows => page'[r][gets'[s].token] = "final"
      BY <1>1, <2>2, <3>2, NothingAssumption DEF Live
    <3>4. \A v \in Windows : completion'[v] = IF v = w THEN None ELSE completion[v]
      BY <1>3, <2>1
    <3> QED
      BY <1>1, <3>1, <3>2, <3>3, <3>4
  <2>6. PursuedInv'
    <3> SUFFICES ASSUME NEW q \in Requests, NEW v \in Windows, NEW c \in Cookies, AtFinal(q, v, c)'
                 PROVE  (\/ \E s \in Slots : Live(s) /\ gets[s].token = v
                         \/ completion[v] = "timer"
                         \/ Announced(auth[q].storage, c))'
      BY DEF PursuedInv
    <3>1. AtFinal(q, v, c) /\ q = active
      BY <1>4 DEF AtFinal, BrowserInv, RequestInv, Stage
    <3>2. v # w
      BY <1>4, <1>6, <3>1
    <3>3. CASE \E s \in Slots : Live(s) /\ gets[s].token = v
      BY <2>2, <3>2, <3>3 DEF Live
    <3>4. CASE completion[v] = "timer"
      BY <1>3, <2>1, <3>2, <3>4
    <3>5. CASE Announced(auth[q].storage, c)
      BY <3>5 DEF Announced
    <3> QED
      BY <3>1, <3>3, <3>4, <3>5 DEF BrowserInv, PursuedInv
  <2> QED
    BY <1>1, <1>2, <1>3, <2>1, <2>2, <2>3, <2>4, <2>5, <2>6, StepOfRunning
<1>7. CASE active # r
  <2>1. UNCHANGED <<completion, gets>>
    BY <1>7 DEF ClearCompletion
  <2>2. \A q \in Requests : Running(q)' => Running(q) /\ q # r
    BY <1>7 DEF Running
  <2>3. FinalInv'
    BY <1>1, <2>1, <2>2 DEF BrowserInv, FinalInv, Live
  <2>4. PursuedInv'
    BY <1>4, <1>5, <2>1 DEF BrowserInv, PursuedInv, Live, Announced
  <2> QED
    BY <1>1, <1>2, <1>3, <2>1, <2>3, <2>4, CallsFollow, StepOfRunning
<1> QED
  BY <1>6, <1>7

LEMMA OpensPopupStep ==
    ASSUME BrowserInv, NEW r \in Requests, NEW w \in Windows, OpensPopup(r, w) PROVE BrowserInv'
<1>1. PICK v \in Windows : ~IsOpen(r, v) /\ page' = [page EXCEPT ![r][v] = "loading"]
  BY DEF OpensPopup
<1>2. /\ page' \in [Requests -> [Windows -> Shows]] /\ page'[r][v] = "loading"
      /\ \A q \in Requests, u \in Windows : q # r \/ u # v => page'[q][u] = page[q][u]
  <2>1. TypeOK /\ "loading" \in Shows
    BY DEF Shows, BrowserInv
  <2> QED
    BY <1>1, <2>1, PageFacts
<1>3. auth[r].opening = "opened"
  BY DEF BrowserInv, RequestInv, Holds, IsOpen, OpensPopup
<1>4. UNCHANGED <<active, auth, completion, candidates, collected, gets,
                  listening, handler, jar, pending>>
  BY DEF OpensPopup
<1>5. \A q \in Requests, u \in Windows : page'[q][u] = "final" <=> page[q][u] = "final"
  BY <1>1, <1>2 DEF IsOpen
<1>6. FinalInv'
  BY <1>4, <1>5 DEF BrowserInv, FinalInv, Live, Running
<1>7. PursuedInv'
  BY <1>4, <1>5 DEF BrowserInv, PursuedInv, Live, AtFinal, Announced
<1>8. /\ completion \in [Windows -> {None, "idle", "timer"}] /\ gets \in [Slots -> Gets \cup {None}]
      /\ collected \subseteq Headers
  BY DEF BrowserInv, TypeOK
<1> QED
  BY <1>2, <1>3, <1>4, <1>6, <1>7, <1>8, CallsFollow, StepOfRunning

\* A load ends: at the final page its completion begins.
LEMMA FinishLoadStep ==
    ASSUME BrowserInv, NEW r \in Requests, NEW w \in Windows, NEW url \in Pages,
           FinishLoad(r, w, url)
    PROVE  BrowserInv'
<1>1. /\ page' \in [Requests -> [Windows -> Shows]] /\ page'[r][w] = url
      /\ \A q \in Requests, v \in Windows : q # r \/ v # w => page'[q][v] = page[q][v]
  <2>1. TypeOK /\ url \in Shows
    BY DEF Shows, BrowserInv, Pages
  <2>2. page' = [page EXCEPT ![r][w] = url]
    BY DEF FinishLoad
  <2> QED
    BY <2>1, <2>2, PageFacts
<1>2. auth[r].opening = "opened" /\ page[r][w] = "loading"
  BY DEF BrowserInv, RequestInv, Holds, FinishLoad
<1>3. /\ completion \in [Windows -> {None, "idle", "timer"}] /\ gets \in [Slots -> Gets \cup {None}]
      /\ collected \subseteq Headers
  BY DEF BrowserInv, TypeOK
<1>4. UNCHANGED <<active, auth, candidates, collected, listening, handler, jar, pending>>
  BY DEF FinishLoad
<1>5. \A p \in Partitions, c \in Cookies : Announced(p, c)' <=> Announced(p, c)
  BY <1>4 DEF Announced
<1>6. ASSUME NEW q \in Requests, NEW v \in Windows, NEW c \in Cookies,
             AtFinal(q, v, c)', q # r \/ v # w
      PROVE  AtFinal(q, v, c)
  BY <1>1, <1>4, <1>6 DEF AtFinal
<1>7. CASE active = r /\ auth[r].ask.cookies # {}
  <2> DEFINE token == IF url = "final" THEN w ELSE "none"
  <2>1. /\ completion' = [completion EXCEPT ![w] = IF url = "final" THEN "idle" ELSE None]
        /\ Capture(Cleared(w), token)
    BY <1>7 DEF FinishLoad
  <2>2. /\ Cleared(w) \in [Slots -> Gets \cup {None}]
        /\ \A s \in Slots :
             /\ Cleared(w)[s] = None <=> gets[s] = None
             /\ Live(s) => /\ Cleared(w)[s].seen = gets[s].seen
                           /\ Cleared(w)[s].changed = gets[s].changed
                           /\ Cleared(w)[s].token = IF gets[s].token = w THEN "stale"
                                                    ELSE gets[s].token
    BY <1>3, ClearedFacts
  <2>3. token \in Windows \cup {"stale", "none"} /\ (token \in Windows <=> url = "final")
        /\ (url = "final" => token = w)
    BY NothingAssumption
  <2> HIDE DEF token
  <2> DEFINE calls == Cleared(w)
  <2>4. calls \in [Slots -> Gets \cup {None}] /\ Capture(calls, token)
    BY <2>1, <2>2
  <2> HIDE DEF calls
  <2>5. /\ gets' \in [Slots -> Gets \cup {None}]
        /\ \E n \in Slots :
             /\ calls[n] = None /\ gets'[n] # None
             /\ gets'[n].token = token /\ gets'[n].seen = None /\ gets'[n].changed = {}
             /\ \A t \in Slots \ {n} : gets'[t] = calls[t]
    BY <2>4, <2>3, CaptureFacts
  <2>6. gets' \in [Slots -> Gets \cup {None}]
    BY <2>5
  <2>7. PICK n \in Slots :
          /\ Cleared(w)[n] = None /\ gets'[n] # None
          /\ gets'[n].token = token /\ gets'[n].seen = None /\ gets'[n].changed = {}
          /\ \A t \in Slots \ {n} : gets'[t] = Cleared(w)[t]
    BY <2>5 DEF calls
  <2>8. \A s \in Slots : gets'[s] # None => Follows(gets'[s], s)
    BY <2>2, <2>7, NothingAssumption DEF Follows, Live
  <2>9. Running(r)
    BY <1>2, <1>7 DEF Running
  <2>10. /\ \A s \in Slots : Live(s) /\ gets[s].token \in Windows => page[r][gets[s].token] = "final"
         /\ \A v \in Windows : completion[v] # None => page[r][v] = "final"
         /\ \A v \in Windows : page[r][v] = "final" /\ auth[r].ask.cookies # {} =>
               completion[v] # None
    BY <2>9 DEF BrowserInv, FinalInv
  <2>11. \A v \in Windows : completion'[v] = IF v = w THEN IF url = "final" THEN "idle" ELSE None
                                             ELSE completion[v]
    BY <1>3, <2>1
  <2>12. completion' \in [Windows -> {None, "idle", "timer"}]
    BY <1>3, <2>1
  <2>13. FinalInv'
    <3> SUFFICES ASSUME NEW q \in Requests, Running(q)'
                 PROVE  /\ \A s \in Slots : Live(s)' /\ gets'[s].token \in Windows =>
                              page'[q][gets'[s].token] = "final"
                        /\ \A v \in Windows : completion'[v] # None => page'[q][v] = "final"
                        /\ \A v \in Windows : page'[q][v] = "final" /\ auth'[q].ask.cookies # {} =>
                              completion'[v] # None
      BY DEF FinalInv
    <3>1. q = r
      BY <1>4, <1>7 DEF Running
    <3>2. ASSUME NEW s \in Slots, Live(s)', gets'[s].token \in Windows
          PROVE  page'[r][gets'[s].token] = "final"
      <4>1. CASE s = n
        BY <1>1, <2>3, <2>7, <3>2, <4>1
      <4>2. CASE s # n
        <5>1. gets'[s] = Cleared(w)[s] /\ Live(s)
          BY <2>2, <2>7, <3>2, <4>2 DEF Live
        <5>2. gets[s].token = gets'[s].token /\ gets[s].token # w
          BY <2>2, <3>2, <5>1, NothingAssumption
        <5> QED
          BY <1>1, <2>10, <3>2, <5>1, <5>2
      <4> QED
        BY <4>1, <4>2
    <3>3. None # "idle"
      BY NothingAssumption
    <3>4. \A v \in Windows : completion'[v] # None => page'[r][v] = "final"
      BY <1>1, <2>10, <2>11
    <3>5. ASSUME NEW v \in Windows, page'[r][v] = "final" PROVE completion'[v] # None
      <4>1. CASE v = w
        BY <1>1, <2>11, <3>3, <3>5, <4>1
      <4>2. CASE v # w
        <5>1. page[r][v] = "final"
          BY <1>1, <3>5, <4>2
        <5>2. completion[v] # None
          BY <1>7, <2>10, <5>1
        <5>3. completion'[v] = completion[v]
          BY <2>11, <4>2
        <5> QED
          BY <5>2, <5>3
      <4> QED
        BY <4>1, <4>2
    <3> QED
      BY <3>1, <3>2, <3>4, <3>5
  <2>14. PursuedInv'
    <3> SUFFICES ASSUME NEW q \in Requests, NEW v \in Windows, NEW c \in Cookies, AtFinal(q, v, c)'
                 PROVE  (\/ \E s \in Slots : Live(s) /\ gets[s].token = v
                         \/ completion[v] = "timer"
                         \/ Announced(auth[q].storage, c))'
      BY DEF PursuedInv
    <3>1. CASE q = r /\ v = w
      <4>1. url = "final"
        BY <1>1, <3>1 DEF AtFinal
      <4> QED
        BY <2>3, <2>7, <3>1, <4>1 DEF Live
    <3>2. CASE q # r \/ v # w
      <4>1. AtFinal(q, v, c)
        BY <1>6, <3>2
      <4>2. q = r /\ v # w
        BY <1>7, <3>2, <4>1 DEF AtFinal, BrowserInv, RequestInv, Stage
      <4>3. CASE \E s \in Slots : Live(s) /\ gets[s].token = v
        <5>1. PICK s \in Slots : Live(s) /\ gets[s].token = v
          BY <4>3
        <5>2. s # n /\ gets'[s] = Cleared(w)[s] /\ Cleared(w)[s] # None /\ Cleared(w)[s].token = v
          BY <2>2, <2>7, <4>2, <5>1 DEF Live
        <5> QED
          BY <5>2 DEF Live
      <4>4. CASE completion[v] = "timer"
        BY <2>11, <4>2, <4>4
      <4>5. CASE Announced(auth[q].storage, c)
        BY <1>4, <4>5 DEF Announced
      <4> QED
        BY <4>1, <4>3, <4>4, <4>5 DEF BrowserInv, PursuedInv
    <3> QED
      BY <3>1, <3>2
  <2> QED
    BY <1>1, <1>2, <1>3, <1>4, <2>6, <2>8, <2>9, <2>12, <2>13, <2>14, StepOfRunning
<1>8. CASE ~(active = r /\ auth[r].ask.cookies # {})
  <2>1. UNCHANGED <<completion, gets>>
    BY <1>8 DEF FinishLoad
  <2>2. FinalInv'
    <3> SUFFICES ASSUME NEW q \in Requests, Running(q)'
                 PROVE  /\ \A s \in Slots : Live(s)' /\ gets'[s].token \in Windows =>
                              page'[q][gets'[s].token] = "final"
                        /\ \A v \in Windows : completion'[v] # None => page'[q][v] = "final"
                        /\ \A v \in Windows : page'[q][v] = "final" /\ auth'[q].ask.cookies # {} =>
                              completion'[v] # None
      BY DEF FinalInv
    <3>1. Running(q) /\ (q = r => auth[r].ask.cookies = {})
      BY <1>4, <1>8 DEF Running
    <3>2. /\ \A s \in Slots : Live(s) /\ gets[s].token \in Windows => page[q][gets[s].token] = "final"
          /\ \A v \in Windows : completion[v] # None => page[q][v] = "final"
          /\ \A v \in Windows : page[q][v] = "final" /\ auth[q].ask.cookies # {} =>
                completion[v] # None
      BY <3>1 DEF BrowserInv, FinalInv
    <3>3. \A v \in Windows : page[q][v] = "final" => page'[q][v] = "final"
      BY <1>1, <1>2
    <3>4. \A v \in Windows : page'[q][v] = "final" /\ auth[q].ask.cookies # {} => page[q][v] = "final"
      BY <1>1, <3>1
    <3> QED
      BY <1>4, <2>1, <3>2, <3>3, <3>4 DEF Live
  <2>3. PursuedInv'
    <3> SUFFICES ASSUME NEW q \in Requests, NEW v \in Windows, NEW c \in Cookies, AtFinal(q, v, c)'
                 PROVE  (\/ \E s \in Slots : Live(s) /\ gets[s].token = v
                         \/ completion[v] = "timer"
                         \/ Announced(auth[q].storage, c))'
      BY DEF PursuedInv
    <3>1. q # r
      BY <1>4, <1>8 DEF AtFinal, BrowserInv, RequestInv, Stage
    <3>2. AtFinal(q, v, c)
      BY <1>6, <3>1
    <3> QED
      BY <1>4, <2>1, <3>2 DEF BrowserInv, PursuedInv, Live, Announced
  <2> QED
    BY <1>1, <1>2, <1>3, <1>4, <2>1, <2>2, <2>3, CallsFollow, StepOfRunning
<1> QED
  BY <1>7, <1>8

-----------------------------------------------------------------------------
(* Steps that may end the request. *)

LEMMA FinishInPlace ==
    ASSUME BrowserInv, NEW r \in Requests, active = r, NEW answer \in Answers, Finish(r, answer),
           UNCHANGED <<page, jar, pending>>
    PROVE  BrowserInv'
<1>1. /\ page' \in [Requests -> [Windows -> Pages \cup {"closed", "loading"}]]
      /\ pending' \in [Partitions -> Seq(Events)]
  BY DEF BrowserInv, TypeOK
<1>2. JarInv'
  BY DEF BrowserInv, JarInv
<1> QED
  BY <1>1, <1>2, FinishStep

LEMMA CancelStep ==
    ASSUME BrowserInv, NEW r \in Requests, Cancel(r) PROVE BrowserInv'
BY FinishInPlace DEF Cancel, Answers

LEMMA EndsStep ==
    ASSUME BrowserInv, NEW r \in Requests, NEW answer \in Answers, Ends(r, answer)
    PROVE  BrowserInv'
<1>1. active = r
  BY DEF BrowserInv, RequestInv, Stage, Ends
<1> QED
  BY <1>1, FinishInPlace DEF Ends

LEMMA ClosesStep ==
    ASSUME BrowserInv, NEW r \in Requests, NEW w \in Windows, Closes(r, w) PROVE BrowserInv'
<1>1. IsOpen(r, w) /\ page' = [page EXCEPT ![r][w] = "closed"] /\ UNCHANGED <<jar, pending>>
  BY DEF Closes
<1>2. CASE w = Root /\ auth[r].phase = "active"
  <2>1. active = r /\ Finish(r, "canceled") /\ "canceled" \in Answers
    BY <1>2 DEF Closes, Answers, BrowserInv, RequestInv, Stage
  <2>2. TypeOK /\ "closed" \in Shows
    BY DEF BrowserInv, Shows
  <2>3. /\ page' \in [Requests -> [Windows -> Shows]] /\ page'[r][w] = "closed"
        /\ \A q \in Requests, v \in Windows : q # r \/ v # w => page'[q][v] = page[q][v]
    BY <1>1, <2>2, PageFacts
  <2>4. page' \in [Requests -> [Windows -> Pages \cup {"closed", "loading"}]]
    BY <2>3 DEF Shows
  <2>5. \A q \in Requests, v \in Windows : page[q][v] = "closed" => page'[q][v] = "closed"
    BY <2>3
  <2>6. pending' \in [Partitions -> Seq(Events)]
    BY <1>1 DEF BrowserInv, TypeOK
  <2>7. JarInv'
    BY <1>1 DEF BrowserInv, JarInv
  <2> QED
    BY <1>1, <2>1, <2>4, <2>5, <2>6, <2>7, FinishStep
<1>3. CASE ~(w = Root /\ auth[r].phase = "active")
  <2>1. ClearCompletion(r, w) /\ UNCHANGED <<active, auth, candidates, collected, listening, handler>>
    BY <1>3 DEF Closes
  <2> QED
    BY <1>1, <2>1, LeavesPageStep
<1> QED
  BY <1>2, <1>3

LEMMA NavigatesStep ==
    ASSUME BrowserInv, NEW r \in Requests, NEW w \in Windows, Navigates(r, w) PROVE BrowserInv'
BY LeavesPageStep DEF Navigates

\* The headers so far are kept, or they end the request that asks for them.
LEMMA HeadersReceivedStep ==
    ASSUME BrowserInv, NEW r \in Requests, NEW w \in Windows, NEW broken \in BOOLEAN,
           NEW names \in SUBSET Headers, HeadersReceived(r, w, broken, names)
    PROVE  BrowserInv'
<1> DEFINE h   == handler[auth[r].storage]
           all == collected \cup names
<1>1. auth[r].storage \in Partitions
  BY DEF HeadersReceived, BrowserInv, RequestInv, Stage, Holds
<1>2. h \in Requests /\ active = h
  <2>1. h \in Requests
    BY <1>1 DEF HeadersReceived, BrowserInv, TypeOK
  <2> QED
    BY <2>1 DEF HeadersReceived, BrowserInv, RequestInv, Stage
<1>3. UNCHANGED <<page, jar, pending>>
  BY DEF HeadersReceived
<1>4. \/ Finish(h, "failed") \/ Finish(h, "headers")
      \/ /\ collected' = all
         /\ UNCHANGED <<active, auth, completion, candidates, gets, listening, handler>>
  BY DEF HeadersReceived
<1>5. CASE Finish(h, "failed") \/ Finish(h, "headers")
  <2> HIDE DEF h
  <2>1. "failed" \in Answers /\ "headers" \in Answers
    BY DEF Answers
  <2> QED
    BY <1>2, <1>3, <1>5, <2>1, FinishInPlace
<1>6. CASE /\ collected' = all
           /\ UNCHANGED <<active, auth, completion, candidates, gets, listening, handler>>
  <2>1. /\ collected' \subseteq Headers /\ page' \in [Requests -> [Windows -> Shows]]
        /\ completion' \in [Windows -> {None, "idle", "timer"}]
        /\ gets' \in [Slots -> Gets \cup {None}]
    BY <1>3, <1>6 DEF BrowserInv, TypeOK, Shows
  <2>2. FinalInv'
    BY <1>3, <1>6 DEF BrowserInv, FinalInv, Live, Running
  <2>3. PursuedInv'
    BY <1>3, <1>6 DEF BrowserInv, PursuedInv, Live, AtFinal, Announced
  <2> QED
    BY <1>3, <1>6, <2>1, <2>2, <2>3, CallsFollow, StepOfRunning
<1> QED
  BY <1>4, <1>5, <1>6

-----------------------------------------------------------------------------
(* The jar changes, and requests read and remove what is in it. *)

\* A request is as it was, or has read what it removes.
GoesOn(r) ==
    /\ auth'[r].phase = auth[r].phase /\ auth'[r].ended = auth[r].ended
    /\ auth'[r].ask = auth[r].ask /\ auth'[r].storage = auth[r].storage
    /\ \/ auth'[r].opening = auth[r].opening
       \/ auth[r].opening = "reading" /\ auth'[r].opening = "clearing"

LEMMA RequestsGoOn ==
    ASSUME BrowserInv, UNCHANGED <<active, page, listening, handler>>,
           \A r \in Requests : GoesOn(r)
    PROVE  /\ RequestInv' /\ HeadersReachTheRequest'
           /\ \A r \in Requests : Running(r)' <=> Running(r)
<1>1. ASSUME NEW q \in Requests
      PROVE  (Stage(q) /\ Holds(q) /\ Leaves(q))' /\ (Running(q)' <=> Running(q))
  <2>1. Stage(q) /\ Holds(q) /\ Leaves(q) /\ GoesOn(q)
    BY DEF BrowserInv, RequestInv
  <2>2. Running(q)' <=> Running(q)
    BY <2>1 DEF Running, GoesOn
  <2>3. Stage(q)'
    BY <2>1 DEF Stage, GoesOn
  <2>4. Holds(q)'
    BY <2>1, <2>2 DEF Holds, GoesOn
  <2>5. Leaves(q)'
    BY <2>1 DEF Leaves, GoesOn
  <2> QED
    BY <2>2, <2>3, <2>4, <2>5
<1>2. HeadersReachTheRequest'
  <2> SUFFICES ASSUME active # None, auth'[active].opening = "opened"
               PROVE  \/ handler'[auth'[active].storage] = active
                      \/ \E r \in Requests :
                           /\ auth'[r].phase = "done" /\ handler'[auth'[active].storage] = r
                           /\ auth'[r].ended \in {"reading", "clearing"}
    BY DEF HeadersReachTheRequest
  <2>1. active \in Requests
    BY DEF BrowserInv, TypeOK
  <2>2. auth[active].opening = "opened" /\ auth'[active].storage = auth[active].storage
    BY <2>1 DEF GoesOn
  <2>3. \A r \in Requests : auth'[r].phase = auth[r].phase /\ auth'[r].ended = auth[r].ended
    BY DEF GoesOn
  <2> QED
    BY <2>2, <2>3 DEF BrowserInv, HeadersReachTheRequest
<1>3. RequestInv'
  BY <1>1 DEF RequestInv
<1> QED
  BY <1>1, <1>2, <1>3

LEMMA GoesOnStep ==
    ASSUME BrowserInv,
           UNCHANGED <<active, page, completion, candidates, collected, gets, listening, handler>>,
           auth' \in [Requests -> Auths], \A r \in Requests : GoesOn(r),
           jar' \in [Partitions -> [Cookies -> Values \cup {None}]],
           pending' \in [Partitions -> Seq(Events)], JarInv',
           \A p \in Partitions, c \in Cookies :
              /\ Announced(p, c) => Announced(p, c)'
              /\ jar'[p][c] # jar[p][c] => Announced(p, c)'
    PROVE  BrowserInv'
<1>1. RequestInv' /\ HeadersReachTheRequest' /\ \A r \in Requests : Running(r)' <=> Running(r)
  BY RequestsGoOn
<1>2. \A r \in Requests : auth'[r].phase = auth[r].phase /\ auth'[r].ask = auth[r].ask
                          /\ auth'[r].storage = auth[r].storage
  BY DEF GoesOn
<1>3. KnownInv'
  BY <1>1, <1>2, CallsFollow, KnownStays
<1>4. TypeOK'
  BY DEF BrowserInv, TypeOK
<1>5. QuietInv'
  BY <1>1 DEF BrowserInv, QuietInv
<1>6. FinalInv'
  BY <1>1, <1>2 DEF BrowserInv, FinalInv, Live
<1>7. PursuedInv'
  <2> SUFFICES ASSUME NEW r \in Requests, NEW w \in Windows, NEW c \in Cookies, AtFinal(r, w, c)'
               PROVE  (\/ \E s \in Slots : Live(s) /\ gets[s].token = w
                       \/ completion[w] = "timer"
                       \/ Announced(auth[r].storage, c))'
    BY DEF PursuedInv
  <2>1. PICK p \in Partitions : p = auth[r].storage /\ p = auth'[r].storage
    BY <1>2 DEF AtFinal, BrowserInv, RequestInv, Stage
  <2>2. CASE AtFinal(r, w, c)
    <3>1. CASE Announced(auth[r].storage, c)
      <4>1. Announced(p, c)
        BY <2>1, <3>1
      <4>2. Announced(p, c)'
        BY <4>1
      <4> QED
        BY <2>1, <4>2 DEF Announced
    <3>2. CASE ~Announced(auth[r].storage, c)
      BY <2>2, <3>2 DEF BrowserInv, PursuedInv, Live
    <3> QED
      BY <3>1, <3>2
  <2>3. CASE ~AtFinal(r, w, c)
    <3>1. jar'[p][c] # jar[p][c]
      BY <1>2, <2>1, <2>3 DEF AtFinal
    <3>2. Announced(p, c)'
      BY <3>1
    <3> QED
      BY <2>1, <3>2 DEF Announced
  <2> QED
    BY <2>2, <2>3
<1> QED
  BY <1>1, <1>3, <1>4, <1>5, <1>6, <1>7 DEF BrowserInv

LEMMA ReadStaleStep ==
    ASSUME BrowserInv, NEW r \in Requests, ReadStale(r) PROVE BrowserInv'
<1> DEFINE stale == {c \in Wanted(auth[r].ask) : jar[auth[r].storage][c] # None}
           read  == [auth[r] EXCEPT !.opening = "clearing", !.stale = stale]
<1>1. auth \in [Requests -> Auths] /\ stale \in SUBSET Cookies /\ auth[r].opening = "reading"
  BY DEF BrowserInv, TypeOK, ReadStale, Wanted
<1>2. auth' = [auth EXCEPT ![r] = read]
  BY <1>1 DEF ReadStale
<1> HIDE DEF stale
<1>3. /\ read \in Auths /\ read.opening = "clearing" /\ read.phase = auth[r].phase
      /\ read.ended = auth[r].ended /\ read.ask = auth[r].ask /\ read.storage = auth[r].storage
  BY <1>1 DEF Auths, Openings
<1> HIDE DEF read
<1>4. auth' \in [Requests -> Auths] /\ \A q \in Requests : GoesOn(q)
  BY <1>1, <1>2, <1>3 DEF GoesOn
<1>5. UNCHANGED <<active, page, completion, candidates, collected, gets, listening, handler,
                  jar, pending>>
  BY DEF ReadStale
<1>6. /\ jar' \in [Partitions -> [Cookies -> Values \cup {None}]]
      /\ pending' \in [Partitions -> Seq(Events)] /\ JarInv'
  BY <1>5 DEF BrowserInv, TypeOK, JarInv
<1>7. \A p \in Partitions, c \in Cookies :
        /\ Announced(p, c) => Announced(p, c)'
        /\ jar'[p][c] # jar[p][c] => Announced(p, c)'
  BY <1>5 DEF Announced
<1> QED
  BY <1>4, <1>5, <1>6, <1>7, GoesOnStep

LEMMA RemoveStaleStep ==
    ASSUME BrowserInv, NEW r \in Requests, RemoveStale(r) PROVE BrowserInv'
<1>1. PICK c \in auth[r].stale : /\ auth' = [auth EXCEPT ![r].stale = @ \ {c}]
                                 /\ Changed(auth[r].storage, c, None)
  BY DEF RemoveStale
<1> DEFINE stale   == auth[r].stale \ {c}
           removed == [auth[r] EXCEPT !.stale = stale]
<1>2. auth \in [Requests -> Auths] /\ stale \in SUBSET Cookies /\ c \in Cookies
  BY DEF BrowserInv, TypeOK, Auths
<1>3. auth' = [auth EXCEPT ![r] = removed]
  BY <1>1, <1>2
<1> HIDE DEF stale
<1>4. /\ removed \in Auths /\ removed.opening = auth[r].opening /\ removed.phase = auth[r].phase
      /\ removed.ended = auth[r].ended /\ removed.ask = auth[r].ask
      /\ removed.storage = auth[r].storage
  BY <1>2 DEF Auths
<1> HIDE DEF removed
<1>5. auth' \in [Requests -> Auths] /\ \A q \in Requests : GoesOn(q)
  BY <1>2, <1>3, <1>4 DEF GoesOn
<1>6. auth[r].storage \in Partitions
  BY DEF RemoveStale, BrowserInv, RequestInv, Stage
<1>7. TypeOK /\ JarInv /\ None \in Values \cup {None}
  BY DEF BrowserInv
<1>8. /\ jar' \in [Partitions -> [Cookies -> Values \cup {None}]]
      /\ pending' \in [Partitions -> Seq(Events)]
  BY <1>1, <1>2, <1>6, <1>7, ChangedFacts
<1>9. /\ JarInv'
      /\ \A p \in Partitions, d \in Cookies :
           /\ Announced(p, d) => Announced(p, d)'
           /\ jar'[p][d] # jar[p][d] => Announced(p, d)'
  BY <1>1, <1>2, <1>6, <1>7, ChangedKeepsJar
<1>10. UNCHANGED <<active, page, completion, candidates, collected, gets, listening, handler>>
  BY DEF RemoveStale
<1> QED
  BY <1>5, <1>8, <1>9, <1>10, GoesOnStep

LEMMA PageChangesCookieStep ==
    ASSUME BrowserInv, NEW p \in Partitions, PageChangesCookie(p) PROVE BrowserInv'
<1>1. PICK c \in Cookies, value \in Values \cup {None} : Changed(p, c, value)
  BY DEF PageChangesCookie
<1>2. UNCHANGED <<active, auth, page, completion, candidates, collected, gets,
                  listening, handler>>
  BY DEF PageChangesCookie
<1>3. TypeOK /\ JarInv
  BY DEF BrowserInv
<1>4. /\ jar' \in [Partitions -> [Cookies -> Values \cup {None}]]
      /\ pending' \in [Partitions -> Seq(Events)]
  BY <1>1, <1>3, ChangedFacts
<1>5. /\ JarInv'
      /\ \A q \in Partitions, d \in Cookies :
           /\ Announced(q, d) => Announced(q, d)'
           /\ jar'[q][d] # jar[q][d] => Announced(q, d)'
  BY <1>1, <1>3, ChangedKeepsJar
<1>6. auth' \in [Requests -> Auths] /\ \A q \in Requests : GoesOn(q)
  BY <1>2, <1>3 DEF GoesOn, TypeOK
<1> QED
  BY <1>2, <1>4, <1>5, <1>6, GoesOnStep

-----------------------------------------------------------------------------
(* The window opens. *)

\* Window [w] of request [r] begins to load, and nothing else is shown.
Loads(r, w) ==
    /\ page' \in [Requests -> [Windows -> Shows]]
    /\ page'[r][w] = "loading"
    /\ \A q \in Requests, v \in Windows : q # r \/ v # w => page'[q][v] = page[q][v]

LEMMA LoadsFacts ==
    ASSUME TypeOK, NEW r \in Requests, NEW p \in Partitions, Opened(r, p)
    PROVE  Loads(r, Root)
<1>1. "loading" \in Shows /\ Root \in Windows
  BY BrowserAssumption DEF Shows
<1>2. page' = [page EXCEPT ![r][Root] = "loading"]
  BY DEF Opened
<1>3. PICK w \in Windows : w = Root
  BY <1>1
<1>4. page' = [page EXCEPT ![r][w] = "loading"]
  BY <1>2, <1>3
<1>5. Loads(r, w)
  BY <1>1, <1>4, PageFacts DEF Loads
<1> QED
  BY <1>3, <1>5

\* No request ran that is still the active one, or it runs on as it was.
LEMMA OpenedStep ==
    ASSUME BrowserInv, NEW r \in Requests, NEW p \in Partitions, Opened(r, p),
           auth' \in [Requests -> Auths], \A q \in Requests \ {r} : auth'[q] = auth[q],
           auth[r].opening # "opened", auth'[r].opening = "opened",
           auth'[r].storage = p, auth'[r].ask \in RequestTypes,
           \/ auth'[r].phase = "active" /\ active' = r /\ active \in {None, r}
           \/ /\ auth'[r].phase = "done" /\ auth'[r].ended \in {"reading", "clearing"}
              /\ UNCHANGED active /\ active # r,
           UNCHANGED <<completion, candidates, collected, gets, jar, pending>>
    PROVE  BrowserInv'
<1>1. TypeOK /\ "loading" \in Shows
  BY DEF BrowserInv, Shows
<1>2. /\ page' = [page EXCEPT ![r][Root] = "loading"]
      /\ listening' = listening \cup {r} /\ handler' = [handler EXCEPT ![p] = r]
  BY DEF Opened
<1>3. /\ page' \in [Requests -> [Windows -> Shows]] /\ page'[r][Root] = "loading"
      /\ \A q \in Requests, v \in Windows : q # r \/ v # Root => page'[q][v] = page[q][v]
  <2>1. Loads(r, Root)
    BY <1>1, LoadsFacts
  <2> QED
    BY <2>1 DEF Loads
<1>4. /\ handler' \in [Partitions -> Requests \cup {None}]
      /\ \A o \in Partitions : handler'[o] = IF o = p THEN r ELSE handler[o]
  BY <1>1, <1>2 DEF TypeOK
<1>5. active' \in Requests \cup {None} /\ listening' \subseteq Requests
  BY <1>1, <1>2 DEF TypeOK
<1>6. TypeOK'
  BY <1>1, <1>3, <1>4, <1>5 DEF TypeOK, Shows
<1>7. None \notin Requests
  BY NothingAssumption
<1>8. Stage(r) /\ Holds(r) /\ Leaves(r)
  BY DEF BrowserInv, RequestInv
<1>9. (Stage(r) /\ Holds(r) /\ Leaves(r))'
  <2>1. Stage(r)'
    BY <1>7 DEF Stage
  <2>2. \A o \in Partitions : handler'[o] = r => o = p
    BY <1>4, <1>8 DEF Holds
  <2>3. Holds(r)'
    BY <1>2, <2>2 DEF Holds
  <2>4. Leaves(r)'
    BY DEF Leaves
  <2> QED
    BY <2>1, <2>3, <2>4
<1>10. ASSUME NEW q \in Requests, q # r
       PROVE  (Stage(q) /\ Holds(q) /\ Leaves(q))' /\ (Running(q)' <=> Running(q))
  <2>1. Stage(q) /\ Holds(q) /\ Leaves(q) /\ auth'[q] = auth[q]
    BY <1>10 DEF BrowserInv, RequestInv
  <2>2. active' = q <=> active = q
    BY <1>7, <1>10
  <2>3. Running(q)' <=> Running(q)
    BY <2>1, <2>2 DEF Running
  <2>4. Stage(q)'
    BY <2>1, <2>2 DEF Stage
  <2>5. \A o \in Partitions : handler'[o] = q => handler[o] = q
    BY <1>4, <1>10
  <2>6. q \in listening' <=> q \in listening
    BY <1>2, <1>10
  <2>7. \A v \in Windows : page'[q][v] = page[q][v]
    BY <1>3, <1>10
  <2>8. Holds(q)'
    BY <2>1, <2>3, <2>5, <2>6, <2>7 DEF Holds
  <2>9. Leaves(q)'
    BY <2>1, <2>5, <2>6 DEF Leaves
  <2> QED
    BY <2>3, <2>4, <2>8, <2>9
<1>11. RequestInv'
  BY <1>9, <1>10 DEF RequestInv
<1>12. JarInv'
  BY DEF BrowserInv, JarInv
<1>13. CASE auth'[r].phase = "active" /\ active' = r /\ active \in {None, r}
  <2>1. \A q \in Requests : ~Running(q)
    BY <1>7, <1>13 DEF Running
  <2>2. /\ candidates' = NoCookies
        /\ \A s \in Slots : gets'[s] = None
        /\ \A w \in Windows : completion'[w] = None
    BY <2>1 DEF BrowserInv, QuietInv
  <2>3. Running(r)' /\ \A q \in Requests : Running(q)' => q = r
    BY <1>13 DEF Running
  <2>4. \A w \in Windows : page'[r][w] # "final"
    BY <1>3, <1>8 DEF Holds
  <2>5. \A q \in Requests, w \in Windows, c \in Cookies : ~AtFinal(q, w, c)'
    BY <1>13, <1>11, <2>4 DEF AtFinal, RequestInv, Stage
  <2>6. QuietInv' /\ FinalInv' /\ PursuedInv'
    BY <2>2, <2>3, <2>4, <2>5 DEF QuietInv, FinalInv, PursuedInv, Live
  <2>7. KnownInv'
    <3> SUFFICES (CandidatesAreSure(r) /\ ChangesAreSure(r) /\ AnswersAreSure(r))'
      BY <2>3 DEF KnownInv
    <3>1. \A c \in Cookies : candidates'[c] = None
      BY <2>2 DEF NoCookies
    <3> QED
      BY <2>2, <3>1 DEF CandidatesAreSure, ChangesAreSure, AnswersAreSure, Live
  <2>8. HeadersReachTheRequest'
    BY <1>4, <1>13 DEF HeadersReachTheRequest
  <2> QED
    BY <1>6, <1>11, <1>12, <2>6, <2>7, <2>8 DEF BrowserInv
<1>14. CASE /\ auth'[r].phase = "done" /\ auth'[r].ended \in {"reading", "clearing"}
            /\ UNCHANGED active /\ active # r
  <2>1. \A q \in Requests : Running(q)' => Running(q) /\ q # r
    BY <1>10, <1>14 DEF Running
  <2>2. \A q \in Requests : Running(q) => Running(q)'
    BY <1>10, <1>14 DEF Running
  <2>3. QuietInv'
    BY <2>2 DEF BrowserInv, QuietInv
  <2>4. FinalInv'
    BY <1>3, <2>1 DEF BrowserInv, FinalInv, Live
  <2>5. PursuedInv'
    <3> SUFFICES ASSUME NEW q \in Requests, NEW w \in Windows, NEW c \in Cookies, AtFinal(q, w, c)'
                 PROVE  (\/ \E s \in Slots : Live(s) /\ gets[s].token = w
                         \/ completion[w] = "timer"
                         \/ Announced(auth[q].storage, c))'
      BY DEF PursuedInv
    <3>1. q # r /\ AtFinal(q, w, c)
      BY <1>3, <1>14 DEF AtFinal
    <3> QED
      BY <3>1 DEF BrowserInv, PursuedInv, Live, Announced
  <2>6. KnownInv'
    <3>1. \A q \in Requests : Running(q)' =>
            Running(q) /\ auth'[q].ask = auth[q].ask /\ auth'[q].storage = auth[q].storage
      BY <2>1
    <3>2. \A o \in Partitions, c \in Cookies :
            /\ Announced(o, c) => Announced(o, c)'
            /\ jar'[o][c] # jar[o][c] => Announced(o, c)'
      BY DEF Announced
    <3> QED
      BY <3>1, <3>2, CallsFollow, KnownStays
  <2>7. HeadersReachTheRequest'
    <3> SUFFICES ASSUME active # None, auth'[active].opening = "opened"
                 PROVE  \/ handler'[auth'[active].storage] = active
                        \/ \E q \in Requests :
                             /\ auth'[q].phase = "done" /\ handler'[auth'[active].storage] = q
                             /\ auth'[q].ended \in {"reading", "clearing"}
      BY <1>14 DEF HeadersReachTheRequest
    <3>1. active \in Requests \ {r} /\ auth'[active] = auth[active]
      BY <1>1, <1>14 DEF TypeOK
    <3>2. auth[active].storage \in Partitions
      BY <3>1 DEF BrowserInv, RequestInv, Stage
    <3>3. CASE auth[active].storage = p
      BY <1>4, <1>14, <3>1, <3>3
    <3>4. CASE auth[active].storage # p
      <4>1. handler'[auth'[active].storage] = handler[auth[active].storage]
        BY <1>4, <3>1, <3>2, <3>4
      <4>2. CASE handler[auth[active].storage] = active
        BY <4>1, <4>2
      <4>3. CASE \E q \in Requests :
                   /\ auth[q].phase = "done" /\ handler[auth[active].storage] = q
                   /\ auth[q].ended \in {"reading", "clearing"}
        <5>1. PICK q \in Requests :
                   /\ auth[q].phase = "done" /\ handler[auth[active].storage] = q
                   /\ auth[q].ended \in {"reading", "clearing"}
          BY <4>3
        <5>2. auth'[q].phase = "done" /\ auth'[q].ended \in {"reading", "clearing"}
          BY <1>14, <5>1
        <5> QED
          BY <4>1, <5>1, <5>2
      <4> QED
        BY <3>1, <4>2, <4>3 DEF BrowserInv, HeadersReachTheRequest
    <3> QED
      BY <3>3, <3>4
  <2> QED
    BY <1>6, <1>11, <1>12, <2>3, <2>4, <2>5, <2>6, <2>7 DEF BrowserInv
<1> QED
  BY <1>13, <1>14

LEMMA OpenStep ==
    ASSUME BrowserInv, NEW r \in Requests, Open(r) PROVE BrowserInv'
<1> DEFINE opened == [auth[r] EXCEPT !.opening = "opened"]
<1>1. auth \in [Requests -> Auths] /\ auth[r].opening = "clearing"
  BY DEF BrowserInv, TypeOK, Open
<1>2. auth' = [auth EXCEPT ![r] = opened]
  BY <1>1 DEF Open
<1>3. /\ opened \in Auths /\ opened.opening = "opened" /\ opened.phase = auth[r].phase
      /\ opened.ended = auth[r].ended /\ opened.ask = auth[r].ask
      /\ opened.storage = auth[r].storage
  BY <1>1 DEF Auths, Openings
<1> HIDE DEF opened
<1>4. /\ auth' \in [Requests -> Auths] /\ auth'[r] = opened
      /\ \A q \in Requests \ {r} : auth'[q] = auth[q]
  BY <1>1, <1>2, <1>3
<1>5. Stage(r) /\ Leaves(r)
  BY DEF BrowserInv, RequestInv
<1>6. /\ auth[r].phase \in {"active", "done"}
      /\ auth[r].ask \in RequestTypes /\ auth[r].storage \in Partitions
  BY <1>1, <1>5 DEF Stage, Auths
<1>7. \/ auth[r].phase = "active" /\ active = r
      \/ /\ auth[r].phase = "done" /\ auth[r].ended \in {"reading", "clearing"}
         /\ active # r
  BY <1>1, <1>5, <1>6 DEF Stage, Leaves
<1>8. /\ Opened(r, auth[r].storage)
      /\ UNCHANGED <<active, completion, candidates, collected, gets, jar, pending>>
  BY DEF Open
<1>9. /\ auth[r].opening # "opened" /\ auth'[r].opening = "opened"
      /\ auth'[r].storage = auth[r].storage /\ auth'[r].ask \in RequestTypes
      /\ \/ auth'[r].phase = "active" /\ active' = r /\ active \in {None, r}
         \/ /\ auth'[r].phase = "done" /\ auth'[r].ended \in {"reading", "clearing"}
            /\ UNCHANGED active /\ active # r
  BY <1>1, <1>3, <1>4, <1>6, <1>7, <1>8
<1> QED
  BY <1>4, <1>6, <1>8, <1>9, OpenedStep

LEMMA AuthenticateStep ==
    ASSUME BrowserInv, NEW r \in Requests, NEW a \in Asks[r], NEW p \in Partitions,
           Authenticate(r, a, p)
    PROVE  BrowserInv'
<1> DEFINE opening == IF Wanted(a) = {} THEN "opened" ELSE "reading"
           begun   == [NewAuth EXCEPT !.phase = "active", !.opening = opening,
                                      !.ask = a, !.storage = p]
<1>1. a \in RequestTypes
  BY BrowserAssumption
<1>2. /\ active = None /\ auth[r].phase = "new" /\ active' = r
      /\ auth' = [auth EXCEPT ![r] = begun]
      /\ UNCHANGED <<completion, candidates, collected, gets, jar, pending>>
  BY DEF Authenticate
<1>3. opening \in {"reading", "opened"}
  OBVIOUS
<1>4. Wanted(a) = {} <=> opening = "opened"
  OBVIOUS
<1>5. /\ Wanted(a) = {} => Opened(r, p)
      /\ Wanted(a) # {} => UNCHANGED <<listening, handler, page>>
  BY DEF Authenticate
<1> HIDE DEF opening
<1>6. /\ begun \in Auths /\ begun.phase = "active" /\ begun.opening = opening
      /\ begun.ask = a /\ begun.storage = p
  BY <1>1, <1>3 DEF NewAuth, Auths, Openings, Answers
<1> HIDE DEF begun
<1>7. /\ auth' \in [Requests -> Auths] /\ auth'[r] = begun
      /\ \A q \in Requests \ {r} : auth'[q] = auth[q]
  BY <1>2, <1>6 DEF BrowserInv, TypeOK
<1>8. Stage(r) /\ Holds(r) /\ Leaves(r) /\ auth[r].opening = "none"
  BY <1>2 DEF BrowserInv, RequestInv, Stage
<1>9. CASE opening = "opened"
  <2>1. Opened(r, p)
    BY <1>4, <1>5, <1>9
  <2>2. /\ auth[r].opening # "opened" /\ auth'[r].opening = "opened"
        /\ auth'[r].storage = p /\ auth'[r].ask \in RequestTypes
        /\ auth'[r].phase = "active" /\ active' = r /\ active \in {None, r}
    BY <1>1, <1>2, <1>6, <1>7, <1>8, <1>9
  <2> QED
    BY <1>2, <1>7, <2>1, <2>2, OpenedStep
<1>10. CASE opening = "reading"
  <2>1. UNCHANGED <<listening, handler, page>>
    BY <1>4, <1>5, <1>10
  <2>2. None \notin Requests
    BY NothingAssumption
  <2>3. TypeOK'
    BY <1>2, <1>7, <2>1 DEF BrowserInv, TypeOK
  <2>4. (Stage(r) /\ Holds(r) /\ Leaves(r))'
    <3>1. Stage(r)'
      BY <1>1, <1>2, <1>6, <1>7, <1>10 DEF Stage
    <3>2. Holds(r)'
      BY <1>6, <1>7, <1>8, <1>10, <2>1 DEF Holds, Running
    <3>3. Leaves(r)'
      BY <1>6, <1>7 DEF Leaves
    <3> QED
      BY <3>1, <3>2, <3>3
  <2>5. ASSUME NEW q \in Requests, q # r PROVE (Stage(q) /\ Holds(q) /\ Leaves(q))'
    <3>1. Stage(q) /\ Holds(q) /\ Leaves(q) /\ auth'[q] = auth[q] /\ active # q /\ active' # q
      BY <1>2, <1>7, <2>2, <2>5 DEF BrowserInv, RequestInv
    <3>2. Stage(q)'
      BY <3>1 DEF Stage
    <3>3. Holds(q)'
      BY <2>1, <3>1 DEF Holds, Running
    <3>4. Leaves(q)'
      BY <2>1, <3>1 DEF Leaves
    <3> QED
      BY <3>2, <3>3, <3>4
  <2>6. RequestInv'
    BY <2>4, <2>5 DEF RequestInv
  <2>7. \A q \in Requests : ~Running(q) /\ ~Running(q)'
    BY <1>2, <1>6, <1>7, <1>10, <2>2 DEF Running
  <2>8. QuietInv' /\ KnownInv' /\ FinalInv'
    BY <1>2, <2>7 DEF BrowserInv, QuietInv, KnownInv, FinalInv
  <2>9. PursuedInv'
    <3>1. \A w \in Windows : page'[r][w] # "final"
      BY <1>8, <2>1 DEF Holds
    <3>2. \A q \in Requests : auth'[q].phase = "active" => q = r
      BY <1>2, <2>6 DEF RequestInv, Stage
    <3> QED
      BY <3>1, <3>2 DEF PursuedInv, AtFinal
  <2>10. JarInv' /\ HeadersReachTheRequest'
    BY <1>2, <1>6, <1>7, <1>10 DEF BrowserInv, JarInv, HeadersReachTheRequest
  <2> QED
    BY <2>3, <2>6, <2>8, <2>9, <2>10 DEF BrowserInv
<1> QED
  BY <1>3, <1>9, <1>10

LEMMA TimerFiresStep ==
    ASSUME BrowserInv, NEW w \in Windows, TimerFires(w) PROVE BrowserInv'
<1>1. /\ completion' = [completion EXCEPT ![w] = "idle"] /\ Capture(gets, w)
      /\ UNCHANGED <<active, auth, page, candidates, collected, listening, handler, jar, pending>>
      /\ completion[w] = "timer"
  BY DEF TimerFires
<1>2. /\ completion \in [Windows -> {None, "idle", "timer"}] /\ gets \in [Slots -> Gets \cup {None}]
      /\ collected \subseteq Headers /\ page \in [Requests -> [Windows -> Shows]]
  BY DEF BrowserInv, TypeOK, Shows
<1>3. /\ gets' \in [Slots -> Gets \cup {None}]
      /\ \E n \in Slots :
           /\ gets[n] = None /\ gets'[n] # None
           /\ gets'[n].token = w /\ gets'[n].seen = None /\ gets'[n].changed = {}
           /\ \A t \in Slots \ {n} : gets'[t] = gets[t]
  <2> DEFINE calls == gets
  <2>1. w \in Windows \cup {"stale", "none"} /\ calls \in [Slots -> Gets \cup {None}]
        /\ Capture(calls, w)
    BY <1>1, <1>2
  <2> HIDE DEF calls
  <2>2. /\ gets' \in [Slots -> Gets \cup {None}]
        /\ \E n \in Slots :
             /\ calls[n] = None /\ gets'[n] # None
             /\ gets'[n].token = w /\ gets'[n].seen = None /\ gets'[n].changed = {}
             /\ \A t \in Slots \ {n} : gets'[t] = calls[t]
    BY <2>1, CaptureFacts
  <2> QED
    BY <2>2 DEF calls
<1>4. PICK n \in Slots :
        /\ gets[n] = None /\ gets'[n] # None
        /\ gets'[n].token = w /\ gets'[n].seen = None /\ gets'[n].changed = {}
        /\ \A t \in Slots \ {n} : gets'[t] = gets[t]
  BY <1>3
<1>5. \A s \in Slots : gets'[s] # None => Follows(gets'[s], s)
  BY <1>4 DEF Follows, Live
<1>6. /\ None # "timer"
      /\ completion' \in [Windows -> {None, "idle", "timer"}]
      /\ \A v \in Windows : completion'[v] = IF v = w THEN "idle" ELSE completion[v]
  BY <1>1, <1>2, NothingAssumption
<1>7. active \in Requests /\ Running(active)
  BY <1>1, <1>6, WhoRuns
<1>8. FinalInv'
  <2> SUFFICES ASSUME NEW q \in Requests, Running(q)'
               PROVE  /\ \A s \in Slots : Live(s)' /\ gets'[s].token \in Windows =>
                            page'[q][gets'[s].token] = "final"
                      /\ \A v \in Windows : completion'[v] # None => page'[q][v] = "final"
                      /\ \A v \in Windows : page'[q][v] = "final" /\ auth'[q].ask.cookies # {} =>
                            completion'[v] # None
    BY DEF FinalInv
  <2>1. Running(q)
    BY <1>1 DEF Running
  <2>2. /\ \A s \in Slots : Live(s) /\ gets[s].token \in Windows => page[q][gets[s].token] = "final"
        /\ \A v \in Windows : completion[v] # None => page[q][v] = "final"
        /\ \A v \in Windows : page[q][v] = "final" /\ auth[q].ask.cookies # {} =>
              completion[v] # None
    BY <2>1 DEF BrowserInv, FinalInv
  <2>3. \A v \in Windows : completion'[v] # None <=> completion[v] # None
    BY <1>1, <1>6, NothingAssumption
  <2>4. ASSUME NEW s \in Slots, Live(s)', gets'[s].token \in Windows
        PROVE  page'[q][gets'[s].token] = "final"
    <3>1. CASE s = n
      BY <1>1, <1>4, <1>6, <2>2, <3>1
    <3>2. CASE s # n
      BY <1>1, <1>4, <2>2, <2>4, <3>2 DEF Live
    <3> QED
      BY <3>1, <3>2
  <2> QED
    BY <1>1, <2>2, <2>3, <2>4
<1>9. PursuedInv'
  <2> SUFFICES ASSUME NEW q \in Requests, NEW v \in Windows, NEW c \in Cookies, AtFinal(q, v, c)'
               PROVE  (\/ \E s \in Slots : Live(s) /\ gets[s].token = v
                       \/ completion[v] = "timer"
                       \/ Announced(auth[q].storage, c))'
    BY DEF PursuedInv
  <2>1. CASE v = w
    BY <1>4, <2>1 DEF Live
  <2>2. CASE v # w
    <3>1. AtFinal(q, v, c)
      BY <1>1 DEF AtFinal
    <3>2. CASE \E s \in Slots : Live(s) /\ gets[s].token = v
      <4>1. PICK s \in Slots : Live(s) /\ gets[s].token = v
        BY <3>2
      <4>2. s # n /\ gets'[s] = gets[s]
        BY <1>4, <4>1 DEF Live
      <4> QED
        BY <4>1, <4>2 DEF Live
    <3>3. CASE completion[v] = "timer"
      BY <1>6, <2>2, <3>3
    <3>4. CASE Announced(auth[q].storage, c)
      BY <1>1, <3>4 DEF Announced
    <3> QED
      BY <3>1, <3>2, <3>3, <3>4 DEF BrowserInv, PursuedInv
  <2> QED
    BY <2>1, <2>2
<1>10. page' \in [Requests -> [Windows -> Shows]] /\ collected' \subseteq Headers
       /\ \A q \in Requests : auth[q].opening # "opened" =>
            \A v \in Windows : page[q][v] = "closed" => page'[q][v] = "closed"
  BY <1>1, <1>2
<1> QED
  BY <1>1, <1>3, <1>5, <1>6, <1>7, <1>8, <1>9, <1>10, StepOfRunning

-----------------------------------------------------------------------------
(* Cookies are read, and heard of. *)

\* The request stays, no page changes: what a step does to the calls and completions.
LEMMA CookieStep ==
    ASSUME BrowserInv, NEW r \in Requests, Running(r),
           UNCHANGED <<active, auth, page, collected, listening, handler, jar>>,
           pending' \in [Partitions -> Seq(Events)], JarInv',
           candidates' \in [Cookies -> Values \cup {None}],
           completion' \in [Windows -> {None, "idle", "timer"}],
           gets' \in [Slots -> Gets \cup {None}],
           (CandidatesAreSure(r) /\ ChangesAreSure(r) /\ AnswersAreSure(r))',
           \A s \in Slots : gets'[s] # None => Live(s) /\ gets'[s].token = gets[s].token,
           \A w \in Windows : completion'[w] = None <=> completion[w] = None,
           \A w \in Windows, c \in Cookies : AtFinal(r, w, c) =>
              (\/ \E s \in Slots : Live(s) /\ gets[s].token = w
               \/ completion[w] = "timer"
               \/ Announced(auth[r].storage, c))'
    PROVE  BrowserInv'
<1>1. RequestInv' /\ HeadersReachTheRequest' /\ \A q \in Requests : Running(q)' <=> Running(q)
  BY SameRequests
<1>2. \A q \in Requests : Running(q) => q = r
  BY OneRuns
<1>3. TypeOK'
  BY DEF BrowserInv, TypeOK
<1>4. QuietInv'
  BY <1>1 DEF QuietInv
<1>5. KnownInv'
  BY <1>1, <1>2 DEF KnownInv
<1>6. FinalInv'
  <2>1. /\ \A s \in Slots : Live(s) /\ gets[s].token \in Windows => page[r][gets[s].token] = "final"
        /\ \A w \in Windows : completion[w] # None => page[r][w] = "final"
        /\ \A w \in Windows : page[r][w] = "final" /\ auth[r].ask.cookies # {} =>
              completion[w] # None
    BY DEF BrowserInv, FinalInv
  <2> QED
    BY <1>1, <1>2, <2>1 DEF FinalInv, Live
<1>7. PursuedInv'
  <2> SUFFICES ASSUME NEW q \in Requests, NEW w \in Windows, NEW c \in Cookies, AtFinal(q, w, c)'
               PROVE  (\/ \E s \in Slots : Live(s) /\ gets[s].token = w
                       \/ completion[w] = "timer"
                       \/ Announced(auth[q].storage, c))'
    BY DEF PursuedInv
  <2>1. AtFinal(q, w, c)
    BY DEF AtFinal
  <2>2. q = r
    BY <2>1 DEF AtFinal, BrowserInv, RequestInv, Stage, Running
  <2> QED
    BY <2>1, <2>2
<1> QED
  BY <1>1, <1>3, <1>4, <1>5, <1>6, <1>7 DEF BrowserInv

LEMMA KnownOfRunning ==
    ASSUME BrowserInv, NEW r \in Requests, Running(r)
    PROVE  /\ CandidatesAreSure(r) /\ ChangesAreSure(r) /\ AnswersAreSure(r)
           /\ auth[r].storage \in Partitions /\ active = r
BY DEF BrowserInv, KnownInv, Running, RequestInv, Stage

LEMMA ReadJarStep ==
    ASSUME BrowserInv, NEW s \in Slots, ReadJar(s) PROVE BrowserInv'
<1>1. active \in Requests /\ Running(active)
  BY WhoRuns DEF ReadJar
<1>2. PICK r \in Requests : r = active
  BY <1>1
<1>3. /\ CandidatesAreSure(r) /\ ChangesAreSure(r) /\ AnswersAreSure(r)
      /\ auth[r].storage \in Partitions /\ Running(r)
  BY <1>1, <1>2, KnownOfRunning
<1> DEFINE asked == {c \in Wanted(auth[r].ask) : gets[s].token = "none" => c \in AtOther}
           seen  == [c \in Cookies |-> IF c \in asked THEN jar[auth[r].storage][c] ELSE None]
           read  == [gets[s] EXCEPT !.seen = seen]
<1>4. UNCHANGED <<active, auth, page, completion, candidates, collected, listening, handler,
                  jar, pending>>
  BY DEF ReadJar
<1>5. /\ Live(s) /\ gets[s].seen = None
      /\ gets' = [gets EXCEPT ![s] = read]
  BY <1>2 DEF ReadJar
<1>6. /\ gets \in [Slots -> Gets \cup {None}] /\ jar \in [Partitions -> [Cookies -> Values \cup {None}]]
      /\ completion \in [Windows -> {None, "idle", "timer"}]
      /\ candidates \in [Cookies -> Values \cup {None}]
      /\ pending \in [Partitions -> Seq(Events)]
  BY DEF BrowserInv, TypeOK
<1>7. seen \in [Cookies -> Values \cup {None}]
  BY <1>3, <1>6
<1>8. /\ \A c \in Cookies : seen[c] # None => c \in asked
      /\ \A c \in Cookies : c \in asked => seen[c] = jar[auth[r].storage][c]
  OBVIOUS
<1>9. asked = AskedFor(r, gets[s])
  BY DEF AskedFor
<1> HIDE DEF asked, seen
<1>10. /\ read \in Gets /\ read.seen = seen /\ read.token = gets[s].token
       /\ read.changed = gets[s].changed
  <2> DEFINE Seens == [Cookies -> Values \cup {None}] \cup {None}
  <2>1. Gets = [token : Windows \cup {"stale", "none"}, seen : Seens, changed : SUBSET Cookies]
    BY DEF Gets
  <2>2. gets[s] \in Gets /\ seen \in Seens
    BY <1>5, <1>6, <1>7 DEF Live
  <2> HIDE DEF Seens
  <2> QED
    BY <2>1, <2>2
<1> HIDE DEF read
<1>11. /\ gets' \in [Slots -> Gets \cup {None}] /\ gets'[s] = read
       /\ \A t \in Slots \ {s} : gets'[t] = gets[t]
  BY <1>5, <1>6, <1>10
<1>12. CandidatesAreSure(r)'
  BY <1>3, <1>4 DEF CandidatesAreSure, Sure, Announced, Wanted
<1>13. \A t \in Slots : gets'[t] # None =>
         /\ Live(t) /\ gets'[t].token = gets[t].token /\ gets'[t].changed = gets[t].changed
  BY <1>5, <1>10, <1>11 DEF Live
<1>14. ChangesAreSure(r)'
  <2> SUFFICES ASSUME NEW t \in Slots, Live(t)', NEW c \in gets'[t].changed
               PROVE  (c \in Wanted(auth[r].ask) /\ Sure(r, c, candidates[c]))'
    BY DEF ChangesAreSure
  <2>1. Live(t) /\ c \in gets[t].changed
    BY <1>13 DEF Live
  <2>2. c \in Wanted(auth[r].ask) /\ Sure(r, c, candidates[c])
    BY <1>3, <2>1 DEF ChangesAreSure
  <2> QED
    BY <1>4, <2>2 DEF Sure, Announced, Wanted
<1>15. AnswersAreSure(r)'
  <2> SUFFICES ASSUME NEW t \in Slots, Live(t)', gets'[t].seen # None, NEW c \in Cookies
               PROVE  (/\ gets[t].seen[c] # None => c \in AskedFor(r, gets[t])
                       /\ c \in AskedFor(r, gets[t]) \ gets[t].changed => Sure(r, c, gets[t].seen[c]))'
    BY DEF AnswersAreSure
  <2>1. (c \in AskedFor(r, gets[t]))' <=> c \in AskedFor(r, gets[t])
    BY <1>4, <1>13 DEF AskedFor, Wanted, Live
  <2>2. CASE t = s
    <3>1. gets'[t].seen = seen
      BY <1>10, <1>11, <2>2
    <3>2. seen[c] # None => (c \in AskedFor(r, gets[t]))'
      BY <1>8, <1>9, <2>1, <2>2
    <3>3. (c \in AskedFor(r, gets[t]))' => seen[c] = jar'[auth'[r].storage][c]
      BY <1>4, <1>8, <1>9, <2>1, <2>2
    <3> QED
      BY <3>1, <3>2, <3>3 DEF Sure
  <2>3. CASE t # s
    <3>1. gets'[t] = gets[t] /\ Live(t) /\ gets[t].seen # None
      BY <1>11, <1>13, <2>3 DEF Live
    <3>2. /\ gets[t].seen[c] # None => c \in AskedFor(r, gets[t])
          /\ c \in AskedFor(r, gets[t]) \ gets[t].changed => Sure(r, c, gets[t].seen[c])
      BY <1>3, <3>1 DEF AnswersAreSure
    <3> QED
      BY <1>4, <2>1, <3>1, <3>2 DEF Sure, Announced
  <2> QED
    BY <2>2, <2>3
<1>16. \A w \in Windows, c \in Cookies : AtFinal(r, w, c) =>
         (\/ \E t \in Slots : Live(t) /\ gets[t].token = w
          \/ completion[w] = "timer"
          \/ Announced(auth[r].storage, c))'
  <2> SUFFICES ASSUME NEW w \in Windows, NEW c \in Cookies, AtFinal(r, w, c)
               PROVE  (\/ \E t \in Slots : Live(t) /\ gets[t].token = w
                       \/ completion[w] = "timer"
                       \/ Announced(auth[r].storage, c))'
    OBVIOUS
  <2>1. \/ \E t \in Slots : Live(t) /\ gets[t].token = w
        \/ completion[w] = "timer"
        \/ Announced(auth[r].storage, c)
    BY DEF BrowserInv, PursuedInv
  <2>2. \A t \in Slots : Live(t) => gets'[t] # None /\ gets'[t].token = gets[t].token
    BY <1>10, <1>11, NothingAssumption DEF Live
  <2> QED
    BY <1>4, <2>1, <2>2 DEF Live, Announced
<1>17. JarInv'
  BY <1>4 DEF BrowserInv, JarInv
<1>18. /\ pending' \in [Partitions -> Seq(Events)]
       /\ candidates' \in [Cookies -> Values \cup {None}]
       /\ completion' \in [Windows -> {None, "idle", "timer"}]
       /\ \A w \in Windows : completion'[w] = None <=> completion[w] = None
       /\ \A t \in Slots : gets'[t] # None => Live(t) /\ gets'[t].token = gets[t].token
  BY <1>4, <1>6, <1>13
<1> QED
  BY <1>3, <1>4, <1>11, <1>12, <1>14, <1>15, <1>16, <1>17, <1>18, CookieStep


LEMMA UnheardStep ==
    ASSUME BrowserInv, NEW p \in Partitions, NEW c \in Cookies,
           UNCHANGED <<active, auth, page, completion, candidates, collected, gets,
                       listening, handler, jar>>,
           pending' \in [Partitions -> Seq(Events)], JarInv',
           \A q \in Partitions, d \in Cookies :
              Announced(q, d) => Announced(q, d)' \/ (q = p /\ d = c),
           \A r \in Requests : Running(r) /\ auth[r].storage = p => c \notin Wanted(auth[r].ask)
    PROVE  BrowserInv'
<1>1. /\ pending' \in [Partitions -> Seq(Events)]
      /\ candidates' \in [Cookies -> Values \cup {None}]
      /\ completion' \in [Windows -> {None, "idle", "timer"}]
      /\ gets' \in [Slots -> Gets \cup {None}]
  BY DEF BrowserInv, TypeOK
<1>2. ASSUME NEW r \in Requests, Running(r) PROVE BrowserInv'
  <2>1. /\ CandidatesAreSure(r) /\ ChangesAreSure(r) /\ AnswersAreSure(r)
        /\ auth[r].storage \in Partitions
    BY <1>2, KnownOfRunning
  <2>2. PICK o \in Partitions : o = auth[r].storage
    BY <2>1
  <2>3. \A d \in Cookies : d \in Wanted(auth[r].ask) /\ Announced(o, d) => Announced(o, d)'
    BY <1>2, <2>2
  <2>4. \A d \in Cookies : \A value :
          d \in Wanted(auth[r].ask) /\ Sure(r, d, value) =>
             value = jar'[auth'[r].storage][d] \/ Announced(o, d)'
    BY <2>2, <2>3 DEF Sure
  <2>5. CandidatesAreSure(r)'
    BY <2>1, <2>2, <2>4 DEF CandidatesAreSure, Sure, Wanted, Announced
  <2>6. gets \in [Slots -> Gets \cup {None}] /\ \A s \in Slots : Live(s) => gets[s].changed \subseteq Cookies
    BY DEF BrowserInv, TypeOK, Gets, Live
  <2>7. ChangesAreSure(r)'
    <3> SUFFICES ASSUME NEW s \in Slots, Live(s), NEW d \in gets[s].changed
                 PROVE  d \in Wanted(auth[r].ask) /\ Sure(r, d, candidates[d])'
      BY DEF ChangesAreSure, Live, Wanted
    <3>1. d \in Cookies /\ d \in Wanted(auth[r].ask) /\ Sure(r, d, candidates[d])
      BY <2>1, <2>6 DEF ChangesAreSure
    <3> QED
      BY <2>2, <2>4, <3>1 DEF Sure, Announced
  <2>8. AnswersAreSure(r)'
    <3> SUFFICES ASSUME NEW s \in Slots, Live(s), gets[s].seen # None, NEW d \in Cookies
                 PROVE  /\ gets[s].seen[d] # None => d \in AskedFor(r, gets[s])
                        /\ d \in AskedFor(r, gets[s]) \ gets[s].changed => Sure(r, d, gets[s].seen[d])'
      BY DEF AnswersAreSure, Live, AskedFor, Wanted
    <3>1. /\ gets[s].seen[d] # None => d \in AskedFor(r, gets[s])
          /\ d \in AskedFor(r, gets[s]) \ gets[s].changed => Sure(r, d, gets[s].seen[d])
      BY <2>1 DEF AnswersAreSure
    <3>2. d \in AskedFor(r, gets[s]) => d \in Wanted(auth[r].ask)
      BY DEF AskedFor
    <3> QED
      BY <2>2, <2>4, <3>1, <3>2 DEF Sure, Announced
  <2>9. \A w \in Windows, d \in Cookies : AtFinal(r, w, d) =>
          (\/ \E s \in Slots : Live(s) /\ gets[s].token = w
           \/ completion[w] = "timer"
           \/ Announced(auth[r].storage, d))'
    <3> SUFFICES ASSUME NEW w \in Windows, NEW d \in Cookies, AtFinal(r, w, d)
                 PROVE  (\/ \E s \in Slots : Live(s) /\ gets[s].token = w
                         \/ completion[w] = "timer"
                         \/ Announced(auth[r].storage, d))'
      OBVIOUS
    <3>1. d \in Wanted(auth[r].ask)
      BY DEF AtFinal, Wanted
    <3>2. \/ \E s \in Slots : Live(s) /\ gets[s].token = w
          \/ completion[w] = "timer"
          \/ Announced(o, d)
      BY <2>2 DEF BrowserInv, PursuedInv
    <3>3. CASE Announced(o, d)
      <4>1. Announced(o, d)'
        BY <2>3, <3>1, <3>3
      <4> QED
        BY <2>2, <4>1 DEF Announced
    <3>4. CASE (\E s \in Slots : Live(s) /\ gets[s].token = w) \/ completion[w] = "timer"
      BY <3>4 DEF Live
    <3> QED
      BY <3>2, <3>3, <3>4
  <2>10. \A s \in Slots : gets'[s] # None => Live(s) /\ gets'[s].token = gets[s].token
    BY DEF Live
  <2> QED
    BY <1>1, <1>2, <2>5, <2>7, <2>8, <2>9, <2>10, CookieStep
<1>3. ASSUME \A r \in Requests : ~Running(r) PROVE BrowserInv'
  <2>1. RequestInv' /\ HeadersReachTheRequest' /\ \A q \in Requests : ~Running(q)'
    BY <1>3, SameRequests
  <2>2. TypeOK'
    BY <1>1 DEF BrowserInv, TypeOK
  <2>3. QuietInv' /\ KnownInv' /\ FinalInv'
    BY <1>3, <2>1 DEF BrowserInv, QuietInv, KnownInv, FinalInv
  <2>4. ASSUME NEW r \in Requests, NEW w \in Windows, NEW d \in Cookies PROVE ~AtFinal(r, w, d)'
    BY <1>3 DEF AtFinal, BrowserInv, RequestInv, Stage, Holds, Running
  <2>5. PursuedInv'
    BY <2>4 DEF PursuedInv
  <2> QED
    BY <2>1, <2>2, <2>3, <2>5 DEF BrowserInv
<1> QED
  BY <1>2, <1>3

\* A change is heard: the calls under way are told, the completions wait once more.
LEMMA HeardStep ==
    ASSUME BrowserInv, NEW r \in Requests, Running(r), NEW c \in Cookies,
           NEW value \in Values \cup {None}, c \in Wanted(auth[r].ask),
           UNCHANGED <<active, auth, page, collected, listening, handler, jar>>,
           pending' \in [Partitions -> Seq(Events)], JarInv',
           \A d \in Cookies : d # c /\ Announced(auth[r].storage, d)
                                => Announced(auth[r].storage, d)',
           value = jar[auth[r].storage][c] \/ Announced(auth[r].storage, c)',
           candidates' = [candidates EXCEPT ![c] = value],
           gets' = Told(gets, {c}),
           completion' = IF NameOf[c] \in auth[r].ask.cookies THEN Scheduled ELSE completion
    PROVE  BrowserInv'
<1>1. /\ CandidatesAreSure(r) /\ ChangesAreSure(r) /\ AnswersAreSure(r)
      /\ auth[r].storage \in Partitions
  BY KnownOfRunning
<1>2. /\ gets \in [Slots -> Gets \cup {None}] /\ candidates \in [Cookies -> Values \cup {None}]
      /\ completion \in [Windows -> {None, "idle", "timer"}]
  BY DEF BrowserInv, TypeOK
<1>3. /\ gets' \in [Slots -> Gets \cup {None}]
      /\ \A s \in Slots :
           /\ gets'[s] = None <=> gets[s] = None
           /\ gets[s] # None => /\ gets'[s].seen = gets[s].seen
                                /\ gets'[s].token = gets[s].token
                                /\ gets'[s].changed = gets[s].changed \cup {c}
  <2> DEFINE heard == {c}
             told  == Told(gets, heard)
  <2>1. heard \in SUBSET Cookies /\ gets' = told
    OBVIOUS
  <2> HIDE DEF heard
  <2>2. /\ told \in [Slots -> Gets \cup {None}]
        /\ \A s \in Slots :
             /\ told[s] = None <=> gets[s] = None
             /\ gets[s] # None => /\ told[s].seen = gets[s].seen
                                  /\ told[s].token = gets[s].token
                                  /\ told[s].changed = gets[s].changed \cup heard
    BY <1>2, <2>1, ToldFacts
  <2>3. heard = {c}
    BY DEF heard
  <2> HIDE DEF told
  <2> QED
    BY <2>1, <2>2, <2>3
<1>4. /\ candidates' \in [Cookies -> Values \cup {None}] /\ candidates'[c] = value
      /\ \A d \in Cookies \ {c} : candidates'[d] = candidates[d]
  BY <1>2
<1>5. /\ completion' \in [Windows -> {None, "idle", "timer"}]
      /\ \A w \in Windows : completion'[w] = None <=> completion[w] = None
      /\ \A w \in Windows : completion[w] = "timer" => completion'[w] = "timer"
      /\ NameOf[c] \in auth[r].ask.cookies =>
            \A w \in Windows : completion[w] # None => completion'[w] = "timer"
  <2>1. None # "timer"
    BY NothingAssumption
  <2> QED
    BY <1>2, <2>1 DEF Scheduled
<1>6. PICK o \in Partitions : o = auth[r].storage
  BY <1>1
<1>7. /\ \A d \in Cookies : d # c /\ Announced(o, d) => Announced(o, d)'
      /\ value = jar[o][c] \/ Announced(o, c)'
  <2>1. ASSUME NEW d \in Cookies, d # c, Announced(o, d) PROVE Announced(o, d)'
    <3>1. Announced(auth[r].storage, d)
      BY <1>6, <2>1
    <3>2. Announced(auth[r].storage, d)'
      BY <2>1, <3>1
    <3> QED
      BY <1>6, <3>2 DEF Announced
  <2>2. value = jar[o][c] \/ Announced(o, c)'
    BY <1>6 DEF Announced
  <2> QED
    BY <2>1, <2>2
<1>8. /\ \A d \in Cookies : \A known :
           d # c /\ Sure(r, d, known) => known = jar'[o][d] \/ Announced(o, d)'
      /\ value = jar'[o][c] \/ Announced(o, c)'
  BY <1>6, <1>7 DEF Sure
<1>9. CandidatesAreSure(r)'
  <2> SUFFICES ASSUME NEW d \in Cookies, candidates'[d] # None
               PROVE  (d \in Wanted(auth[r].ask) /\ Sure(r, d, candidates[d]))'
    BY DEF CandidatesAreSure
  <2>1. CASE d = c
    BY <1>4, <1>6, <1>8, <2>1 DEF Sure, Wanted, Announced
  <2>2. CASE d # c
    <3>1. d \in Wanted(auth[r].ask) /\ Sure(r, d, candidates[d])
      BY <1>1, <1>4, <2>2 DEF CandidatesAreSure
    <3> QED
      BY <1>4, <1>6, <1>8, <2>2, <3>1 DEF Sure, Wanted, Announced
  <2> QED
    BY <2>1, <2>2
<1>10. \A s \in Slots : Live(s) => gets[s].changed \subseteq Cookies
  BY <1>2 DEF Gets, Live
<1>11. ChangesAreSure(r)'
  <2> SUFFICES ASSUME NEW s \in Slots, Live(s)', NEW d \in gets'[s].changed
               PROVE  (d \in Wanted(auth[r].ask) /\ Sure(r, d, candidates[d]))'
    BY DEF ChangesAreSure
  <2>1. Live(s) /\ gets'[s].changed = gets[s].changed \cup {c}
    BY <1>3 DEF Live
  <2>2. CASE d = c
    BY <1>4, <1>6, <1>8, <2>2 DEF Sure, Wanted, Announced
  <2>3. CASE d # c
    <3>1. d \in Cookies /\ d \in Wanted(auth[r].ask) /\ Sure(r, d, candidates[d])
      BY <1>1, <1>10, <2>1, <2>3 DEF ChangesAreSure
    <3> QED
      BY <1>4, <1>6, <1>8, <2>3, <3>1 DEF Sure, Wanted, Announced
  <2> QED
    BY <2>2, <2>3
<1>12. AnswersAreSure(r)'
  <2> SUFFICES ASSUME NEW s \in Slots, Live(s)', gets'[s].seen # None, NEW d \in Cookies
               PROVE  (/\ gets[s].seen[d] # None => d \in AskedFor(r, gets[s])
                       /\ d \in AskedFor(r, gets[s]) \ gets[s].changed => Sure(r, d, gets[s].seen[d]))'
    BY DEF AnswersAreSure
  <2>1. /\ Live(s) /\ gets'[s].changed = gets[s].changed \cup {c}
        /\ gets'[s].seen = gets[s].seen /\ gets'[s].token = gets[s].token
    BY <1>3 DEF Live
  <2>2. /\ gets[s].seen[d] # None => d \in AskedFor(r, gets[s])
        /\ d \in AskedFor(r, gets[s]) \ gets[s].changed => Sure(r, d, gets[s].seen[d])
    BY <1>1, <2>1 DEF AnswersAreSure
  <2>3. (d \in AskedFor(r, gets[s]))' <=> d \in AskedFor(r, gets[s])
    BY <2>1 DEF AskedFor, Wanted
  <2>4. (d \in AskedFor(r, gets[s]) \ gets[s].changed)' =>
           d # c /\ d \in AskedFor(r, gets[s]) \ gets[s].changed
    BY <2>1, <2>3
  <2>5. (d \in AskedFor(r, gets[s]) \ gets[s].changed)' =>
           gets[s].seen[d] = jar'[o][d] \/ Announced(o, d)'
    BY <1>8, <2>2, <2>4
  <2>6. (d \in AskedFor(r, gets[s]) \ gets[s].changed)' => Sure(r, d, gets[s].seen[d])'
    BY <1>6, <2>1, <2>5 DEF Sure, Announced
  <2> QED
    BY <2>1, <2>2, <2>3, <2>6
<1>13. \A w \in Windows, d \in Cookies : AtFinal(r, w, d) =>
          (\/ \E s \in Slots : Live(s) /\ gets[s].token = w
           \/ completion[w] = "timer"
           \/ Announced(auth[r].storage, d))'
  <2> SUFFICES ASSUME NEW w \in Windows, NEW d \in Cookies, AtFinal(r, w, d)
               PROVE  (\/ \E s \in Slots : Live(s) /\ gets[s].token = w
                       \/ completion[w] = "timer"
                       \/ Announced(auth[r].storage, d))'
    OBVIOUS
  <2>1. \/ \E s \in Slots : Live(s) /\ gets[s].token = w
        \/ completion[w] = "timer"
        \/ Announced(o, d)
    BY <1>6 DEF BrowserInv, PursuedInv
  <2>2. CASE \E s \in Slots : Live(s) /\ gets[s].token = w
    BY <1>3, <2>2 DEF Live
  <2>3. CASE completion[w] = "timer"
    BY <1>5, <2>3
  <2>4. CASE Announced(o, d) /\ d # c
    <3>1. Announced(o, d)'
      BY <1>7, <2>4
    <3> QED
      BY <1>6, <3>1 DEF Announced
  <2>5. CASE d = c
    <3>1. NameOf[c] \in auth[r].ask.cookies /\ page[r][w] = "final"
      BY <2>5 DEF AtFinal
    <3>2. completion[w] # None
      BY <3>1 DEF BrowserInv, FinalInv
    <3> QED
      BY <1>5, <3>1, <3>2
  <2> QED
    BY <2>1, <2>2, <2>3, <2>4, <2>5
<1>14. \A s \in Slots : gets'[s] # None => Live(s) /\ gets'[s].token = gets[s].token
  BY <1>3 DEF Live
<1> QED
  BY <1>3, <1>4, <1>5, <1>9, <1>11, <1>12, <1>13, <1>14, CookieStep

LEMMA DeliverStep ==
    ASSUME BrowserInv, NEW p \in Partitions, Deliver(p) PROVE BrowserInv'
<1> DEFINE event == Head(pending[p])
<1>1. /\ pending[p] # <<>> /\ pending' = [pending EXCEPT ![p] = Tail(@)]
      /\ UNCHANGED <<page, jar>>
  BY DEF Deliver
<1>2. TypeOK /\ JarInv
  BY DEF BrowserInv
<1>3. /\ pending' \in [Partitions -> Seq(Events)] /\ JarInv'
      /\ event \in Events
      /\ \A q \in Partitions, d \in Cookies :
           Announced(q, d) => Announced(q, d)' \/ (q = p /\ d = event.cookie)
      /\ \A d \in Cookies :
           d = event.cookie /\ event.value # jar[p][d] => Announced(p, d)'
  BY <1>1, <1>2, DeliveredFacts
<1>4. PICK c \in Cookies, value \in Values \cup {None} : c = event.cookie /\ value = event.value
  BY <1>3 DEF Events
<1>5. /\ \A q \in Partitions, d \in Cookies :
           Announced(q, d) => Announced(q, d)' \/ (q = p /\ d = c)
      /\ value # jar[p][c] => Announced(p, c)'
  BY <1>3, <1>4
<1> DEFINE hears == /\ active \in listening /\ auth[active].storage = p
                    /\ c \in Wanted(auth[active].ask)
<1>6. \/ hears /\ Finish(active, "early")
      \/ /\ hears
         /\ candidates' = [candidates EXCEPT ![c] = value]
         /\ gets' = Told(gets, {c})
         /\ completion' = IF NameOf[c] \in auth[active].ask.cookies THEN Scheduled ELSE completion
         /\ UNCHANGED <<active, auth, collected, listening, handler>>
      \/ /\ ~hears
         /\ UNCHANGED <<active, auth, completion, candidates, collected, gets,
                        listening, handler>>
  BY <1>4 DEF Deliver
<1>7. hears => active \in Requests /\ Running(active)
  BY WhoRuns
<1>8. CASE hears /\ Finish(active, "early")
  <2>1. PICK r \in Requests : r = active
    BY <1>7, <1>8
  <2>2. "early" \in Answers /\ Finish(r, "early")
    BY <1>8, <2>1 DEF Answers
  <2>3. page' \in [Requests -> [Windows -> Pages \cup {"closed", "loading"}]]
    BY <1>1, <1>2 DEF TypeOK
  <2> QED
    BY <1>1, <1>3, <2>1, <2>2, <2>3, FinishStep
<1>9. CASE /\ hears
           /\ candidates' = [candidates EXCEPT ![c] = value]
           /\ gets' = Told(gets, {c})
           /\ completion' = IF NameOf[c] \in auth[active].ask.cookies THEN Scheduled ELSE completion
           /\ UNCHANGED <<active, auth, collected, listening, handler>>
  <2>1. PICK r \in Requests : r = active
    BY <1>7, <1>9
  <2>2. Running(r) /\ c \in Wanted(auth[r].ask) /\ auth[r].storage = p
    BY <1>7, <1>9, <2>1
  <2>3. completion' = IF NameOf[c] \in auth[r].ask.cookies THEN Scheduled ELSE completion
    BY <1>9, <2>1
  <2>4. \A d \in Cookies : d # c /\ Announced(auth[r].storage, d) => Announced(auth[r].storage, d)'
    <3> SUFFICES ASSUME NEW d \in Cookies, d # c, Announced(auth[r].storage, d)
                 PROVE  Announced(auth[r].storage, d)'
      OBVIOUS
    <3>1. Announced(p, d)'
      BY <1>5, <2>2
    <3> QED
      BY <1>9, <2>2, <3>1 DEF Announced
  <2>5. value = jar[auth[r].storage][c] \/ Announced(auth[r].storage, c)'
    <3>1. value = jar[p][c] \/ Announced(p, c)'
      BY <1>5
    <3> QED
      BY <1>9, <2>2, <3>1 DEF Announced
  <2> QED
    BY <1>1, <1>3, <1>9, <2>2, <2>3, <2>4, <2>5, HeardStep
<1>10. CASE /\ ~hears
            /\ UNCHANGED <<active, auth, completion, candidates, collected, gets,
                           listening, handler>>
  <2>1. ASSUME NEW r \in Requests, Running(r), auth[r].storage = p
        PROVE  c \notin Wanted(auth[r].ask)
    <3>1. r = active /\ r \in listening
      BY <2>1 DEF Running, BrowserInv, RequestInv, Holds
    <3> QED
      BY <1>10, <2>1, <3>1
  <2> HIDE DEF hears
  <2> QED
    BY <1>1, <1>3, <1>5, <1>10, <2>1, UnheardStep
<1> QED
  BY <1>6, <1>8, <1>9, <1>10

-----------------------------------------------------------------------------
(* A call of cookies.get answers. *)

\* What the answer changes it is sure of.
LEMMA SynchronizedFacts ==
    ASSUME NEW r \in Requests, NEW s \in Slots, Live(s), gets[s].seen # None,
           CandidatesAreSure(r), ChangesAreSure(r), AnswersAreSure(r)
    PROVE  /\ \A c \in Cookies : c \in Touched(gets[s]) =>
                /\ c \in Wanted(auth[r].ask) /\ Sure(r, c, gets[s].seen[c])
                /\ Synchronized(gets[s])[c] = gets[s].seen[c]
           /\ \A c \in Cookies : c \notin Touched(gets[s]) =>
                Synchronized(gets[s])[c] = candidates[c]
           /\ \A c \in AskedFor(r, gets[s]) :
                gets[s].token # "none" /\ Synchronized(gets[s])[c] = None => Sure(r, c, None)
<1>1. ASSUME NEW c \in Cookies, c \in Touched(gets[s])
      PROVE  /\ c \in Wanted(auth[r].ask) /\ Sure(r, c, gets[s].seen[c])
             /\ Synchronized(gets[s])[c] = gets[s].seen[c]
  <2>1. /\ c \notin gets[s].changed /\ gets[s].seen[c] # candidates[c]
        /\ gets[s].seen[c] # None \/ gets[s].token # "none"
    BY <1>1 DEF Touched
  <2>2. c \in AskedFor(r, gets[s])
    BY <2>1 DEF AnswersAreSure, CandidatesAreSure, AskedFor
  <2>3. Sure(r, c, gets[s].seen[c])
    BY <2>1, <2>2 DEF AnswersAreSure
  <2> QED
    BY <1>1, <2>2, <2>3 DEF AskedFor, Synchronized
<1>2. \A c \in Cookies : c \notin Touched(gets[s]) => Synchronized(gets[s])[c] = candidates[c]
  BY DEF Synchronized
<1>3. ASSUME NEW c \in AskedFor(r, gets[s]), gets[s].token # "none",
             Synchronized(gets[s])[c] = None
      PROVE  Sure(r, c, None)
  <2> c \in Cookies
    BY DEF AskedFor, Wanted
  <2>1. CASE c \in Touched(gets[s])
    BY <1>1, <1>3, <2>1
  <2>2. CASE c \notin Touched(gets[s])
    <3>1. candidates[c] = None
      BY <1>2, <1>3, <2>2
    <3>2. CASE c \in gets[s].changed
      BY <3>1, <3>2 DEF ChangesAreSure
    <3>3. CASE c \notin gets[s].changed
      <4>1. gets[s].seen[c] = None
        BY <1>3, <2>2, <3>1, <3>3 DEF Touched
      <4> QED
        BY <1>3, <3>3, <4>1 DEF AnswersAreSure
    <3> QED
      BY <3>2, <3>3
  <2> QED
    BY <2>1, <2>2
<1> QED
  BY <1>1, <1>2, <1>3

LEMMA AnswerKeptStep ==
    ASSUME BrowserInv, NEW r \in Requests, Running(r), NEW s \in Slots,
           Live(s), gets[s].seen # None,
           gets[s].token \in Windows => ~Finds(Synchronized(gets[s]), auth[r].ask.cookies),
           candidates' = Synchronized(gets[s]),
           gets' = Told([gets EXCEPT ![s] = None], Touched(gets[s])),
           UNCHANGED <<active, auth, page, completion, collected, listening, handler, jar, pending>>
    PROVE  BrowserInv'
<1> DEFINE get     == gets[s]
           cs      == Synchronized(get)
           touched == Touched(get)
           calls   == [gets EXCEPT ![s] = None]
           told    == Told(calls, touched)
<1>1. /\ CandidatesAreSure(r) /\ ChangesAreSure(r) /\ AnswersAreSure(r)
      /\ auth[r].storage \in Partitions
  BY KnownOfRunning
<1>2. /\ gets \in [Slots -> Gets \cup {None}] /\ candidates \in [Cookies -> Values \cup {None}]
      /\ completion \in [Windows -> {None, "idle", "timer"}]
      /\ pending \in [Partitions -> Seq(Events)]
  BY DEF BrowserInv, TypeOK
<1>3. /\ \A c \in Cookies : c \in touched =>
           /\ c \in Wanted(auth[r].ask) /\ Sure(r, c, get.seen[c])
           /\ cs[c] = get.seen[c]
      /\ \A c \in Cookies : c \notin touched => cs[c] = candidates[c]
      /\ \A c \in AskedFor(r, get) : get.token # "none" /\ cs[c] = None => Sure(r, c, None)
  BY <1>1, SynchronizedFacts
<1>4. get \in Gets /\ get.seen \in [Cookies -> Values \cup {None}]
  BY <1>2 DEF Live, Gets
<1>5. cs \in [Cookies -> Values \cup {None}]
  BY <1>2, <1>4 DEF Synchronized
<1>6. touched \in SUBSET Cookies
  BY DEF Touched
<1>7. /\ calls \in [Slots -> Gets \cup {None}] /\ calls[s] = None
      /\ \A t \in Slots \ {s} : calls[t] = gets[t]
  BY <1>2
<1>8. candidates' = cs /\ gets' = told
  OBVIOUS
<1> HIDE DEF calls, touched
<1>9. /\ told \in [Slots -> Gets \cup {None}]
      /\ \A t \in Slots :
           /\ told[t] = None <=> calls[t] = None
           /\ calls[t] # None => /\ told[t].seen = calls[t].seen
                                 /\ told[t].token = calls[t].token
                                 /\ told[t].changed = calls[t].changed \cup touched
  BY <1>6, <1>7, ToldFacts
<1> HIDE DEF told
<1>10. /\ gets' \in [Slots -> Gets \cup {None}]
       /\ \A t \in Slots : gets'[t] # None =>
            /\ t # s /\ Live(t) /\ gets'[t].seen = gets[t].seen /\ gets'[t].token = gets[t].token
            /\ gets'[t].changed = gets[t].changed \cup touched
       /\ \A t \in Slots : Live(t) /\ t # s => gets'[t] # None
  BY <1>7, <1>8, <1>9 DEF Live
<1> HIDE DEF cs
<1>11. \A c \in Cookies : \A value : Sure(r, c, value) => Sure(r, c, value)'
  BY DEF Sure, Announced
<1>12. CandidatesAreSure(r)'
  <2> SUFFICES ASSUME NEW c \in Cookies, candidates'[c] # None
               PROVE  (c \in Wanted(auth[r].ask) /\ Sure(r, c, candidates[c]))'
    BY DEF CandidatesAreSure
  <2>1. c \in Wanted(auth[r].ask) /\ Sure(r, c, cs[c])
    <3>1. CASE c \in touched
      BY <1>3, <3>1
    <3>2. CASE c \notin touched
      BY <1>1, <1>3, <1>8, <3>2 DEF CandidatesAreSure
    <3> QED
      BY <3>1, <3>2
  <2> QED
    BY <1>8, <2>1 DEF Sure, Announced, Wanted
<1>13. \A t \in Slots : Live(t) => gets[t].changed \subseteq Cookies
  BY <1>2 DEF Gets, Live
<1>14. ChangesAreSure(r)'
  <2> SUFFICES ASSUME NEW t \in Slots, Live(t)', NEW c \in gets'[t].changed
               PROVE  (c \in Wanted(auth[r].ask) /\ Sure(r, c, candidates[c]))'
    BY DEF ChangesAreSure
  <2>1. Live(t) /\ gets'[t].changed = gets[t].changed \cup touched
    BY <1>10 DEF Live
  <2>2. c \in Cookies
    BY <1>6, <1>13, <2>1
  <2>3. c \in Wanted(auth[r].ask) /\ Sure(r, c, cs[c])
    <3>1. CASE c \in touched
      BY <1>3, <2>2, <3>1
    <3>2. CASE c \notin touched
      BY <1>1, <1>3, <2>1, <2>2, <3>2 DEF ChangesAreSure
    <3> QED
      BY <3>1, <3>2
  <2> QED
    BY <1>8, <2>3 DEF Sure, Announced, Wanted
<1>15. AnswersAreSure(r)'
  <2> SUFFICES ASSUME NEW t \in Slots, Live(t)', gets'[t].seen # None, NEW c \in Cookies
               PROVE  (/\ gets[t].seen[c] # None => c \in AskedFor(r, gets[t])
                       /\ c \in AskedFor(r, gets[t]) \ gets[t].changed => Sure(r, c, gets[t].seen[c]))'
    BY DEF AnswersAreSure
  <2>1. /\ Live(t) /\ gets'[t].changed = gets[t].changed \cup touched
        /\ gets'[t].seen = gets[t].seen /\ gets'[t].token = gets[t].token
    BY <1>10 DEF Live
  <2>2. /\ gets[t].seen[c] # None => c \in AskedFor(r, gets[t])
        /\ c \in AskedFor(r, gets[t]) \ gets[t].changed => Sure(r, c, gets[t].seen[c])
    BY <1>1, <2>1 DEF AnswersAreSure
  <2>3. (c \in AskedFor(r, gets[t]))' <=> c \in AskedFor(r, gets[t])
    BY <2>1 DEF AskedFor, Wanted
  <2> QED
    BY <2>1, <2>2, <2>3 DEF Sure, Announced
<1>16. \A w \in Windows, c \in Cookies : AtFinal(r, w, c) =>
          (\/ \E t \in Slots : Live(t) /\ gets[t].token = w
           \/ completion[w] = "timer"
           \/ Announced(auth[r].storage, c))'
  <2> SUFFICES ASSUME NEW w \in Windows, NEW c \in Cookies, AtFinal(r, w, c)
               PROVE  (\/ \E t \in Slots : Live(t) /\ gets[t].token = w
                       \/ completion[w] = "timer"
                       \/ Announced(auth[r].storage, c))'
    OBVIOUS
  <2>1. \/ \E t \in Slots : Live(t) /\ gets[t].token = w
        \/ completion[w] = "timer" \/ Announced(auth[r].storage, c)
    BY DEF BrowserInv, PursuedInv
  <2>2. CASE \E t \in Slots : t # s /\ Live(t) /\ gets[t].token = w
    BY <1>10, <2>2 DEF Live
  <2>3. CASE completion[w] = "timer" \/ Announced(auth[r].storage, c)
    BY <2>3 DEF Announced
  <2>4. CASE get.token = w
    <3>1. /\ NameOf[c] \in auth[r].ask.cookies /\ jar[auth[r].storage][c] # None
          /\ get.token \in Windows /\ get.token # "none"
      BY <2>4, NothingAssumption DEF AtFinal
    <3>2. cs[c] = None
      BY <3>1 DEF Finds, cs
    <3>3. c \in AskedFor(r, get)
      BY <3>1 DEF AskedFor, Wanted
    <3>4. Sure(r, c, None)
      BY <1>3, <3>1, <3>2, <3>3
    <3>5. Announced(auth[r].storage, c)
      BY <3>1, <3>4 DEF Sure
    <3> QED
      BY <3>5 DEF Announced
  <2> QED
    BY <2>1, <2>2, <2>3, <2>4
<1>17. /\ pending' \in [Partitions -> Seq(Events)] /\ JarInv'
       /\ completion' \in [Windows -> {None, "idle", "timer"}]
       /\ \A w \in Windows : completion'[w] = None <=> completion[w] = None
       /\ candidates' \in [Cookies -> Values \cup {None}]
       /\ \A t \in Slots : gets'[t] # None => Live(t) /\ gets'[t].token = gets[t].token
  BY <1>2, <1>5, <1>8, <1>10 DEF BrowserInv, JarInv
<1> QED
  BY <1>10, <1>12, <1>14, <1>15, <1>16, <1>17, CookieStep

LEMMA JarAnswerStep ==
    ASSUME BrowserInv, NEW s \in Slots, JarAnswer(s) PROVE BrowserInv'
<1>1. active \in Requests /\ Running(active)
  BY WhoRuns DEF JarAnswer
<1>2. PICK r \in Requests : r = active
  BY <1>1
<1>3. Live(s) /\ gets[s].seen # None /\ UNCHANGED <<page, jar, pending>>
  BY DEF JarAnswer
<1>4. \/ Finish(r, "early") \/ Finish(r, "cookies")
      \/ /\ ~(gets[s].token \in Windows /\ Finds(Synchronized(gets[s]), auth[r].ask.cookies))
         /\ candidates' = Synchronized(gets[s])
         /\ gets' = Told([gets EXCEPT ![s] = None], Touched(gets[s]))
         /\ UNCHANGED <<active, auth, completion, collected, listening, handler>>
  BY <1>2 DEF JarAnswer
<1>5. CASE Finish(r, "early") \/ Finish(r, "cookies")
  BY <1>2, <1>3, <1>5, FinishInPlace DEF Answers
<1>6. CASE /\ ~(gets[s].token \in Windows /\ Finds(Synchronized(gets[s]), auth[r].ask.cookies))
           /\ candidates' = Synchronized(gets[s])
           /\ gets' = Told([gets EXCEPT ![s] = None], Touched(gets[s]))
           /\ UNCHANGED <<active, auth, completion, collected, listening, handler>>
  BY <1>1, <1>2, <1>3, <1>6, AnswerKeptStep
<1> QED
  BY <1>4, <1>5, <1>6

-----------------------------------------------------------------------------
(* The theorems. *)

LEMMA BrowserInit == Init => BrowserInv
<1> SUFFICES ASSUME Init PROVE BrowserInv
  OBVIOUS
<1>1. None \notin Requests
  BY NothingAssumption
<1>2. /\ active = None /\ \A r \in Requests : auth[r] = NewAuth
      /\ \A r \in Requests, w \in Windows : page[r][w] = "closed"
      /\ \A w \in Windows : completion[w] = None
      /\ candidates = NoCookies /\ listening = {}
      /\ \A s \in Slots : gets[s] = None
      /\ \A p \in Partitions : handler[p] = None /\ pending[p] = <<>>
  BY DEF Init
<1>3. TypeOK
  <2>1. NewAuth \in Auths
    BY DEF NewAuth, Auths, Openings, Answers
  <2>2. <<>> \in Seq(Events) /\ NoCookies \in [Cookies -> Values \cup {None}]
    BY EmptySeq DEF NoCookies
  <2>3. \A r \in Requests :
          [w \in Windows |-> "closed"] \in [Windows -> Pages \cup {"closed", "loading"}]
    OBVIOUS
  <2> QED
    BY <2>1, <2>2, <2>3 DEF Init, TypeOK
<1>4. \A r \in Requests : auth[r].phase = "new" /\ auth[r].opening = "none"
  BY <1>2 DEF NewAuth
<1>5. RequestInv
  BY <1>1, <1>2, <1>4 DEF RequestInv, Stage, Holds, Leaves, Running
<1>6. QuietInv /\ KnownInv /\ FinalInv /\ PursuedInv /\ HeadersReachTheRequest
  BY <1>1, <1>2, <1>4 DEF QuietInv, KnownInv, FinalInv, PursuedInv, HeadersReachTheRequest,
                          Running, AtFinal
<1>7. JarInv
  <2>1. Len(<<>>) = 0 /\ 1..0 = {}
    BY EmptySeq
  <2> QED
    BY <1>2, <2>1 DEF JarInv
<1> QED
  BY <1>3, <1>5, <1>6, <1>7 DEF BrowserInv

LEMMA BrowserStep == BrowserInv /\ [Next]_vars => BrowserInv'
<1> SUFFICES ASSUME BrowserInv, [Next]_vars PROVE BrowserInv'
  OBVIOUS
<1>1. ASSUME NEW r \in Requests, Asking(r) PROVE BrowserInv'
  BY <1>1, AuthenticateStep, CancelStep, ReadStaleStep, RemoveStaleStep, OpenStep DEF Asking
<1>2. ASSUME NEW r \in Requests, NEW w \in Windows, Window(r, w) PROVE BrowserInv'
  <2>1. CASE Navigates(r, w)
    BY <2>1, NavigatesStep
  <2>2. CASE ReachesCallback(r, w)
    BY <2>2, EndsStep DEF ReachesCallback, Answers
  <2>3. CASE Breaks(r, w)
    BY <2>3, EndsStep DEF Breaks, Answers
  <2>4. ASSUME NEW url \in Pages, FinishLoad(r, w, url) PROVE BrowserInv'
    BY <2>4, FinishLoadStep
  <2>5. CASE OpensPopup(r, w)
    BY <2>5, OpensPopupStep
  <2>6. CASE Closes(r, w)
    BY <2>6, ClosesStep
  <2>7. ASSUME NEW broken \in BOOLEAN, NEW names \in SUBSET Headers,
               HeadersReceived(r, w, broken, names)
        PROVE  BrowserInv'
    BY <2>7, HeadersReceivedStep
  <2> QED
    BY <1>2, <2>1, <2>2, <2>3, <2>4, <2>5, <2>6, <2>7 DEF Window
<1>3. ASSUME NEW s \in Slots, ReadJar(s) \/ JarAnswer(s) PROVE BrowserInv'
  BY <1>3, ReadJarStep, JarAnswerStep
<1>4. ASSUME NEW p \in Partitions, Deliver(p) \/ PageChangesCookie(p) PROVE BrowserInv'
  BY <1>4, DeliverStep, PageChangesCookieStep
<1>5. ASSUME NEW w \in Windows, TimerFires(w) PROVE BrowserInv'
  BY <1>5, TimerFiresStep
<1>6. CASE UNCHANGED vars
  <2>1. UNCHANGED <<active, auth, page, completion, candidates, collected, gets, listening,
                    handler, jar, pending>>
    BY <1>6 DEF vars
  <2>2. /\ jar' \in [Partitions -> [Cookies -> Values \cup {None}]]
        /\ pending' \in [Partitions -> Seq(Events)] /\ JarInv' /\ auth' \in [Requests -> Auths]
    BY <2>1 DEF BrowserInv, TypeOK, JarInv
  <2>3. \A r \in Requests : GoesOn(r)
    BY <2>1 DEF GoesOn
  <2>4. \A p \in Partitions, c \in Cookies :
          /\ Announced(p, c) => Announced(p, c)'
          /\ jar'[p][c] # jar[p][c] => Announced(p, c)'
    BY <2>1 DEF Announced
  <2> QED
    BY <2>1, <2>2, <2>3, <2>4, GoesOnStep
<1> QED
  BY <1>1, <1>2, <1>3, <1>4, <1>5, <1>6 DEF Next

LEMMA BrowserAlways == Spec => []BrowserInv
BY BrowserInit, BrowserStep, PTL DEF Spec

\* The types of the state: no step of a sign-in, of its windows or of the browser leaves them.
THEOREM BrowserTypes == Spec => []TypeOK
<1>1. BrowserInv => TypeOK
  BY DEF BrowserInv
<1> QED
  BY <1>1, BrowserAlways, PTL

\* The place of the one that may run is taken by a request that is active and by no other, and
\* a request that is done keeps a listener or a header handler only if it ended before its
\* window was open.
THEOREM LeftoversOfRequests == Spec => []LeftoversAreFromOpening
<1>1. BrowserInv => LeftoversAreFromOpening
  BY DEF BrowserInv, RequestInv, Stage, Leaves, LeftoversAreFromOpening
<1> QED
  BY <1>1, BrowserAlways, PTL

\* The headers of its pages reach the request whose window is open, unless a request that
\* was canceled before its own was open took the handler of the storage.
THEOREM HeadersOfRequests == Spec => []HeadersReachTheRequest
<1>1. BrowserInv => HeadersReachTheRequest
  BY DEF BrowserInv
<1> QED
  BY <1>1, BrowserAlways, PTL

\* However the answers of cookies.get and the "changed" events overtake each other, a
\* candidate that the jar no longer holds has an event under way that tells of its cookie.
THEOREM CandidatesAreCorrected == Spec => []StaleCandidateIsCorrected
<1>1. BrowserInv => StaleCandidateIsCorrected
  <2> SUFFICES ASSUME BrowserInv, NEW c \in Cookies, candidates[c] # None,
                      candidates[c] # jar[auth[active].storage][c]
               PROVE  \E event \in Range(pending[auth[active].storage]) : event.cookie = c
    BY DEF StaleCandidateIsCorrected
  <2>1. PICK r \in Requests : Running(r)
    <3>1. candidates # NoCookies
      BY DEF NoCookies
    <3> QED
      BY <3>1 DEF BrowserInv, QuietInv
  <2>2. CandidatesAreSure(r) /\ active = r
    BY <2>1, KnownOfRunning
  <2>3. Announced(auth[r].storage, c)
    BY <2>2 DEF CandidatesAreSure, Sure
  <2>4. auth[r].storage \in Partitions
    BY <2>1, KnownOfRunning
  <2>5. pending[auth[r].storage] \in Seq(Events)
    BY <2>4 DEF BrowserInv, TypeOK
  <2>6. PICK i \in 1..Len(pending[auth[r].storage]) : pending[auth[r].storage][i].cookie = c
    BY <2>3 DEF Announced
  <2>7. pending[auth[r].storage][i] \in Range(pending[auth[r].storage])
    BY <2>5, <2>6, LenProperties DEF Range
  <2> QED
    BY <2>2, <2>6, <2>7
<1> QED
  BY <1>1, BrowserAlways, PTL

\* A final page whose cookie is in the jar is never forgotten: a call of its completion is
\* under way, its timer runs, or an event will start it.
THEOREM FinalPagesArePursued == Spec => []FinalPageIsPursued
<1>1. BrowserInv => FinalPageIsPursued
  <2> SUFFICES ASSUME BrowserInv, NEW r \in Requests, NEW w \in Windows, NEW c \in Cookies,
                      AtFinal(r, w, c)
               PROVE  \/ \E s \in Slots : Live(s) /\ gets[s].token = w
                      \/ completion[w] = "timer"
                      \/ pending[auth[r].storage] # <<>>
    BY DEF FinalPageIsPursued
  <2>1. \/ \E s \in Slots : Live(s) /\ gets[s].token = w
        \/ completion[w] = "timer"
        \/ Announced(auth[r].storage, c)
    BY DEF BrowserInv, PursuedInv
  <2>2. ASSUME Announced(auth[r].storage, c) PROVE pending[auth[r].storage] # <<>>
    <3>1. PICK i \in 1..Len(pending[auth[r].storage]) : TRUE
      BY <2>2 DEF Announced
    <3>2. Len(<<>>) = 0 /\ 1..0 = {}
      BY EmptySeq
    <3> QED
      BY <3>1, <3>2
  <2> QED
    BY <2>1, <2>2
<1> QED
  BY <1>1, BrowserAlways, PTL

\* Only an answer of cookies.get ends a request with the cookies of its final page.
LEMMA AnswerOfFinish ==
    ASSUME TypeOK, NEW q \in Requests, NEW answer, Finish(q, answer), NEW r \in Requests
    PROVE  auth'[r].answer = answer \/ auth'[r].answer = auth[r].answer
<1> DEFINE opening == auth[q].opening
           over == [auth[q] EXCEPT !.phase = "done", !.answer = answer, !.ended = opening]
<1>1. auth \in [Requests -> Auths] /\ auth[q] \in Auths
  BY DEF TypeOK
<1>2. auth' = [auth EXCEPT ![q] = over]
  BY <1>1 DEF Finish
<1> HIDE DEF opening
<1>3. over.answer = answer
  BY <1>1 DEF Auths
<1> HIDE DEF over
<1> QED
  BY <1>1, <1>2, <1>3

LEMMA OtherAnswers ==
    ASSUME BrowserInv, Next, NEW r \in Requests, \A s \in Slots : ~JarAnswer(s),
           auth[r].answer = None
    PROVE  auth'[r].answer # "cookies"
<1>1. TypeOK /\ None # "cookies" /\ auth \in [Requests -> Auths]
  BY NothingAssumption DEF BrowserInv, TypeOK
<1>2. ASSUME NEW q \in Requests, NEW answer \in Answers, answer # "cookies", Finish(q, answer)
      PROVE  auth'[r].answer # "cookies"
  BY <1>1, <1>2, AnswerOfFinish
<1>3. ASSUME UNCHANGED auth PROVE auth'[r].answer # "cookies"
  BY <1>1, <1>3
<1>4. /\ "canceled" \in Answers /\ "failed" \in Answers /\ "callback" \in Answers
      /\ "headers" \in Answers /\ "early" \in Answers
  BY DEF Answers
<1>5. ASSUME NEW q \in Requests, Asking(q) PROVE auth'[r].answer # "cookies"
  <2>1. ASSUME NEW a \in Asks[q], NEW p \in Partitions, Authenticate(q, a, p)
        PROVE  auth'[r].answer # "cookies"
    <3> DEFINE opening == IF Wanted(a) = {} THEN "opened" ELSE "reading"
               begun   == [NewAuth EXCEPT !.phase = "active", !.opening = opening,
                                          !.ask = a, !.storage = p]
    <3>1. auth' = [auth EXCEPT ![q] = begun]
      BY <2>1 DEF Authenticate
    <3> HIDE DEF opening
    <3>2. begun.answer = None
      BY DEF NewAuth
    <3> HIDE DEF begun
    <3> QED
      BY <1>1, <3>1, <3>2
  <2>2. CASE Cancel(q)
    BY <1>2, <1>4, <2>2 DEF Cancel
  <2>3. CASE ReadStale(q)
    <3> DEFINE stale == {c \in Wanted(auth[q].ask) : jar[auth[q].storage][c] # None}
               read  == [auth[q] EXCEPT !.opening = "clearing", !.stale = stale]
    <3>1. auth' = [auth EXCEPT ![q] = read]
      BY <1>1, <2>3 DEF ReadStale
    <3> HIDE DEF stale
    <3>2. read.answer = auth[q].answer
      BY <1>1 DEF Auths
    <3> HIDE DEF read
    <3> QED
      BY <1>1, <3>1, <3>2
  <2>4. CASE RemoveStale(q)
    <3>1. PICK c : auth' = [auth EXCEPT ![q].stale = @ \ {c}]
      BY <2>4 DEF RemoveStale
    <3> DEFINE stale   == auth[q].stale \ {c}
               removed == [auth[q] EXCEPT !.stale = stale]
    <3>2. auth' = [auth EXCEPT ![q] = removed]
      BY <1>1, <3>1
    <3> HIDE DEF stale
    <3>3. removed.answer = auth[q].answer
      BY <1>1 DEF Auths
    <3> HIDE DEF removed
    <3> QED
      BY <1>1, <3>2, <3>3
  <2>5. CASE Open(q)
    <3> DEFINE opened == [auth[q] EXCEPT !.opening = "opened"]
    <3>1. auth' = [auth EXCEPT ![q] = opened]
      BY <1>1, <2>5 DEF Open
    <3>2. opened.answer = auth[q].answer
      BY <1>1 DEF Auths
    <3> HIDE DEF opened
    <3> QED
      BY <1>1, <3>1, <3>2
  <2> QED
    BY <1>5, <2>1, <2>2, <2>3, <2>4, <2>5 DEF Asking
<1>6. ASSUME NEW q \in Requests, NEW w \in Windows, Window(q, w)
      PROVE  auth'[r].answer # "cookies"
  <2>1. CASE Navigates(q, w) \/ OpensPopup(q, w) \/ \E url \in Pages : FinishLoad(q, w, url)
    BY <1>3, <2>1 DEF Navigates, OpensPopup, FinishLoad
  <2>2. CASE ReachesCallback(q, w) \/ Breaks(q, w)
    BY <1>2, <1>4, <2>2 DEF ReachesCallback, Breaks, Ends
  <2>3. CASE Closes(q, w)
    BY <1>2, <1>3, <1>4, <2>3 DEF Closes
  <2>4. ASSUME NEW broken \in BOOLEAN, NEW names \in SUBSET Headers,
               HeadersReceived(q, w, broken, names)
        PROVE  auth'[r].answer # "cookies"
    <3> DEFINE h == handler[auth[q].storage]
    <3>1. h \in Requests
      <4>1. auth[q].storage \in Partitions
        BY <2>4 DEF HeadersReceived, BrowserInv, RequestInv, Stage, Holds
      <4> QED
        BY <2>4, <4>1 DEF HeadersReceived, BrowserInv, TypeOK
    <3>2. Finish(h, "failed") \/ Finish(h, "headers") \/ UNCHANGED auth
      BY <2>4 DEF HeadersReceived
    <3> HIDE DEF h
    <3> QED
      BY <1>2, <1>3, <1>4, <3>1, <3>2
  <2> QED
    BY <1>6, <2>1, <2>2, <2>3, <2>4 DEF Window
<1>7. ASSUME NEW p \in Partitions, Deliver(p) PROVE auth'[r].answer # "cookies"
  <2>1. UNCHANGED auth \/ (active \in listening /\ Finish(active, "early"))
    BY <1>7 DEF Deliver
  <2>2. active \in listening => active \in Requests
    BY <1>1 DEF TypeOK
  <2> QED
    BY <1>2, <1>3, <1>4, <2>1, <2>2
<1>8. ASSUME \/ \E s \in Slots : ReadJar(s)
             \/ \E p \in Partitions : PageChangesCookie(p)
             \/ \E w \in Windows : TimerFires(w)
      PROVE  auth'[r].answer # "cookies"
  BY <1>3, <1>8 DEF ReadJar, PageChangesCookie, TimerFires
<1> QED
  BY <1>5, <1>6, <1>7, <1>8 DEF Next

\* Cookies of a page complete a request only while one of its windows is at the final URL.
THEOREM CompletionIsOnFinalPage == Spec => CompletesOnFinalPage
<1>1. ASSUME BrowserInv, Next, NEW r \in Requests,
             auth[r].answer = None, auth'[r].answer = "cookies"
      PROVE  \E w \in Windows : page[r][w] = "final"
  <2>1. PICK s \in Slots : JarAnswer(s)
    BY <1>1, OtherAnswers
  <2>2. active \in Requests /\ Running(active) /\ Live(s)
    BY <1>1, <2>1, WhoRuns DEF JarAnswer
  <2>3. PICK q \in Requests : q = active
    BY <2>2
  <2>4. TypeOK /\ None # "cookies"
    BY <1>1, NothingAssumption DEF BrowserInv
  <2>5. \/ UNCHANGED auth \/ Finish(q, "early")
        \/ Finish(q, "cookies") /\ gets[s].token \in Windows
    BY <2>1, <2>3 DEF JarAnswer
  <2>6. CASE UNCHANGED auth \/ Finish(q, "early")
    BY <1>1, <2>4, <2>6, AnswerOfFinish
  <2>7. CASE Finish(q, "cookies") /\ gets[s].token \in Windows
    <3>1. page[q][gets[s].token] = "final"
      BY <1>1, <2>2, <2>3, <2>7 DEF BrowserInv, FinalInv
    <3>2. \A o \in Requests \ {q} : auth'[o].answer = auth[o].answer
      BY <2>4, <2>7 DEF Finish, TypeOK
    <3>3. r = q
      BY <1>1, <2>4, <3>2
    <3> QED
      BY <2>7, <3>1, <3>3
  <2> QED
    BY <2>5, <2>6, <2>7
<1>2. BrowserInv /\ [Next]_vars =>
        [\A r \in Requests : auth[r].answer = None /\ auth'[r].answer = "cookies"
           => \E w \in Windows : page[r][w] = "final"]_vars
  BY <1>1
<1> QED
  BY <1>2, BrowserAlways, PTL DEF Spec, CompletesOnFinalPage

=============================================================================
