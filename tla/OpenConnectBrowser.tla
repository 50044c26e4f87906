------------------------- MODULE OpenConnectBrowser -------------------------
(***************************************************************************)
(* A sign-in of OpenConnect in a browser window                            *)
(* (src/src/main/openConnectBrowser.ts).  A request waits for a header,    *)
(* for a callback URL or for a cookie, and is answered once.               *)
(*                                                                         *)
(* The hard part is the cookies.  What the page sets is known from two     *)
(* sources that overtake each other: the session's "changed" events and    *)
(* the answers to cookies.get, which show the jar as it was some time      *)
(* before they arrive.                                                     *)
(*                                                                         *)
(* Sequence numbers are kept as what they are compared for: a get carries  *)
(* the cookies that changed since it was asked for, and a token names its  *)
(* window until the completion it stands for is cleared.  Which of several *)
(* cookies of a name is preferred is left out.  The browser is external.   *)
(***************************************************************************)
EXTENDS Naturals, Sequences, Functions

CONSTANTS
    None,
    MaxRequests,  \* bound: requests of a run of the app
    Asks,         \* per request: what it may say (RequestTypes), valid or not
    Partitions,   \* browser storages
    Cookies,      \* the identities of cookies (cookieIdentity)
    NameOf,       \* the name of a cookie: several identities may share one
    AtOther,      \* the cookies cookies.get finds for a page other than the final one
    Values,       \* values of live cookies
    Windows,      \* windows a request may have open: MAXIMUM_BROWSER_WINDOW_COUNT
    Root,         \* the first of them
    Slots,        \* bound: cookies.get calls under way
    MaxPending    \* bound: "changed" events under way

Requests == 1..MaxRequests
Names    == {NameOf[c] : c \in Cookies}
Pages    == {"other", "final"}
Headers  == {"saml-username", "prelogin-cookie", "portal-userauthcookie"}

RequestTypes == [ cookies : SUBSET Names, early : SUBSET Names, final : BOOLEAN,
                  headers : SUBSET Headers, callback : BOOLEAN ]

ASSUME BrowserAssumption ==
    /\ NameOf \in [Cookies -> Names] /\ AtOther \subseteq Cookies
    /\ Root \in Windows /\ None \notin Values
    /\ Asks \in [Requests -> SUBSET RequestTypes]
    /\ MaxRequests \in Nat \ {0} /\ MaxPending \in Nat

VARIABLES
    active,     \* activeAuthentication: the request that may be canceled, or None
    auth,       \* per request: how far it is, and its answer
    page,       \* per request and window: what the window shows
    completion, \* cookieCompletions of the active request: its timer, if any
    candidates, \* cookieCandidates of the active request
    collected,  \* collectedHeaders of the active request
    gets,       \* captureCookies calls that wait for cookies.get
    listening,  \* requests whose cookieListener is registered
    handler,    \* per storage: whose onHeadersReceived is installed
    jar,        \* per storage: the browser's cookies
    pending     \* per storage: "changed" events not delivered yet

vars == <<active, auth, page, completion, candidates, collected, gets,
          listening, handler, jar, pending>>

cookieVars == <<completion, candidates, gets>>

Answers == { None, "canceled", "failed", "callback", "headers", "early", "cookies" }

Openings == { "none", "reading", "clearing", "opened" }

Auths == [ phase : {"new", "active", "done"},
           opening : Openings,        \* the asynchronous part of authenticate
           stale : SUBSET Cookies,    \* cookies of earlier requests still to remove
           ask : RequestTypes \cup {None}, storage : Partitions \cup {None},
           answer : Answers,
          ended : Openings \cup {None} ]  \* history: how far opening was at the end

NewAuth == [ phase |-> "new", opening |-> "none", stale |-> {}, ask |-> None,
             storage |-> None, answer |-> None, ended |-> None ]

\* token: the window whose completion is to be tried, "stale" once that
\* completion has been cleared, "none" for a page other than the final one.
Gets == [ token : Windows \cup {"stale", "none"},
          seen : [Cookies -> Values \cup {None}] \cup {None},  \* the jar once it is read
          changed : SUBSET Cookies ]                           \* since it was asked for

\* Nothing known, installed, timed or under way is told apart from what is, and a
\* token of no window from one of a window.
ASSUME NothingAssumption ==
    /\ None \notin Requests /\ None \notin Gets /\ None \notin {"idle", "timer", "cookies"}
    /\ Windows \cap {"stale", "none"} = {}

Events == [cookie : Cookies, value : Values \cup {None}]

NoCookies == [c \in Cookies |-> None]

Init ==
    /\ active = None
    /\ auth = [r \in Requests |-> NewAuth]
    /\ page = [r \in Requests |-> [w \in Windows |-> "closed"]]
    /\ completion = [w \in Windows |-> None]
    /\ candidates = NoCookies
    /\ collected = {}
    /\ gets = [s \in Slots |-> None]
    /\ listening = {}
    /\ handler = [p \in Partitions |-> None]
    /\ jar \in [Partitions -> [Cookies -> Values \cup {None}]]  \* kept by earlier runs
    /\ pending = [p \in Partitions |-> <<>>]

\* parseRequest: a request completes in one of three ways.
CallbackMode(a) == a.callback /\ a.headers = {} /\ a.cookies = {} /\ a.early = {} /\ ~a.final
HeaderMode(a)   == ~a.callback /\ a.headers /= {} /\ a.cookies = {} /\ a.early = {} /\ ~a.final
CookieMode(a)   == ~a.callback /\ a.headers = {} /\ a.cookies /= {} /\ a.final

ValidRequest(a) ==
    /\ CallbackMode(a) \/ HeaderMode(a) \/ CookieMode(a)
    /\ a.cookies \cap a.early = {}

Wanted(a) == {c \in Cookies : NameOf[c] \in a.cookies \cup a.early}

HeadersComplete(asked, names) ==
    IF Headers \subseteq asked
    THEN /\ "saml-username" \in names
         /\ names \cap {"prelogin-cookie", "portal-userauthcookie"} /= {}
    ELSE asked \subseteq names

-----------------------------------------------------------------------------
(* The end of a request: finish and fail. *)

\* Variant: cleanup leaves onHeadersReceived installed.
FinishKeepsHandler(r, answer) ==
    /\ auth' = [auth EXCEPT ![r].phase = "done", ![r].answer = answer,
                            ![r].ended = auth[r].opening]
    /\ active' = IF active = r THEN None ELSE active
    /\ completion' = [w \in Windows |-> None]
    /\ listening' = listening \ {r}
    /\ handler' = handler
    /\ candidates' = NoCookies
    /\ collected' = {}
    /\ gets' = [s \in Slots |-> None]

\* What a finished request collected and waits for is never read again: its
\* cookies.get calls return to a turn that sees finished().
Finish(r, answer) ==
    /\ auth' = [auth EXCEPT ![r].phase = "done", ![r].answer = answer,
                            ![r].ended = auth[r].opening]
    /\ active' = IF active = r THEN None ELSE active
    /\ completion' = [w \in Windows |-> None]
    /\ listening' = listening \ {r}
    /\ handler' = [handler EXCEPT ![auth[r].storage] = None]
    /\ candidates' = NoCookies
    /\ collected' = {}
    /\ gets' = [s \in Slots |-> None]

\* Variant: the handler is left to whoever installed one.
OpenedUnheard(r, storage) ==
    /\ listening' = listening \cup {r}
    /\ handler' = handler
    /\ page' = [page EXCEPT ![r][Root] = "loading"]

\* The turn that opens the window: the listeners, then the window, which loads the URL.
Opened(r, storage) ==
    /\ listening' = listening \cup {r}
    /\ handler' = [handler EXCEPT ![storage] = r]
    /\ page' = [page EXCEPT ![r][Root] = "loading"]

Authenticate(r, a, p) ==
    /\ active = None
    /\ auth[r].phase = "new" /\ \A q \in 1..(r - 1) : auth[q].phase /= "new"
    /\ ValidRequest(a)
    /\ active' = r
    /\ LET opening == IF Wanted(a) = {} THEN "opened" ELSE "reading"
       IN  auth' = [auth EXCEPT ![r] =
                      [NewAuth EXCEPT !.phase = "active", !.opening = opening,
                                      !.ask = a, !.storage = p]]
    /\ IF Wanted(a) = {} THEN Opened(r, p) ELSE UNCHANGED <<listening, handler, page>>
    /\ UNCHANGED <<completion, candidates, collected, gets, jar, pending>>

\* The window is gone, or the user ends the sign-in where it was asked for.
Cancel(r) ==
    /\ active = r
    /\ Finish(r, "canceled")
    /\ UNCHANGED <<page, jar, pending>>

\* Cookies of an earlier sign-in are read and removed one by one.  Nothing looks
\* at finished() until the window is open.
ReadStale(r) ==
    /\ auth[r].opening = "reading"
    /\ auth' = [auth EXCEPT ![r].opening = "clearing",
                            ![r].stale = {c \in Wanted(auth[r].ask) :
                                            jar[auth[r].storage][c] /= None}]
    /\ UNCHANGED <<active, page, completion, candidates, collected, gets,
                   listening, handler, jar, pending>>

\* The browser tells of a change: a value that is replaced is removed first.
Changed(p, c, value) ==
    /\ jar' = [jar EXCEPT ![p][c] = value]
    /\ LET removal   == IF jar[p][c] = None THEN <<>> ELSE <<[cookie |-> c, value |-> None]>>
           insertion == IF value = None THEN <<>> ELSE <<[cookie |-> c, value |-> value]>>
       IN  pending' = [pending EXCEPT ![p] = @ \o removal \o insertion]
    /\ Len(pending'[p]) <= MaxPending

RemoveStale(r) ==
    /\ auth[r].opening = "clearing"
    /\ \E c \in auth[r].stale :
         /\ auth' = [auth EXCEPT ![r].stale = @ \ {c}]
         /\ Changed(auth[r].storage, c, None)
    /\ UNCHANGED <<active, page, completion, candidates, collected, gets, listening, handler>>

Open(r) ==
    /\ auth[r].opening = "clearing" /\ auth[r].stale = {}
    /\ auth' = [auth EXCEPT ![r].opening = "opened"]
    /\ Opened(r, auth[r].storage)
    /\ UNCHANGED <<active, completion, candidates, collected, gets, jar, pending>>

-----------------------------------------------------------------------------
(* The cookies of the active request. *)

Live(s) == gets[s] /= None

\* The calls under way, told that these cookies have changed.
Told(calls, cookies) ==
    [s \in Slots |-> IF calls[s] = None THEN None
                     ELSE [calls[s] EXCEPT !.changed = @ \cup cookies]]

\* Variant: the answer wins over what changed meanwhile.
TouchedByAll(get) ==
    {c \in Cookies :
       /\ get.seen[c] /= candidates[c]
       /\ get.seen[c] /= None \/ get.token /= "none"}

\* synchronizeCookieCandidates: what changed since the call was asked for is newer
\* than its answer.  Only the answer for the final page tells what is gone.
Touched(get) ==
    {c \in Cookies \ get.changed :
       /\ get.seen[c] /= candidates[c]
       /\ get.seen[c] /= None \/ get.token /= "none"}

Synchronized(get) ==
    [c \in Cookies |-> IF c \in Touched(get) THEN get.seen[c] ELSE candidates[c]]

\* selectCookie finds one for one of these names.
Finds(cs, names) == \E c \in Cookies : NameOf[c] \in names /\ cs[c] /= None

\* Variant: a change of a cookie schedules nothing.
ScheduledNever == completion

\* scheduleCookieCompletion
Scheduled == [w \in Windows |-> IF completion[w] = None THEN None ELSE "timer"]

\* Variant: a token names the window alone.
ClearedNot(w) == gets

\* clearCookieCompletion: the timer is gone, and no token of this completion holds.
Cleared(w) ==
    [s \in Slots |-> IF Live(s) /\ gets[s].token = w
                     THEN [gets[s] EXCEPT !.token = "stale"] ELSE gets[s]]

ClearCompletion(r, w) ==
    IF active = r
    THEN /\ completion' = [completion EXCEPT ![w] = None]
         /\ gets' = Cleared(w)
    ELSE UNCHANGED <<completion, gets>>

\* captureCookies up to its await: one more cookies.get is under way.
Capture(calls, token) ==
    /\ \E s \in Slots : calls[s] = None
    /\ LET s == CHOOSE t \in Slots : calls[t] = None
       IN  gets' = [calls EXCEPT ![s] = [token |-> token, seen |-> None, changed |-> {}]]

\* The browser reads the jar: for the final page all of it, else what matches the page.
ReadJar(s) ==
    /\ Live(s) /\ gets[s].seen = None
    /\ LET a     == auth[active]
           asked == {c \in Wanted(a.ask) : gets[s].token = "none" => c \in AtOther}
       IN  gets' = [gets EXCEPT ![s].seen =
                      [c \in Cookies |-> IF c \in asked THEN jar[a.storage][c] ELSE None]]
    /\ UNCHANGED <<active, auth, page, completion, candidates, collected,
                   listening, handler, jar, pending>>

\* captureCookies after its await.
JarAnswer(s) ==
    /\ Live(s) /\ gets[s].seen /= None
    /\ LET a         == auth[active].ask
           cs        == Synchronized(gets[s])
           completes == gets[s].token \in Windows /\ Finds(cs, a.cookies)
       IN  \/ /\ Finds(cs, a.early)
              /\ Finish(active, "early")
           \/ /\ ~Finds(cs, a.early) /\ completes
              /\ Finish(active, "cookies")
           \/ /\ ~Finds(cs, a.early) /\ ~completes
              /\ candidates' = cs
              /\ gets' = Told([gets EXCEPT ![s] = None], Touched(gets[s]))
              /\ UNCHANGED <<active, auth, completion, collected, listening, handler>>
    /\ UNCHANGED <<page, jar, pending>>

\* cookieListener.  The listener of a finished request returns at once.
Deliver(p) ==
    /\ pending[p] /= <<>>
    /\ pending' = [pending EXCEPT ![p] = Tail(@)]
    /\ LET event == Head(pending[p])
           a     == auth[active].ask
           name  == NameOf[event.cookie]
           hears == /\ active \in listening /\ auth[active].storage = p
                    /\ event.cookie \in Wanted(a)
           ends  == event.value /= None /\ name \in a.early
       IN  \/ /\ hears /\ ends
              /\ Finish(active, "early")
           \/ /\ hears /\ ~ends
              /\ candidates' = [candidates EXCEPT ![event.cookie] = event.value]
              /\ gets' = Told(gets, {event.cookie})
              /\ completion' = IF name \in a.cookies THEN Scheduled ELSE completion
              /\ UNCHANGED <<active, auth, collected, listening, handler>>
           \/ /\ ~hears
              /\ UNCHANGED <<active, auth, completion, candidates, collected, gets,
                             listening, handler>>
    /\ UNCHANGED <<page, jar>>

\* The timer of scheduleCookieCompletion, 100 ms after a cookie has changed.
TimerFires(w) ==
    /\ completion[w] = "timer"
    /\ completion' = [completion EXCEPT ![w] = "idle"]
    /\ Capture(gets, w)
    /\ UNCHANGED <<active, auth, page, candidates, collected, listening, handler, jar, pending>>

-----------------------------------------------------------------------------
(* What happens in the windows (attachContents). *)

IsOpen(r, w) == page[r][w] /= "closed"

\* A listener of a window ends its request, unless it has ended.
Ends(r, answer) ==
    /\ auth[r].phase = "active"
    /\ Finish(r, answer)
    /\ UNCHANGED <<page, jar, pending>>

\* The main frame is about to leave its page.
Navigates(r, w) ==
    /\ IsOpen(r, w)
    /\ ClearCompletion(r, w)
    /\ page' = [page EXCEPT ![r][w] = "loading"]
    /\ UNCHANGED <<active, auth, candidates, collected, listening, handler, jar, pending>>

\* will-navigate, will-redirect, setWindowOpenHandler: a callback URL ends the request.
ReachesCallback(r, w) ==
    /\ IsOpen(r, w) /\ auth[r].ask.callback
    /\ Ends(r, "callback")

\* A URL that is not allowed, a load that fails, a renderer that dies, one window too many.
Breaks(r, w) ==
    /\ IsOpen(r, w)
    /\ Ends(r, "failed")

FinishLoad(r, w, url) ==
    /\ page[r][w] = "loading"
    /\ url = "final" => auth[r].ask.final
    /\ page' = [page EXCEPT ![r][w] = url]
    /\ IF active = r /\ auth[r].ask.cookies /= {}
       THEN /\ completion' = [completion EXCEPT ![w] = IF url = "final" THEN "idle" ELSE None]
            /\ Capture(Cleared(w), IF url = "final" THEN w ELSE "none")
       ELSE UNCHANGED <<completion, gets>>
    /\ UNCHANGED <<active, auth, candidates, collected, listening, handler, jar, pending>>

OpensPopup(r, w) ==
    /\ IsOpen(r, w) /\ auth[r].phase = "active"
    /\ \E v \in Windows : ~IsOpen(r, v) /\ page' = [page EXCEPT ![r][v] = "loading"]
    /\ UNCHANGED <<active, auth, completion, candidates, collected, gets,
                   listening, handler, jar, pending>>

\* A window closes: by the user, or because its request has ended.
Closes(r, w) ==
    /\ IsOpen(r, w)
    /\ page' = [page EXCEPT ![r][w] = "closed"]
    /\ IF w = Root /\ auth[r].phase = "active"
       THEN Finish(r, "canceled")
       ELSE /\ ClearCompletion(r, w)
            /\ UNCHANGED <<active, auth, candidates, collected, listening, handler>>
    /\ UNCHANGED <<jar, pending>>

\* onHeadersReceived: the handler of the storage sees the pages of all its windows.
HeadersReceived(r, w, broken, names) ==
    /\ page[r][w] = "loading"
    /\ LET h   == handler[auth[r].storage]
           all == collected \cup names
       IN  /\ h /= None /\ auth[h].phase = "active"
           /\ names \subseteq auth[h].ask.headers   \* requestedHeaders; the others are left alone
           /\ \/ broken /\ Finish(h, "failed")
              \/ /\ ~broken /\ auth[h].ask.headers /= {}
                 /\ IF HeadersComplete(auth[h].ask.headers, all)
                    THEN Finish(h, "headers")
                    ELSE /\ collected' = all
                         /\ UNCHANGED <<active, auth, completion, candidates, gets,
                                        listening, handler>>
    /\ UNCHANGED <<page, jar, pending>>

\* A page or its server changes a cookie of the storage.
PageChangesCookie(p) ==
    /\ \E r \in Requests, w \in Windows : IsOpen(r, w) /\ auth[r].storage = p
    /\ \E c \in Cookies, value \in Values \cup {None} :
         value /= jar[p][c] /\ Changed(p, c, value)
    /\ UNCHANGED <<active, auth, page, completion, candidates, collected, gets,
                   listening, handler>>

-----------------------------------------------------------------------------
Asking(r) ==
    \/ \E a \in Asks[r], p \in Partitions : Authenticate(r, a, p)
    \/ Cancel(r)
    \/ ReadStale(r)
    \/ RemoveStale(r)
    \/ Open(r)

Window(r, w) ==
    \/ Navigates(r, w)
    \/ ReachesCallback(r, w)
    \/ Breaks(r, w)
    \/ \E url \in Pages : FinishLoad(r, w, url)
    \/ OpensPopup(r, w)
    \/ Closes(r, w)
    \/ \E broken \in BOOLEAN, names \in SUBSET Headers : HeadersReceived(r, w, broken, names)

Next ==
    \/ \E r \in Requests : Asking(r) \/ \E w \in Windows : Window(r, w)
    \/ \E s \in Slots : ReadJar(s) \/ JarAnswer(s)
    \/ \E p \in Partitions : Deliver(p) \/ PageChangesCookie(p)
    \/ \E w \in Windows : TimerFires(w)

Spec == Init /\ [][Next]_vars

-----------------------------------------------------------------------------
(* Properties. *)

\* The types of the state.
TypeOK ==
    /\ active \in Requests \cup {None}
    /\ auth \in [Requests -> Auths]
    /\ page \in [Requests -> [Windows -> Pages \cup {"closed", "loading"}]]
    /\ completion \in [Windows -> {None, "idle", "timer"}]
    /\ candidates \in [Cookies -> Values \cup {None}]
    /\ collected \subseteq Headers
    /\ gets \in [Slots -> Gets \cup {None}]
    /\ listening \subseteq Requests
    /\ handler \in [Partitions -> Requests \cup {None}]
    /\ jar \in [Partitions -> [Cookies -> Values \cup {None}]]
    /\ pending \in [Partitions -> Seq(Events)]

\* A candidate the jar no longer holds is one the browser has yet to tell of: an
\* answer of cookies.get never puts back what a change already heard of replaced
\* (cookieMutationSequences against snapshotSequence).
StaleCandidateIsCorrected ==
    \A c \in Cookies :
      LET p == auth[active].storage
      IN  candidates[c] /= None /\ candidates[c] /= jar[p][c] =>
            \E event \in Range(pending[p]) : event.cookie = c

\* What a request leaves behind (cleanup): never the place of the one that may run,
\* which would keep the next from starting; a listener or a header handler only if
\* it ended before its window was open: that turn looks at nothing (lines 581-601).
LeftoversAreFromOpening ==
    \A r \in Requests :
      /\ auth[r].phase = "active" <=> active = r
      /\ auth[r].phase = "done" /\ (r \in listening \/ \E p \in Partitions : handler[p] = r)
           => auth[r].ended \in {"reading", "clearing"}

\* A request whose window is open sees the headers of its pages, unless such a
\* leftover has taken or will take the only handler of the storage.
HeadersReachTheRequest ==
    active /= None /\ auth[active].opening = "opened" =>
      \/ handler[auth[active].storage] = active
      \/ \E r \in Requests : auth[r].phase = "done" /\ handler[auth[active].storage] = r
                             /\ auth[r].ended \in {"reading", "clearing"}

\* Only a page that is at the final URL now is completed by its cookies, never one
\* that was left while cookies.get was under way (the completion's token).
CompletesOnFinalPage ==
    [][\A r \in Requests :
         auth[r].answer = None /\ auth'[r].answer = "cookies"
           => \E w \in Windows : page[r][w] = "final"]_vars

AtFinal(r, w, c) ==
    /\ auth[r].phase = "active"
    /\ page[r][w] = "final"
    /\ NameOf[c] \in auth[r].ask.cookies /\ jar[auth[r].storage][c] /= None

\* A final page with its cookie in the jar is never forgotten: a cookies.get of its
\* completion, its timer, or a change the browser has yet to tell of will complete
\* the request (did-finish-load and scheduleCookieCompletion).
FinalPageIsPursued ==
    \A r \in Requests, w \in Windows, c \in Cookies :
      AtFinal(r, w, c) =>
        \/ \E s \in Slots : Live(s) /\ gets[s].token = w
        \/ completion[w] = "timer"
        \/ pending[auth[r].storage] /= <<>>

=============================================================================
