---------------------------- MODULE ProfileBook ----------------------------
(***************************************************************************)
(* What the profile store promises (src/src/main/profiles.ts): profiles    *)
(* that each have a config, and one of them chosen as long as there is     *)
(* any.  Every change is one step: the files, the rows and the selection   *)
(* that ProfileStore keeps apart never show one without the others.        *)
(***************************************************************************)
CONSTANTS
    Ids,       \* what a profile may be called by
    Contents,  \* configs
    None       \* null

VARIABLES
    book,      \* the config of every profile there is
    chosen     \* the selected profile

vars == <<book, chosen>>

TypeOK ==
    /\ \E known \in SUBSET Ids : book \in [known -> Contents]
    /\ chosen \in DOMAIN book \/ (chosen = None /\ DOMAIN book = {})

Init == TypeOK

Add(id, content) ==
    /\ id \in Ids \ DOMAIN book
    /\ book' = [i \in DOMAIN book \cup {id} |-> IF i = id THEN content ELSE book[i]]
    /\ chosen' = id

Change(id, content) ==
    /\ id \in DOMAIN book
    /\ book' = [book EXCEPT ![id] = content]
    /\ UNCHANGED chosen

Choose(id) ==
    /\ id \in DOMAIN book
    /\ chosen' = id
    /\ UNCHANGED book

\* Another profile takes the place of the chosen one, if there is any.
Remove(id) ==
    LET left == DOMAIN book \ {id} IN
    /\ id \in DOMAIN book
    /\ book' = [i \in left |-> book[i]]
    /\ chosen' \in IF chosen # id THEN {chosen} ELSE IF left = {} THEN {None} ELSE left

Next ==
    \E id \in Ids :
        \/ \E content \in Contents : Add(id, content) \/ Change(id, content)
        \/ Choose(id)
        \/ Remove(id)

Spec == Init /\ [][Next]_vars
=============================================================================
