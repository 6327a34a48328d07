---------------------------- MODULE HeadFrontier ----------------------------
(***************************************************************************)
(* What the head machinery of a scope promises (docs/design/               *)
(* ENG4-HEAD-RECONCILIATION.md 3, as heads.ts implements it): a frontier   *)
(* of open heads, at most one of them current, that a write extends or     *)
(* widens and only a reconcile narrows.  A binary older than the promise   *)
(* writes too, but designates nothing: it can leave the designation        *)
(* behind, never move it, and then only a reconcile makes it good.         *)
(***************************************************************************)
CONSTANTS State, NoState

VARIABLES
    seen,       \* every state the scope ever had
    open,       \* the heads a reader is shown
    current,    \* the designated one, or NoState
    designates  \* whether the deployed binary knows of designations

frontierVars == <<seen, open, current, designates>>

FrontierInit ==
    seen = {} /\ open = {} /\ current = NoState /\ designates \in BOOLEAN

(* The first write. *)
Start(s) ==
    /\ seen = {}
    /\ seen' = {s} /\ open' = {s}
    /\ current' = IF designates THEN s ELSE NoState
    /\ UNCHANGED designates

(* A write on an open head replaces it, in the designation too. *)
Extend(h, s) ==
    /\ h \in open /\ s \notin seen
    /\ seen' = seen \cup {s}
    /\ open' = (open \ {h}) \cup {s}
    /\ current' = IF designates /\ current = h THEN s ELSE current
    /\ UNCHANGED designates

(* A write on anything else opens one more head and designates nothing. *)
Branch(s) ==
    /\ seen # {} /\ s \notin seen
    /\ seen' = seen \cup {s}
    /\ open' = open \cup {s}
    /\ UNCHANGED <<current, designates>>

(* A reconcile leaves one head, the current one. *)
Fold(s) ==
    /\ designates /\ open # {} /\ s \notin seen
    /\ seen' = seen \cup {s}
    /\ open' = {s} /\ current' = s
    /\ UNCHANGED designates

(* Another binary is deployed. *)
Deploy ==
    /\ designates' = ~designates
    /\ UNCHANGED <<seen, open, current>>

FrontierNext ==
    \/ Deploy
    \/ \E s \in State :
          \/ Start(s) \/ Branch(s) \/ Fold(s)
          \/ \E h \in State : Extend(h, s)

FrontierSpec == FrontierInit /\ [][FrontierNext]_frontierVars
=============================================================================
