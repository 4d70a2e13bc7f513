--------------------------- MODULE DiscoveryBoard ---------------------------
(***************************************************************************)
(* What the catalog lifecycle promises to the consumers of the cluster, as *)
(* an abstract specification: a board that maps a name to the catalog      *)
(* discovered under it.  A catalog is approved by a validation, approval   *)
(* is for good, and only approved catalogs are granted publication or      *)
(* posted on the board.  When a name is taken down, or handed from one     *)
(* catalog to another, is left open.                                       *)
(***************************************************************************)
CONSTANTS Cats, Names, Nobody

VARIABLES
    approved,  \* catalogs that have passed a validation
    granted,   \* catalogs marked as published
    board      \* name -> the catalog consumers find, or Nobody

boardVars == <<approved, granted, board>>

Init ==
    /\ approved = {}
    /\ granted = {}
    /\ board = [n \in Names |-> Nobody]

Approve(c) ==
    /\ approved' = approved \cup {c}
    /\ UNCHANGED <<granted, board>>

(***************************************************************************)
(* Publication passes to the approved catalogs `on' and is withdrawn from  *)
(* `off', at once.                                                         *)
(***************************************************************************)
Regrant(on, off) ==
    /\ on \subseteq approved
    /\ granted' = (granted \cup on) \ off
    /\ UNCHANGED <<approved, board>>

Post(n, c) ==
    /\ c \in approved
    /\ board' = [board EXCEPT ![n] = c]
    /\ UNCHANGED <<approved, granted>>

Clear(n) ==
    /\ board' = [board EXCEPT ![n] = Nobody]
    /\ UNCHANGED <<approved, granted>>

Next ==
    \/ \E c \in Cats : Approve(c)
    \/ \E on, off \in SUBSET Cats : Regrant(on, off)
    \/ \E n \in Names : Clear(n) \/ \E c \in Cats : Post(n, c)

Spec == Init /\ [][Next]_boardVars

=============================================================================
