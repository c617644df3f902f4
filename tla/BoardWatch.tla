---------------------------- MODULE BoardWatch ----------------------------
(***************************************************************************)
(* What the presence monitor promises to a deployment: it answers once,    *)
(* and accepts a board only after the place of the original was empty and  *)
(* only if the evidence, or the operator, names it.                        *)
(***************************************************************************)
CONSTANTS
    None, Refused,  \* no answer yet, or no board
    Proven,         \* identities whose evidence is enough
    Confirmable     \* identities an operator may vouch for

VARIABLES
    vacated,        \* the place of the original board was empty
    vouched,        \* the operator has confirmed an identity
    answer          \* an identity, Refused or None

Init == vacated = FALSE /\ vouched = FALSE /\ answer = None

Vacate == ~vacated /\ vacated' = TRUE /\ UNCHANGED <<vouched, answer>>
Vouch == vacated /\ answer = None /\ vouched' = TRUE
         /\ UNCHANGED <<vacated, answer>>
Accept ==
    /\ vacated
    /\ answer = None
    /\ answer' \in Proven \cup (IF vouched THEN Confirmable ELSE {})
    /\ UNCHANGED <<vacated, vouched>>
Refuse == answer = None /\ answer' = Refused /\ UNCHANGED <<vacated, vouched>>

Next == Vacate \/ Vouch \/ Accept \/ Refuse
Spec == Init /\ [][Next]_<<vacated, vouched, answer>>
=============================================================================
