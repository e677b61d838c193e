-------------------------- MODULE AdmissionContract --------------------------
(***************************************************************************)
(* What the driver manager promises to everything that works through a     *)
(* driver: at any time at most one native generation is published; a       *)
(* published generation is withdrawn before another one takes its place,   *)
(* is newer than every generation published before it, and is never        *)
(* published again; a safety quarantine ends publication for good.         *)
(***************************************************************************)
EXTENDS Naturals

VARIABLES
    published,   \* the generation that admits work, 0 if none
    last,        \* the newest generation ever published
    blocked      \* safety quarantine

contractVars == <<published, last, blocked>>

Init == published = 0 /\ last = 0 /\ blocked = FALSE

Publish ==
    /\ published = 0
    /\ ~blocked
    /\ published' \in Nat
    /\ published' > last
    /\ last' = published'
    /\ UNCHANGED blocked

Withdraw ==
    /\ published # 0
    /\ published' = 0
    /\ UNCHANGED <<last, blocked>>

Block ==
    /\ published = 0
    /\ ~blocked
    /\ blocked' = TRUE
    /\ UNCHANGED <<published, last>>

Next == Publish \/ Withdraw \/ Block

Spec == Init /\ [][Next]_contractVars
=============================================================================
