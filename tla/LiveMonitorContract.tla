------------------------- MODULE LiveMonitorContract -------------------------
(***************************************************************************)
(* What the live-monitor session promises about the one monitor slot of a  *)
(* device: one owner at a time; an owner that has sent nothing may give    *)
(* the slot back unused; once an enable may have reached the device the    *)
(* obligation to clean up is never forgotten, and no other owner is        *)
(* admitted while it stands, whatever the device answers; a restart ends   *)
(* ownership for good.                                                     *)
(***************************************************************************)
VARIABLES
    owned,       \* the ownership gate is held
    obligated,   \* an enable may have reached the device
    retired      \* this process was told that it is a restart

contractVars == <<owned, obligated, retired>>

Init == ~owned /\ ~obligated /\ ~retired

Claim ==
    /\ ~owned /\ ~obligated /\ ~retired
    /\ owned'
    /\ UNCHANGED <<obligated, retired>>

Abandon ==
    /\ owned /\ ~obligated
    /\ ~owned'
    /\ UNCHANGED <<obligated, retired>>

Emit ==
    /\ owned /\ ~obligated
    /\ obligated'
    /\ UNCHANGED <<owned, retired>>

Release ==
    /\ owned /\ obligated
    /\ ~owned'
    /\ UNCHANGED <<obligated, retired>>

Restart ==
    /\ ~retired
    /\ retired' /\ ~owned' /\ ~obligated'

Next == Claim \/ Abandon \/ Emit \/ Release \/ Restart

Spec == Init /\ [][Next]_contractVars
=============================================================================
