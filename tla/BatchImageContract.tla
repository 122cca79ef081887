-------------------------- MODULE BatchImageContract --------------------------
(***************************************************************************)
(* What the system promises the owner of one batch image job, whoever      *)
(* cancels, retries or dies: a job is accepted only with its price on hold, *)
(* it completes only once charged, and the hold goes back only to a job    *)
(* that was not accepted or has ended otherwise.  All of it is given up    *)
(* for the jobs whose settlement has used up its retries, except that an   *)
(* ended job stays ended and no money moves that was not on hold.          *)
(***************************************************************************)
VARIABLES reserved,   \* the price was put on hold
          charged,    \* the hold was charged
          returned,   \* the hold was given back
          job,        \* "preparing", "accepted", "completed" or "ended"
          lapsed      \* the settlement has used up its retries

vars == <<reserved, charged, returned, job, lapsed>>

Init ==
    /\ reserved = FALSE /\ charged = FALSE /\ returned = FALSE
    /\ job = "preparing" /\ lapsed = FALSE

Reserve ==
    /\ ~reserved /\ reserved' = TRUE
    /\ UNCHANGED <<charged, returned, job, lapsed>>

Accept ==
    /\ job = "preparing" /\ reserved
    /\ ~returned \/ lapsed
    /\ job' = "accepted"
    /\ UNCHANGED <<reserved, charged, returned, lapsed>>

Charge ==
    /\ job = "accepted" /\ reserved
    /\ ~returned \/ lapsed
    /\ charged' = TRUE
    /\ UNCHANGED <<reserved, returned, job, lapsed>>

Complete ==
    /\ job = "accepted" /\ charged
    /\ job' = "completed"
    /\ UNCHANGED <<reserved, charged, returned, lapsed>>

End ==
    /\ job \in {"preparing", "accepted"}
    /\ ~charged \/ lapsed
    /\ job' = "ended"
    /\ UNCHANGED <<reserved, charged, returned, lapsed>>

Return ==
    /\ reserved
    /\ \/ ~charged /\ job \in {"preparing", "ended"}
       \/ lapsed
    /\ returned' = TRUE
    /\ UNCHANGED <<reserved, charged, job, lapsed>>

Lapse ==
    /\ job = "accepted" /\ lapsed' = TRUE
    /\ UNCHANGED <<reserved, charged, returned, job>>

Next == Reserve \/ Accept \/ Charge \/ Complete \/ End \/ Return \/ Lapse

Spec == Init /\ [][Next]_vars
================================================================================
