----------------------------- MODULE WorkerUnit -----------------------------
(***************************************************************************)
(* What the transaction protocol promises its controller about one action  *)
(* id.  A unit is submitted at most once; while it runs it leaves one      *)
(* verdict or none, which nothing replaces; what the controller is told is *)
(* the verdict of a unit that has ended.  The unit records of module       *)
(* Controller are units of this kind.                                      *)
(***************************************************************************)
CONSTANTS Verdicts,    \* The terminal lifecycles.
          NoVerdict

VARIABLES phase,       \* "unsubmitted", "alive" or "ended"
          verdict,     \* What the unit left on disk.
          told         \* What the controller acted on.

vars == <<phase, verdict, told>>

Init ==
    /\ phase = "unsubmitted"
    /\ verdict = NoVerdict
    /\ told = NoVerdict

\* The service manager accepts the start.
Submit ==
    /\ phase = "unsubmitted"
    /\ phase' = "alive"
    /\ UNCHANGED <<verdict, told>>

\* The manager refuses, and the refusal is recorded and told in one step.
Refuse ==
    /\ phase = "unsubmitted"
    /\ phase' = "ended"
    /\ verdict' = "FAILED"
    /\ told' = "FAILED"

\* The claim is on disk, but the unit was not and will not be started.
Lose ==
    /\ phase = "unsubmitted"
    /\ phase' = "ended"
    /\ UNCHANGED <<verdict, told>>

Report ==
    /\ phase = "alive"
    /\ verdict = NoVerdict
    /\ verdict' \in Verdicts
    /\ UNCHANGED <<phase, told>>

\* A unit ends; its verdict may be missing for ever.
End ==
    /\ phase = "alive"
    /\ phase' = "ended"
    /\ UNCHANGED <<verdict, told>>

\* Somebody else starts the unit again.
Again ==
    /\ phase = "ended"
    /\ phase' = "alive"
    /\ UNCHANGED <<verdict, told>>

Tell ==
    /\ phase = "ended"
    /\ verdict # NoVerdict
    /\ told' = verdict
    /\ UNCHANGED <<phase, verdict>>

Next == Submit \/ Refuse \/ Lose \/ Report \/ End \/ Again \/ Tell

Spec == Init /\ [][Next]_vars

=============================================================================
