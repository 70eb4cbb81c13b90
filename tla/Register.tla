------------------------------ MODULE Register ------------------------------
(***************************************************************************)
(* What the controller assumes of its saved state: a register of versions. *)
(* A write takes effect at once or not at all; once it has returned, no    *)
(* crash takes it back as long as the register is sound.                   *)
(***************************************************************************)
EXTENDS Naturals

VARIABLES stored,   \* The version a reader would get.
          acked,    \* The last version whose write returned.
          sound     \* Does a return still mean that the version is durable?

vars == <<stored, acked, sound>>

Init == stored = 0 /\ acked = 0 /\ sound = TRUE

Write ==
    /\ stored' = stored + 1
    /\ UNCHANGED <<acked, sound>>

Return ==
    /\ acked' = stored
    /\ UNCHANGED <<stored, sound>>

\* A crash may undo what has not returned.
Forget ==
    /\ stored' \in (IF sound THEN acked ELSE 0)..stored
    /\ UNCHANGED <<acked, sound>>

Spoil ==
    /\ sound' = FALSE
    /\ UNCHANGED <<stored, acked>>

Next == Write \/ Return \/ Forget \/ Spoil

Spec == Init /\ [][Next]_vars

=============================================================================
