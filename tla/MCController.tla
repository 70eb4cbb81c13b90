---------------------------- MODULE MCController ----------------------------
(***************************************************************************)
(* Instances of Controller for TLC.  A dock profile (an external screen)   *)
(* and the laptop profile; physical tokens "docked" and "alone".           *)
(***************************************************************************)
EXTENDS Controller

\* A valid sample that matches nothing.
Plain(token) ==
    [token |-> token, valid |-> TRUE, unavailable |-> FALSE,
     external |-> token = "docked", eligible |-> {}, exact |-> None,
     current |-> {}, probe |-> None, identified |-> TRUE, uncertain |-> {}]

Exact(token, p) ==
    [Plain(token) EXCEPT !.eligible = {p}, !.exact = p, !.current = {p}]

Eligible(token, p) == [Plain(token) EXCEPT !.eligible = {p}]

Invalid(token) == [Plain(token) EXCEPT !.valid = FALSE]

\* Every sample the runs choose from.
Samples ==
    [dock_exact    |-> Exact("docked", "dock"),
     dock_wrong    |-> Eligible("docked", "dock"),
     dock_broken   |-> [Plain("docked") EXCEPT !.probe = "dock", !.identified = FALSE],
     dock_blind    |-> [Plain("docked") EXCEPT !.current = {"dock"}, !.identified = FALSE,
                                               !.uncertain = {"dock"}],
     dock_unknown  |-> Plain("docked"),
     dock_torn     |-> Invalid("docked"),
     laptop_exact  |-> Exact("alone", "laptop"),
     laptop_wrong  |-> Eligible("alone", "laptop"),
     laptop_torn   |-> [Invalid("alone") EXCEPT !.unavailable = TRUE]]

MCEvidence == [k \in Keys |-> Samples[k]]

=============================================================================
