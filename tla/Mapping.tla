------------------------------ MODULE Mapping ------------------------------
(***************************************************************************)
(* What unique_bijection (observer/mapping.py) returns: the only complete  *)
(* matching of saved outputs with live ones.  Module MappingSearch has the *)
(* search by which it is found.                                            *)
(***************************************************************************)
EXTENDS Functions

\* The only element of a set, if it has just one.
Sole(S) == {x \in S : S = {x}}

\* The complete matchings, by definition.
Matchings(candidates, required) ==
    {f \in [DOMAIN candidates -> required] :
        /\ \A s \in DOMAIN candidates : f[s] \in candidates[s]
        /\ f \in Bijection(DOMAIN candidates, required)}

\* The sole matching, or none: ambiguity raises, and its caller goes without.
UniqueBijection(candidates, required) == Sole(Matchings(candidates, required))

=============================================================================
