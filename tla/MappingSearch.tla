--------------------------- MODULE MappingSearch ---------------------------
(***************************************************************************)
(* The depth-first search of unique_bijection (observer/mapping.py), which *)
(* stops at the second matching it finds.                                  *)
(***************************************************************************)
EXTENDS Mapping, Naturals, FiniteSets, FiniteSetsExt

\* MAX_MAPPING_SOLUTIONS
MaxSolutions == 2

Full(solutions) == Cardinality(solutions) >= MaxSolutions

\* The next saved output: one with the fewest candidates.
Scarcest(left, candidates) ==
    CHOOSE s \in left : \A t \in left :
        Cardinality(candidates[s]) <= Cardinality(candidates[t])

\* The solutions once the saved outputs that are left have been matched, too.
RECURSIVE Search(_, _, _, _, _, _)
Search(left, used, matched, solutions, candidates, required) ==
    IF Full(solutions) THEN solutions
    ELSE IF left = {} THEN IF used = required THEN solutions \cup {matched} ELSE solutions
    ELSE LET s == Scarcest(left, candidates)
             Try(o, found) ==
                 IF o \in used THEN found
                 ELSE Search(left \ {s}, used \cup {o},
                             [t \in DOMAIN matched \cup {s} |->
                                 IF t = s THEN o ELSE matched[t]],
                             found, candidates, required)
         IN  FoldSet(Try, solutions, candidates[s])

\* The sole solution that the search from the start finds, or none.
Found(candidates, required) ==
    Sole(Search(DOMAIN candidates, {}, <<>>, {}, candidates, required))

\* The search with its cut-off gives the sole complete matching when there is one
\* and nothing when there are more or none (unique_bijection).
SearchIsExact(candidates, required) ==
    Found(candidates, required) = UniqueBijection(candidates, required)

=============================================================================
