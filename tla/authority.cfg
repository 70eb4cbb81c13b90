SPECIFICATION HistorySpec
CONSTANTS
    Actives = {a1, a2}
    Checks = {c1}
    Shadows = {s1, s2}
    Nobody = Nobody
    Conflicts = FALSE
INVARIANT
    SoleAuthority
