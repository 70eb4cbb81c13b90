------------------------- MODULE AuthorityHistory -------------------------
(***************************************************************************)
(* Authority with a history variable: the shadows a process found running  *)
(* when it started.                                                        *)
(***************************************************************************)
EXTENDS Authority

VARIABLE elders    \* the shadows that held their lock when each prober started

historyVars == <<vars, elders>>

Remember(p, shadows) ==
    elders' = [elders EXCEPT ![p] = shadows]

\* A shadow that ends is nobody's elder.
Forget ==
    elders' = [p \in Probers |-> {s \in elders[p] : pc'[s] /= "down"}]

HistoryInit == Init /\ elders = [p \in Probers |-> {}]

HistoryNext ==
    \/ \E p \in Probers : StartProber(p) /\ Remember(p, Holders \cap Shadows)
    \/ \E p \in Probers : StartBlind(p) /\ Remember(p, {})
    \/ \E p \in Probers : (ProbeShadow(p) \/ Unprobe(p) \/ AcquireActive(p)) /\ Forget
    \/ \E p \in Shadows : (StartShadow(p) \/ AcquireShadow(p)) /\ Forget
    \/ \E p \in Processes : Exit(p) /\ Forget

HistorySpec == HistoryInit /\ [][HistoryNext]_historyVars

\* No process gets past the lock of the active controller beside a shadow that ran
\* when it started ("refuses to start while the shadow lock is held"), although it
\* looks at the shadow's lock before it takes its own and keeps only the latter:
\* others that look, start and end in between do not hide the shadow from it.
NoElderShadow ==
    \A p \in Holders \cap Probers : elders[p] \cap Holders = {}

\* A process past the lock of the active controller is alone: no other process is
\* past it, the lock of one that is gone is free, and no shadow that ran when it
\* started still runs.
SoleAuthority == OneAuthority /\ NoElderShadow

=============================================================================
