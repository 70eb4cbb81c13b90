----------------------------- MODULE Authority -----------------------------
(***************************************************************************)
(* Who may hold display authority: processes that start the active         *)
(* controller (main of active.py), the operator's preflight checks of      *)
(* cutover.py, which take the same locks for a moment, and shadow          *)
(* controllers (main of shadow.py).  Two files are locked, each with a     *)
(* non-blocking exclusive flock that the kernel drops with its holder.     *)
(*                                                                         *)
(* The service manager keeps the two units apart (Conflicts= in both unit  *)
(* files); without it only the locks are left.                             *)
(***************************************************************************)
CONSTANTS
    Actives, Checks, Shadows,   \* the processes of each kind
    Nobody,                     \* no process
    Conflicts                   \* whether the service manager separates the units

Probers == Actives \cup Checks
Processes == Probers \cup Shadows

ASSUME AuthorityAssumption ==
    /\ Conflicts \in BOOLEAN
    /\ Nobody \notin Processes
    /\ Actives \cap Checks = {} /\ Probers \cap Shadows = {}

VARIABLES
    pc,            \* where each process is
    activeLock,    \* who holds the lock of the active controller
    shadowLock,    \* who holds the lock of the shadow controller
    shadowFile     \* whether the shadow's lock file exists: it is never removed
vars == <<pc, activeLock, shadowLock, shadowFile>>

Goes(p, stage) == pc' = [pc EXCEPT ![p] = stage]

Running(kind) == {p \in kind : pc[p] /= "down"}

----------------------------------------------------------------------------
(* ActiveAuthorityLock: look at the shadow's lock, then take one's own.    *)

\* The manager stops a conflicting unit before it starts one.
MayStart(p) ==
    /\ pc[p] = "down"
    /\ p \in Actives /\ Conflicts => Running(Actives \cup Shadows) = {}

StartProber(p) ==
    /\ MayStart(p)
    /\ Goes(p, IF shadowFile THEN "probe" ELSE "acquire")
    /\ UNCHANGED <<activeLock, shadowLock, shadowFile>>

\* The file is there and cannot be opened: it is taken to be absent.
StartBlind(p) ==
    /\ MayStart(p)
    /\ shadowFile
    /\ Goes(p, "acquire")
    /\ UNCHANGED <<activeLock, shadowLock, shadowFile>>

\* Mutant of ProbeShadow: a lock that is held is waited for in vain, and the
\* process goes on.
ProbeShadowAnyway(p) ==
    /\ pc[p] = "probe"
    /\ IF shadowLock = Nobody
       THEN shadowLock' = p /\ Goes(p, "unprobe")
       ELSE Goes(p, "acquire") /\ UNCHANGED shadowLock
    /\ UNCHANGED <<activeLock, shadowFile>>

\* The shadow's lock is taken to see whether it is free.
ProbeShadow(p) ==
    /\ pc[p] = "probe"
    /\ IF shadowLock = Nobody
       THEN shadowLock' = p /\ Goes(p, "unprobe")
       ELSE Goes(p, "down") /\ UNCHANGED shadowLock
    /\ UNCHANGED <<activeLock, shadowFile>>

Unprobe(p) ==
    /\ pc[p] = "unprobe"
    /\ shadowLock' = Nobody
    /\ Goes(p, "acquire")
    /\ UNCHANGED <<activeLock, shadowFile>>

AcquireActive(p) ==
    /\ pc[p] = "acquire"
    /\ IF activeLock = Nobody THEN activeLock' = p /\ Goes(p, "holds")
       ELSE Goes(p, "down") /\ UNCHANGED activeLock
    /\ UNCHANGED <<shadowLock, shadowFile>>

----------------------------------------------------------------------------
(* ShadowAuthorityLock: only one's own lock.                               *)

StartShadow(p) ==
    /\ pc[p] = "down"
    /\ Conflicts => Running(Actives \cup Shadows) = {}
    /\ Goes(p, "acquire")
    /\ shadowFile' = TRUE
    /\ UNCHANGED <<activeLock, shadowLock>>

AcquireShadow(p) ==
    /\ pc[p] = "acquire"
    /\ IF shadowLock = Nobody THEN shadowLock' = p /\ Goes(p, "holds")
       ELSE Goes(p, "down") /\ UNCHANGED shadowLock
    /\ UNCHANGED <<activeLock, shadowFile>>

\* A process ends, is stopped or is killed: its locks are free.
Exit(p) ==
    /\ pc[p] /= "down"
    /\ Goes(p, "down")
    /\ activeLock' = IF activeLock = p THEN Nobody ELSE activeLock
    /\ shadowLock' = IF shadowLock = p THEN Nobody ELSE shadowLock
    /\ UNCHANGED shadowFile

Init ==
    /\ pc = [p \in Processes |-> "down"]
    /\ activeLock = Nobody
    /\ shadowLock = Nobody
    /\ shadowFile = FALSE

Next ==
    \/ \E p \in Probers :
        StartProber(p) \/ StartBlind(p) \/ ProbeShadow(p) \/ Unprobe(p) \/ AcquireActive(p)
    \/ \E p \in Shadows : StartShadow(p) \/ AcquireShadow(p)
    \/ \E p \in Processes : Exit(p)

Spec == Init /\ [][Next]_vars

----------------------------------------------------------------------------
(* Properties.                                                             *)

Stages == {"down", "probe", "unprobe", "acquire", "holds"}

Holders == {p \in Processes : pc[p] = "holds"}

\* At most one process has got past the lock of the active controller, and a lock
\* whose holder is gone is free for the next one.
OneAuthority ==
    /\ \A p, q \in Holders \cap Probers : p = q
    /\ activeLock /= Nobody => pc[activeLock] = "holds"

=============================================================================
