--------------------------- MODULE AuthorityProof ---------------------------
(***************************************************************************)
(* The lock of the active controller admits one process, for any number of *)
(* controllers, preflight checks and shadows.                              *)
(***************************************************************************)
EXTENDS AuthorityHistory, TLAPS

\* OneAuthority is not inductive: a process past the lock must be its holder.
LockInv ==
    /\ pc \in [Processes -> Stages]
    /\ activeLock \in Probers \cup {Nobody}
    /\ \A p \in Probers : pc[p] = "holds" => activeLock = p
    /\ activeLock /= Nobody => pc[activeLock] = "holds"

\* The invariant says what OneAuthority says.
LEMMA LockInvSuffices == LockInv => OneAuthority
  BY DEF LockInv, OneAuthority, Holders

\* Nobody is past a lock at first.
LEMMA LockInvInit == Init => LockInv
  BY DEF Init, LockInv, Stages, Processes

\* Every step keeps it: a lock changes hands only when it is free or its holder
\* ends.
LEMMA LockInvStep == LockInv /\ [Next]_vars => LockInv'
<1> SUFFICES ASSUME LockInv, [Next]_vars
             PROVE  LockInv'
  OBVIOUS
<1> USE AuthorityAssumption DEF LockInv, Stages, Goes, Processes, Probers
<1>1. ASSUME NEW p \in Probers, StartProber(p)
      PROVE  LockInv'
  BY <1>1 DEF StartProber, MayStart
<1>2. ASSUME NEW p \in Probers, ProbeShadow(p)
      PROVE  LockInv'
  BY <1>2 DEF ProbeShadow
<1>3. ASSUME NEW p \in Probers, Unprobe(p)
      PROVE  LockInv'
  BY <1>3 DEF Unprobe
<1>4. ASSUME NEW p \in Probers, AcquireActive(p)
      PROVE  LockInv'
  BY <1>4 DEF AcquireActive
<1>5. ASSUME NEW p \in Shadows, StartShadow(p)
      PROVE  LockInv'
  BY <1>5 DEF StartShadow
<1>6. ASSUME NEW p \in Shadows, AcquireShadow(p)
      PROVE  LockInv'
  BY <1>6 DEF AcquireShadow
<1>7. ASSUME NEW p \in Processes, Exit(p)
      PROVE  LockInv'
  BY <1>7 DEF Exit
<1>8. CASE UNCHANGED vars
  BY <1>8 DEF vars
<1>9. ASSUME NEW p \in Probers, StartBlind(p)
      PROVE  LockInv'
  BY <1>9 DEF StartBlind, MayStart
<1> QED
  BY <1>1, <1>2, <1>3, <1>4, <1>5, <1>6, <1>7, <1>8, <1>9 DEF Next

\* A step of the history is a step of the processes.
LEMMA HistoryRefines == (HistoryInit => Init) /\ ([HistoryNext]_historyVars => [Next]_vars)
  BY DEF HistoryInit, HistoryNext, Next, historyVars

\* NoElderShadow is not inductive either.  A shadow past its lock holds it, and every
\* shadow has made the file; an elder is past its lock as long as it counts; and a process that
\* has looked has no elders.
ElderInv ==
    /\ LockInv
    /\ elders \in [Probers -> SUBSET Shadows]
    /\ \A s \in Shadows : pc[s] = "holds" => shadowLock = s
    /\ \A s \in Shadows : pc[s] /= "down" => shadowFile
    /\ \A p \in Probers : \A s \in elders[p] : pc[s] = "holds"
    /\ \A p \in Probers : pc[p] = "unprobe" => shadowLock = p
    /\ \A p \in Probers : pc[p] \in {"unprobe", "acquire", "holds"} => elders[p] = {}

\* The history starts empty.
LEMMA ElderInvInit == HistoryInit => ElderInv
<1> SUFFICES ASSUME HistoryInit
             PROVE  ElderInv
  OBVIOUS
<1>1. LockInv
  BY HistoryRefines, LockInvInit
<1> QED
  BY <1>1, AuthorityAssumption DEF HistoryInit, ElderInv, Init, Processes, Probers

\* Every step keeps it: a look succeeds only when no shadow holds its lock.
LEMMA ElderInvStep == ElderInv /\ [HistoryNext]_historyVars => ElderInv'
<1> SUFFICES ASSUME ElderInv, [HistoryNext]_historyVars
             PROVE  ElderInv'
  OBVIOUS
<1>0. LockInv'
  BY HistoryRefines, LockInvStep DEF ElderInv
<1> USE <1>0, AuthorityAssumption
    DEF ElderInv, LockInv, Stages, Goes, Processes, Probers, Remember, Forget, Holders
<1>1. ASSUME NEW p \in Probers, StartProber(p), Remember(p, Holders \cap Shadows)
      PROVE  ElderInv'
  BY <1>1 DEF StartProber, MayStart
<1>2. ASSUME NEW p \in Probers, StartBlind(p), Remember(p, {})
      PROVE  ElderInv'
  BY <1>2 DEF StartBlind, MayStart
<1>3. ASSUME NEW p \in Probers, ProbeShadow(p), Forget
      PROVE  ElderInv'
  BY <1>3 DEF ProbeShadow
<1>4. ASSUME NEW p \in Probers, Unprobe(p), Forget
      PROVE  ElderInv'
  BY <1>4 DEF Unprobe
<1>5. ASSUME NEW p \in Probers, AcquireActive(p), Forget
      PROVE  ElderInv'
  BY <1>5 DEF AcquireActive
<1>6. ASSUME NEW p \in Shadows, StartShadow(p), Forget
      PROVE  ElderInv'
  BY <1>6 DEF StartShadow
<1>7. ASSUME NEW p \in Shadows, AcquireShadow(p), Forget
      PROVE  ElderInv'
  BY <1>7 DEF AcquireShadow
<1>8. ASSUME NEW p \in Processes, Exit(p), Forget
      PROVE  ElderInv'
  BY <1>8 DEF Exit
<1>9. CASE UNCHANGED historyVars
  BY <1>9 DEF historyVars, vars
<1> QED
  BY <1>1, <1>2, <1>3, <1>4, <1>5, <1>6, <1>7, <1>8, <1>9 DEF HistoryNext

\* At most one process is past the lock that makes the active controller the only
\* authority (ActiveAuthorityLock), and no shadow that ran when it started runs beside
\* it, whoever probes, starts, stops or dies in between, and whether or not the service
\* manager keeps the units apart.
THEOREM AuthorityIsExclusive == HistorySpec => []SoleAuthority
<1>1. HistorySpec => []ElderInv
  BY ElderInvInit, ElderInvStep, PTL DEF HistorySpec
<1>2. ElderInv => SoleAuthority
  BY LockInvSuffices DEF ElderInv, SoleAuthority, NoElderShadow, Holders
<1> QED
  BY <1>1, <1>2, PTL

=============================================================================
