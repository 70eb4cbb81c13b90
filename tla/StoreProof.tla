----------------------------- MODULE StoreProof -----------------------------
(***************************************************************************)
(* AtomicStateStore.save for any number of versions: what any crash may    *)
(* leave, and that it is a register as sound as its directories.           *)
(***************************************************************************)
EXTENDS Store, TLAPS

Written == {"write", "flush", "sync file", "rename"}
BeforeRename == {"root", "sync home", "namespace", "sync root", "temp", "write", "flush",
                 "sync file", "rename"}

\* Where save is determines its temporary and what it has written.
Temporary ==
    /\ pc \in Written => temps = 1
    /\ pc \notin Written /\ pc /= "down" => temps = 0
    /\ temps <= 1
    /\ pc = "rename" => data = "synced"

\* Versions stay within their bound.
Versions ==
    /\ file \in 0..MaxVersion /\ entry \subseteq 0..MaxVersion
    /\ pc \in BeforeRename => file < MaxVersion

\* The parent of a directory is synced once the directory was made.
Made ==
    /\ pc = "sync home" => "root" \in dirs
    /\ pc = "sync root" => "namespace" \in dirs

SaveInv == TypeOK /\ Temporary /\ Versions /\ Made

\* No file, no directory.
LEMMA SaveInvInit == Init => SaveInv
<1> SUFFICES ASSUME Init
             PROVE  SaveInv
  OBVIOUS
<1>1. /\ pc = "idle" /\ dirs = {} /\ synced = {} /\ temps = 0 /\ data = "empty"
      /\ file = 0 /\ entry = {0} /\ acked = 0
  BY Zenon DEF Init
<1>2. inherited \in BOOLEAN
  BY Zenon DEF Init
<1> QED
  BY <1>1, <1>2, VersionAssumption
  DEF SaveInv, TypeOK, Temporary, Versions, Made, Written, BeforeRename, Torn, Directories

\* Every step and every failure keeps the invariant.
LEMMA SaveInvStep == SaveInv /\ [Next]_vars => SaveInv'
<1> SUFFICES ASSUME SaveInv, [Next]_vars
             PROVE  SaveInv'
  OBVIOUS
<1> USE VersionAssumption
    DEF SaveInv, TypeOK, Temporary, Versions, Made, Written, BeforeRename, Torn, Directories, Step
<1>1. CASE Begin
  BY <1>1 DEF Begin
<1>2. CASE EnsureDirectories
  <2>1. CASE Ensure("root", "root", "sync home", "namespace")
    BY <2>1 DEF Ensure
  <2>2. CASE SyncParent("sync home", "root", "namespace")
    BY <2>2 DEF SyncParent
  <2>3. CASE Ensure("namespace", "namespace", "sync root", "temp")
    BY <2>3 DEF Ensure
  <2>4. CASE SyncParent("sync root", "namespace", "temp")
    BY <2>4 DEF SyncParent
  <2> QED
    BY <1>2, <2>1, <2>2, <2>3, <2>4 DEF EnsureDirectories
<1>3. CASE CreateTemporary
  BY <1>3 DEF CreateTemporary
<1>4. CASE WriteData
  BY <1>4 DEF WriteData
<1>5. CASE FlushFile
  BY <1>5 DEF FlushFile
<1>6. CASE SyncFile
  BY <1>6 DEF SyncFile
<1>7. CASE Replace
  <2> HIDE DEF SaveInv, TypeOK, Temporary, Versions, Made, Torn, Written, BeforeRename
  <2>1. /\ pc = "rename" /\ pc' = "sync directory"
        /\ UNCHANGED <<dirs, synced, data, acked, inherited>>
    BY <1>7, Zenon DEF Replace
  <2>2. temps' = temps - 1
    BY <1>7, Zenon DEF Replace
  <2>3. temps = 1 /\ data = "synced"
    BY <2>1 DEF SaveInv, Temporary, Written
  <2>4. temps' = 0
    BY <2>2, <2>3
  <2>5. file' = file + 1
    BY <1>7, Zenon DEF Replace
  <2>6. file \in 0..MaxVersion /\ file < MaxVersion /\ entry \subseteq 0..MaxVersion
    BY <2>1 DEF SaveInv, Versions, BeforeRename
  <2>7. file' \in 0..MaxVersion
    BY <2>5, <2>6
  <2>8. entry' = entry \cup {file'}
    BY <1>7, <2>3, Zenon DEF Replace
  <2>9. Versions'
    BY <2>1, <2>6, <2>7, <2>8 DEF Versions, BeforeRename
  <2>10. Temporary' /\ Made'
    <3>1. pc' \notin Written
      BY <2>1 DEF Written
    <3>2. Temporary'
      <4>1. temps' <= 1
        BY <2>4
      <4> QED
        BY <2>1, <2>4, <3>1, <4>1, Zenon DEF Temporary
    <3>3. Made'
      BY <2>1 DEF Made
    <3> QED
      BY <3>2, <3>3
  <2>11. file' \in 0..Torn /\ entry' \subseteq 0..Torn
    BY <2>9 DEF Versions, Torn
  <2>12. TypeOK'
    BY <2>1, <2>4, <2>11 DEF SaveInv, TypeOK, Torn
  <2> QED
    BY <2>9, <2>10, <2>12 DEF SaveInv
<1>8. CASE SyncDirectory
  BY <1>8 DEF SyncDirectory
<1>9. CASE Fail
  <2> HIDE DEF SaveInv, TypeOK, Temporary, Versions, Made, Torn, Written, BeforeRename
  <2>1. /\ pc \notin {"idle", "down"} /\ pc' = "down"
        /\ UNCHANGED <<dirs, synced, data, file, entry, acked>>
    BY <1>9, Zenon DEF Fail
  <2>0. inherited' \in BOOLEAN
    BY <1>9, Zenon DEF Fail, Inherit
  <2>2. temps' = IF pc \in Written THEN temps - 1 ELSE temps
    BY <1>9, Zenon DEF Fail, Written
  <2>3. temps' = 0
    <3>1. CASE pc \in Written
      <4>1. temps = 1 /\ temps' = temps - 1
        BY <2>2, <3>1, Zenon DEF SaveInv, Temporary
      <4> QED
        BY <4>1
    <3>2. CASE pc \notin Written
      BY <2>1, <2>2, <3>2, Zenon DEF SaveInv, Temporary
    <3> QED
      BY <3>1, <3>2
  <2>4. Temporary' /\ Made'
    <3>1. pc' \notin Written
      BY <2>1 DEF Written
    <3>2. Temporary'
      BY <2>1, <2>3, <3>1 DEF Temporary
    <3>3. Made'
      BY <2>1 DEF Made
    <3> QED
      BY <3>2, <3>3
  <2>5. Versions'
    BY <2>1 DEF SaveInv, Versions, BeforeRename
  <2>6. TypeOK'
    BY <2>0, <2>1, <2>3 DEF SaveInv, TypeOK, Torn
  <2> QED
    BY <2>4, <2>5, <2>6 DEF SaveInv
<1>10. CASE Kill
  <2>1. inherited' \in BOOLEAN
    BY <1>10, Zenon DEF Kill, Inherit
  <2> QED
    BY <1>10, <2>1 DEF Kill
<1>11. CASE LosePower
  <2> HIDE DEF SaveInv, TypeOK, Temporary, Versions, Made, Torn, Written, BeforeRename
  <2>1. /\ pc' = "down" /\ data' = "empty" /\ acked' = acked /\ synced' = dirs'
        /\ dirs' \subseteq dirs /\ inherited' = inherited
    BY <1>11 DEF LosePower
  <2>2. file' \in entry \cup {0} /\ entry' = {file'}
    BY <1>11, Zenon DEF LosePower
  <2>3. temps' \in 0..temps \cup {0}
    BY <1>11, Zenon DEF LosePower
  <2>4. temps \in Nat /\ temps <= 1
    BY DEF SaveInv, Temporary, TypeOK
  <2>5. temps' \in Nat /\ temps' <= 1
    BY <2>3, <2>4
  <2>6. file' \in 0..MaxVersion
    BY <2>2 DEF SaveInv, Versions
  <2>7. Versions'
    BY <2>1, <2>2, <2>6 DEF Versions, BeforeRename
  <2>8. Temporary' /\ Made'
    BY <2>1, <2>5 DEF Temporary, Made, Written
  <2>9. file' \in 0..Torn /\ entry' \subseteq 0..Torn
    BY <2>2, <2>6 DEF Torn
  <2>10. TypeOK'
    BY <2>1, <2>5, <2>9 DEF SaveInv, TypeOK, Torn
  <2> QED
    BY <2>7, <2>8, <2>10 DEF SaveInv
<1>12. CASE Start
  BY <1>12 DEF Start
<1>13. CASE UNCHANGED vars
  BY <1>13 DEF vars
<1> QED
  BY <1>1, <1>2, <1>3, <1>4, <1>5, <1>6, <1>7, <1>8, <1>9, <1>10, <1>11, <1>12, <1>13
  DEF Next

\* It always holds.
LEMMA SaveInvariant == Spec => []SaveInv
  BY SaveInvInit, SaveInvStep, PTL DEF Spec

\* The variables of the store keep their types.
THEOREM StoreTypes == Spec => []TypeOK
<1>1. SaveInv => TypeOK
  BY DEF SaveInv
<1> QED
  BY <1>1, SaveInvariant, PTL

\* No kill, failing call or loss of power, at any step of save, leaves a state file
\* that cannot be decoded.
THEOREM StateIsNeverTorn == Spec => []NeverTorn
<1>1. SaveInv => NeverTorn
  BY VersionAssumption DEF SaveInv, Versions, NeverTorn, Torn
<1> QED
  BY <1>1, SaveInvariant, PTL

\* However often saves are interrupted, one temporary file is left at most: each
\* start sweeps what the one before left.
THEOREM TemporariesAreSwept == Spec => []OneTemporary
<1>1. SaveInv => OneTemporary
  BY DEF SaveInv, Temporary, OneTemporary
<1> QED
  BY <1>1, SaveInvariant, PTL

----------------------------------------------------------------------------
(* The register.                                                           *)

InSave == {"temp", "write", "flush", "sync file", "rename", "sync directory"}

\* A directory that exists is durable, but for the one just made.
DirectoriesDurable ==
    /\ "namespace" \in dirs => "root" \in dirs
    /\ pc \notin {"sync home", "sync root"} => synced = dirs
    /\ pc = "sync home" => dirs = synced \cup {"root"}
    /\ pc = "sync root" => dirs = synced \cup {"namespace"}
    /\ pc \in {"namespace", "sync root"} => "root" \in synced
    /\ pc \in InSave => synced = Directories
    /\ acked > 0 => synced = Directories

\* What a power loss may leave is a version no newer than the one readers see,
Past == entry /= {} /\ \A v \in entry : v <= file

\* ... and no older than the one returned last.
Kept == acked <= file /\ \A v \in entry : acked <= v

RegisterInv ==
    /\ SaveInv
    /\ Past
    /\ inherited \/ (DirectoriesDurable /\ Kept)

\* No file, no directory.
LEMMA RegisterInvInit == Init => RegisterInv
  BY SaveInvInit, VersionAssumption
  DEF Init, RegisterInv, DirectoriesDurable, Past, Kept, InSave

\* Versions are numbers.
LEMMA VersionsAreNumbers ==
    ASSUME SaveInv
    PROVE  file \in Nat /\ acked \in Nat /\ \A v \in entry : v \in Nat
<1>1. file \in 0..MaxVersion /\ acked \in 0..MaxVersion /\ entry \subseteq 0..MaxVersion
  BY Zenon DEF SaveInv, Versions, TypeOK
<1> QED
  BY <1>1, VersionAssumption

\* A process that dies keeps what is durable, or its successor inherits.
LEMMA DeathInherits ==
    ASSUME RegisterInv, Fail \/ Kill
    PROVE  /\ UNCHANGED <<file, entry, acked>>
           /\ Past'
           /\ inherited' \/ (~inherited /\ DirectoriesDurable' /\ Kept')
<1>1. pc' = "down" /\ UNCHANGED <<dirs, synced, file, entry, acked>>
  BY Zenon DEF Fail, Kill
<1>2. inherited' = (inherited \/ synced /= dirs)
  BY Zenon DEF Fail, Kill, Inherit
<1>3. Past'
  BY <1>1, Zenon DEF RegisterInv, Past
<1>4. CASE inherited'
  BY <1>1, <1>3, <1>4
<1>5. CASE ~inherited'
  <2>1. ~inherited /\ synced = dirs
    BY <1>2, <1>5, Zenon
  <2>2. DirectoriesDurable /\ Kept
    BY <2>1, Zenon DEF RegisterInv
  <2>3. Kept'
    BY <1>1, <2>2, Zenon DEF Kept
  <2>4. DirectoriesDurable'
    BY <1>1, <2>1, <2>2, Zenon DEF DirectoriesDurable, InSave
  <2> QED
    BY <1>1, <1>3, <2>1, <2>3, <2>4
<1> QED
  BY <1>4, <1>5

\* Every step keeps the stronger invariant, too.
LEMMA RegisterInvStep ==
    ASSUME RegisterInv, [Next]_vars
    PROVE  RegisterInv'
<1>1. SaveInv'
  BY SaveInvStep DEF RegisterInv
<1>2. file \in Nat /\ acked \in Nat /\ \A v \in entry : v \in Nat
  BY VersionsAreNumbers DEF RegisterInv
<1>3. CASE Begin \/ CreateTemporary \/ WriteData \/ FlushFile \/ SyncFile \/ Start
  <2>1. UNCHANGED <<dirs, synced, file, entry, acked, inherited>>
    BY <1>3, Zenon DEF Begin, CreateTemporary, WriteData, FlushFile, SyncFile, Start
  <2>2. Past' /\ (Kept => Kept')
    BY <2>1, Zenon DEF RegisterInv, Past, Kept
  <2>3. DirectoriesDurable => DirectoriesDurable'
    BY <1>3, <2>1 DEF Begin, CreateTemporary, WriteData, FlushFile, SyncFile, Start, Step,
       DirectoriesDurable, InSave
  <2> QED
    BY <1>1, <2>1, <2>2, <2>3, Zenon DEF RegisterInv
<1>4. CASE EnsureDirectories
  <2>1. UNCHANGED <<file, entry, acked, inherited>>
    BY <1>4, Zenon DEF EnsureDirectories, Ensure, SyncParent
  <2>2. Past' /\ (Kept => Kept')
    BY <2>1, Zenon DEF RegisterInv, Past, Kept
  <2>3. DirectoriesDurable => DirectoriesDurable'
    BY <1>4, <2>1 DEF EnsureDirectories, Ensure, SyncParent, Step, RegisterInv, SaveInv, TypeOK,
       DirectoriesDurable, InSave, Directories
  <2> QED
    BY <1>1, <2>1, <2>2, <2>3, Zenon DEF RegisterInv
<1>5. CASE Replace
  <2>1. /\ pc = "rename" /\ pc' = "sync directory"
        /\ UNCHANGED <<dirs, synced, data, acked, inherited>>
    BY <1>5, Zenon DEF Replace, Step
  <2>2. file' = file + 1
    BY <1>5, Zenon DEF Replace
  <2>3. data = "synced"
    BY <2>1 DEF RegisterInv, SaveInv, Temporary
  <2>4. entry' = entry \cup {file'}
    BY <1>5, <2>3, Zenon DEF Replace
  <2>5. file <= file' /\ file' <= file'
    BY <1>2, <2>2
  <2>6. \A v \in entry : v <= file'
    BY <1>2, <2>2 DEF RegisterInv, Past
  <2>7. Past'
    BY <2>4, <2>5, <2>6, Zenon DEF Past
  <2>8. Kept => acked <= file'
    BY <1>2, <2>2 DEF Kept
  <2>9. Kept => Kept'
    BY <2>1, <2>4, <2>8, Zenon DEF Kept
  <2>10. DirectoriesDurable => DirectoriesDurable'
    BY <2>1 DEF DirectoriesDurable, InSave
  <2> QED
    BY <1>1, <2>1, <2>7, <2>9, <2>10, Zenon DEF RegisterInv
<1>6. CASE SyncDirectory
  <2>1. /\ pc = "sync directory" /\ pc' = "idle"
        /\ entry' = {file} /\ acked' = file
        /\ UNCHANGED <<dirs, synced, file, inherited>>
    BY <1>6, Zenon DEF SyncDirectory, Step
  <2>2. file <= file
    BY <1>2
  <2>3. Past' /\ Kept'
    BY <2>1, <2>2, Zenon DEF Past, Kept
  <2>4. DirectoriesDurable => DirectoriesDurable'
    BY <2>1 DEF DirectoriesDurable, InSave, Directories
  <2> QED
    BY <1>1, <2>1, <2>3, <2>4, Zenon DEF RegisterInv
<1>7. CASE LosePower
  <2>1. /\ pc' = "down" /\ acked' = acked /\ synced' = dirs' /\ inherited' = inherited
        /\ synced \subseteq dirs' /\ dirs' \subseteq dirs
        /\ "namespace" \in dirs' => "root" \in dirs'
    BY <1>7 DEF LosePower
  <2>2. /\ "namespace" \in dirs' => file' \in entry
        /\ "namespace" \notin dirs' => file' = 0
        /\ entry' = {file'}
    BY <1>7, Zenon DEF LosePower
  <2>3. dirs \subseteq Directories
    BY DEF RegisterInv, SaveInv, TypeOK
  <2>4. file' \in Nat
    BY <1>2, <2>2
  <2>5. file' <= file'
    BY <2>4
  <2>6. Past'
    BY <2>2, <2>5, Zenon DEF Past
  <2>7. ASSUME DirectoriesDurable, Kept
        PROVE  DirectoriesDurable' /\ Kept'
    <3>1. acked > 0 => synced = Directories
      BY <2>7, Zenon DEF DirectoriesDurable
    <3>2. acked > 0 => dirs' = Directories /\ "namespace" \in dirs'
      BY <2>1, <2>3, <3>1 DEF Directories
    <3>3. CASE acked > 0
      <4>1. acked <= file'
        BY <2>2, <2>7, <3>2, <3>3, Zenon DEF Kept
      <4> QED
        BY <2>1, <2>2, <3>2, <3>3, <4>1, Zenon DEF DirectoriesDurable, Kept, InSave
    <3>4. CASE ~(acked > 0)
      <4>1. acked <= file'
        BY <1>2, <2>4, <3>4
      <4> QED
        BY <2>1, <2>2, <3>4, <4>1, Zenon DEF DirectoriesDurable, Kept, InSave
    <3> QED
      BY <3>3, <3>4
  <2> QED
    BY <1>1, <2>1, <2>6, <2>7, Zenon DEF RegisterInv
<1>8. CASE Fail \/ Kill
  BY <1>1, <1>8, DeathInherits, Zenon DEF RegisterInv
<1>9. CASE UNCHANGED vars
  <2>1. /\ inherited' = inherited
        /\ Past' /\ (Kept => Kept') /\ (DirectoriesDurable => DirectoriesDurable')
    BY <1>9, Zenon DEF vars, RegisterInv, DirectoriesDurable, Past, Kept
  <2> QED
    BY <1>1, <2>1, Zenon DEF RegisterInv
<1> QED
  BY <1>3, <1>4, <1>5, <1>6, <1>7, <1>8, <1>9, Zenon DEF Next

\* A step of save or a failure is a write, a return, a loss of what has not
\* returned, the end of soundness, or nothing.
LEMMA StepSimulation ==
    ASSUME RegisterInv, [Next]_vars
    PROVE  [Saved!Next]_(Saved!vars)
<1> USE DEF Saved!vars, Saved!Next
<1>1. CASE Replace
  BY <1>1, Zenon DEF Replace, Saved!Write
<1>2. CASE SyncDirectory
  BY <1>2, Zenon DEF SyncDirectory, Saved!Return
<1>3. CASE LosePower
  <2>1. file \in Nat /\ acked \in Nat /\ \A v \in entry : v \in Nat /\ v <= file
    BY VersionsAreNumbers DEF RegisterInv, Past
  <2>2. RegisterInv'
    BY RegisterInvStep
  <2>3. acked' = acked /\ inherited' = inherited /\ (file' = 0 \/ file' \in entry)
    BY <1>3, Zenon DEF LosePower
  <2>4. file' \in Nat /\ file' <= file
    BY <2>1, <2>3
  <2>5. CASE inherited
    <3>1. file' \in 0..file
      BY <2>1, <2>4
    <3> QED
      BY <2>3, <2>5, <3>1, Zenon DEF Saved!Forget
  <2>6. CASE ~inherited
    <3>1. acked <= file'
      BY <2>2, <2>3, <2>6, Zenon DEF RegisterInv, Kept
    <3>2. file' \in acked..file
      BY <2>1, <2>4, <3>1
    <3> QED
      BY <2>3, <2>6, <3>2, Zenon DEF Saved!Forget
  <2> QED
    BY <2>5, <2>6
<1>4. CASE Fail \/ Kill
  <2>1. UNCHANGED <<file, acked>> /\ (inherited' \/ ~inherited)
    BY <1>4, DeathInherits, Zenon
  <2>2. inherited' = (inherited \/ synced /= dirs)
    BY <1>4, Zenon DEF Fail, Kill, Inherit
  <2>3. CASE inherited'
    BY <2>1, <2>2, <2>3, Zenon DEF Saved!Spoil
  <2>4. CASE ~inherited'
    BY <2>1, <2>2, <2>4, Zenon
  <2> QED
    BY <2>3, <2>4
<1>5. CASE Begin \/ EnsureDirectories \/ CreateTemporary \/ WriteData \/ FlushFile
           \/ SyncFile \/ Start
  <2>1. UNCHANGED <<file, acked, inherited>>
    BY <1>5, Zenon DEF Begin, EnsureDirectories, Ensure, SyncParent, CreateTemporary, WriteData,
       FlushFile, SyncFile, Start
  <2> QED
    BY <2>1, Zenon
<1>6. CASE UNCHANGED vars
  BY <1>6, Zenon DEF vars
<1> QED
  BY <1>1, <1>2, <1>3, <1>4, <1>5, <1>6, Zenon DEF Next

\* The state file is the register the controller takes it for: save takes effect in
\* one step, and no kill, failing call or power loss takes back what it returned,
\* until a process dies between making a directory and syncing its entry.
THEOREM StoreIsRegister == Spec => ImplementsRegister
<1>1. Init => Saved!Init
  BY DEF Init, Saved!Init
<1>2. RegisterInv /\ [Next]_vars => RegisterInv'
  BY RegisterInvStep
<1>3. RegisterInv /\ [Next]_vars => [Saved!Next]_(Saved!vars)
  BY StepSimulation
<1> QED
  BY <1>1, <1>2, <1>3, RegisterInvInit, PTL DEF Spec, Saved!Spec, ImplementsRegister

\* save returns only when nothing it returned for can be taken back, unless a
\* directory was inherited.
THEOREM ReturnsDurable == Spec => []DurableOnReturn
<1>1. RegisterInv => DurableOnReturn
  <2> SUFFICES ASSUME RegisterInv, pc = "idle", acked = file, acked > 0, ~inherited
               PROVE  entry = {file} /\ synced = Directories
    BY Zenon DEF DurableOnReturn
  <2>1. DirectoriesDurable /\ Kept /\ Past
    BY Zenon DEF RegisterInv
  <2>2. file \in Nat /\ \A v \in entry : v \in Nat /\ v <= file /\ file <= v
    BY <2>1, VersionsAreNumbers DEF RegisterInv, Kept, Past
  <2>3. \A v \in entry : v = file
    BY <2>2
  <2>4. synced = Directories
    BY <2>1, Zenon DEF DirectoriesDurable
  <2>5. entry /= {}
    BY <2>1, Zenon DEF Past
  <2> QED
    BY <2>3, <2>4, <2>5
<1>2. RegisterInv /\ [Next]_vars => RegisterInv'
  BY RegisterInvStep
<1> QED
  BY <1>1, <1>2, RegisterInvInit, PTL DEF Spec

=============================================================================
