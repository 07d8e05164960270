--------------------------- MODULE RealmDisksProofs ---------------------------
(***************************************************************************)
(* Proofs about RealmDisks.  A realm is told uuids of files that have a    *)
(* partition; such a file is not changed any more (MadeDiskStays), and no  *)
(* two files have the same uuid, so what the realm finds is what it was    *)
(* told of, whatever clients, calls and the daemon do meanwhile.           *)
(***************************************************************************)
EXTENDS RealmDisks, ApplicationDisksProofs

UuidsDiffer == file["main"].uuid = file["secure"].uuid => file["main"].uuid = NoUuid

\* What a realm was told is true as long as it runs, and what it found as well.
ToldTrue ==
  vm # "off" =>
    /\ drives = Disk
    /\ \A d \in Disk : info[d] = file[d].uuid /\ info[d] # NoUuid

FoundTrue ==
  vm \notin {"off", "boot"} => \A d \in Disk : partitions[info[d]] = d

\* What is mapped, and why a realm that maps nothing more does not.
MappedTrue ==
  /\ vm # "not_found"
  /\ vm \in {"off", "boot", "scanned", "refused"} => \A u \in Uuid : mapped[u] = NoDisk
  /\ vm = "refused" => options # <<>>
  /\ vm \in {"main", "up"} => options = <<>> /\ mapped[info["main"]] = "main"
  /\ vm = "main" => mapped[info["secure"]] = NoDisk
  /\ vm = "up" => mapped[info["secure"]] = "secure"

RealmInv ==
  /\ RealmDisksTypeOK /\ DisksInv /\ UuidsDiffer
  /\ ToldTrue /\ FoundTrue /\ MappedTrue

\* A uuid is only ever written where no file has it.
LEMMA UuidsDifferStep ==
  ASSUME DisksInv, UuidsDiffer, [DisksNext]_disksVars
  PROVE  UuidsDiffer'
<1>1. CASE UNCHANGED file
  BY <1>1 DEF UuidsDiffer
<1>2. ASSUME NEW t \in Task, TaskStep(t) PROVE UuidsDiffer'
  <2>1. CASE TaskWritesGpt(t)
    BY <2>1 DEF TaskWritesGpt, UuidsDiffer, DisksInv, DisksTypeOK, Task, Disk
  <2>2. CASE TaskCreates(t) \/ TaskExtends(t)
    BY <1>1, <2>2
    DEF TaskCreates, TaskExtends, UuidsDiffer, DisksInv, DisksTypeOK, FilesInOrder, Disk,
        NoFile, Empty, Task
  <2>3. CASE ~(TaskWritesGpt(t) \/ TaskCreates(t) \/ TaskExtends(t))
    BY <1>1, <1>2, <2>3 DEF TaskStep, TaskLooks, TaskChecks, TaskOpens, TaskFails
  <2> QED
    BY <2>1, <2>2, <2>3
<1>3. ASSUME NEW c \in Client, ClientStep(c) PROVE UNCHANGED file
  BY <1>3 DEF ClientStep, CreateApplication, CallFails, CallSucceeds, ClientDropped
<1>4. DaemonDies => UNCHANGED file
  BY DEF DaemonDies
<1> QED
  BY <1>1, <1>2, <1>3, <1>4 DEF DisksNext, disksVars

\* Two calls never share a task, and a result is kept for the call that awaits it.
LEMMA CallsStep ==
  ASSUME DisksTypeOK, CallsHaveTasks, [DisksNext]_disksVars
  PROVE  CallsHaveTasks'
<1>1. CASE UNCHANGED disksVars
  BY <1>1 DEF disksVars, CallsHaveTasks
<1>2. ASSUME NEW t \in Task, TaskStep(t) PROVE CallsHaveTasks'
  <2>1. UNCHANGED call
    BY <1>2 DEF TaskStep, TaskLooks, TaskChecks, TaskCreates, TaskExtends, TaskWritesGpt,
                TaskOpens, TaskFails, Goto
  <2>2. \A u \in Task : task[u] # NoTask /\ (u # t \/ \E c \in Client : call[c] = t[1])
                           => task'[u] # NoTask
    <3>1. ASSUME NEW from, NEW to \in AtWork, Goto(t, from, to) PROVE <2>2
      BY <3>1 DEF Goto, DisksTypeOK, NoTask, AtWork, Making
    <3>2. ASSUME NEW result \in Errors \cup {"ok"}, NEW uuid, Return(t, result, uuid)
          PROVE  <2>2
      BY <3>2 DEF Return, DisksTypeOK, NoTask, Errors
    <3>3. CASE TaskLooks(t) \/ TaskChecks(t) \/ TaskCreates(t)
      BY <3>1, <3>2, <3>3 DEF TaskLooks, TaskChecks, TaskCreates, AtWork, Making, Errors
    <3>4. CASE TaskExtends(t) \/ TaskWritesGpt(t)
      BY <3>1, <3>2, <3>4 DEF TaskExtends, TaskWritesGpt, AtWork, Making, Errors
    <3>5. CASE TaskOpens(t) \/ TaskFails(t)
      BY <3>2, <3>5 DEF TaskOpens, TaskFails, Errors
    <3> QED
      BY <1>2, <3>3, <3>4, <3>5 DEF TaskStep
  <2> QED
    BY <2>1, <2>2 DEF CallsHaveTasks, DisksTypeOK, Task
<1>3. ASSUME NEW c \in Client, NEW k \in Call, NEW sizes \in Asked,
             CreateApplication(c, k, sizes)
      PROVE  CallsHaveTasks'
  <2>1. /\ call' = [call EXCEPT ![c] = k]
        /\ \A b \in Client \ {c} : call[b] # k
    <3>1. "main" \in Disk /\ task[<<k, "main">>] = NoTask /\ k # NoCall
      BY <1>3, DiskNamesAssumption DEF CreateApplication, Disk
    <3> QED
      BY <1>3, <3>1 DEF CreateApplication, CallsHaveTasks
  <2>2. \A l \in Call, d \in Disk :
          task'[<<l, d>>] = IF l = k THEN [at |-> "exists", mb |-> sizes[d], uuid |-> NoUuid]
                            ELSE task[<<l, d>>]
    <3> TAKE l \in Call, d \in Disk
    <3>1. <<l, d>> \in Task /\ <<l, d>>[1] = l /\ <<l, d>>[2] = d
      BY DEF Task
    <3> QED
      BY <1>3, <3>1 DEF CreateApplication
  <2>3. \A d \in Disk : task'[<<k, d>>] # NoTask
    <3> TAKE d \in Disk
    <3>1. task'[<<k, d>>] = [at |-> "exists", mb |-> sizes[d], uuid |-> NoUuid]
      BY <2>2
    <3>2. task'[<<k, d>>].at = "exists"
      BY <3>1
    <3> QED
      BY <3>2 DEF NoTask
  <2>4. \A b \in Client \ {c} : call'[b] = call[b]
    BY <2>1 DEF DisksTypeOK
  <2>5. ASSUME NEW b \in Client \ {c}, call[b] # NoCall, NEW d \in Disk
        PROVE  task'[<<call[b], d>>] # NoTask
    <3>1. call[b] \in Call /\ call[b] # k
      BY <2>1, <2>5 DEF DisksTypeOK
    <3> QED
      BY <2>2, <2>5, <3>1 DEF CallsHaveTasks
  <2>6. call'[c] = k
    BY <2>1 DEF DisksTypeOK
  <2> QED
    BY <2>1, <2>3, <2>4, <2>5, <2>6 DEF CallsHaveTasks
<1>4. ASSUME NEW c \in Client, CallFails(c) \/ CallSucceeds(c) \/ ClientDropped(c)
      PROVE  CallsHaveTasks'
  <2>1. call' = [call EXCEPT ![c] = NoCall] /\ Forget(call[c])
    BY <1>4 DEF CallFails, CallSucceeds, ClientDropped
  <2>2. \A l \in Call \ {call[c]}, d \in Disk : task'[<<l, d>>] = task[<<l, d>>]
    BY <2>1 DEF Forget, Task
  <2> QED
    BY <2>1, <2>2 DEF CallsHaveTasks, DisksTypeOK
<1>5. CASE DaemonDies
  BY <1>5 DEF DaemonDies, CallsHaveTasks
<1> QED
  BY <1>1, <1>2, <1>3, <1>4, <1>5 DEF DisksNext, ClientStep

-----------------------------------------------------------------------------
\* Whatever the clients, the calls and the daemon do, what a realm was told, has
\* found and has mapped stays as it is.
LEMMA DisksStepInv ==
  ASSUME RealmInv, [DisksNext]_disksVars, UNCHANGED realmVars
  PROVE  RealmInv'
<1>1. DisksInv' /\ UuidsDiffer'
  BY DisksInvStep, UuidsDifferStep DEF RealmInv
<1>2. RealmDisksTypeOK'
  BY <1>1, CallsStep DEF RealmInv, RealmDisksTypeOK, DisksInv, realmVars
<1>3. ToldTrue'
  BY MadeDiskStays DEF RealmInv, ToldTrue, realmVars
<1>4. FoundTrue' /\ MappedTrue'
  BY DEF RealmInv, FoundTrue, MappedTrue, realmVars
<1> QED
  BY <1>1, <1>2, <1>3, <1>4 DEF RealmInv

\* The realm's own steps leave files, tasks and entries alone.
LEMMA RealmLeavesDisks ==
  ASSUME RealmInv, UNCHANGED disksVars
  PROVE  DisksInv' /\ UuidsDiffer' /\ DisksTypeOK' /\ CallsHaveTasks'
<1>1. [DisksNext]_disksVars
  OBVIOUS
<1> QED
  BY <1>1, DisksInvStep, CallsStep, UuidsDifferStep DEF RealmInv, RealmDisksTypeOK, DisksInv

\* launch: the entry is what is in the files.
LEMMA LaunchRealmInv ==
  ASSUME RealmInv, NEW c \in Client, LaunchRealm(c)
  PROVE  RealmInv'
<1>1. UNCHANGED disksVars
  BY DEF LaunchRealm
<1>2. DisksInv' /\ UuidsDiffer' /\ DisksTypeOK' /\ CallsHaveTasks'
  BY <1>1, RealmLeavesDisks
<1>3. \A d \in Disk : info'[d] = file[d].uuid /\ info'[d] # NoUuid
  BY DEF LaunchRealm, ApplicationInfo, RealmInv, DisksInv, EntriesTrue, Describes
<1>4. info' \in [Disk -> Uuid \cup {NoUuid}]
  BY DEF LaunchRealm, ApplicationInfo, RealmInv, DisksInv, DisksTypeOK
<1>5. /\ vm' = "boot" /\ drives' = Disk /\ options' \in Options
      /\ UNCHANGED <<partitions, mapped>> /\ vm = "off"
  BY DEF LaunchRealm, Configure
<1>6. RealmDisksTypeOK'
  BY <1>2, <1>4, <1>5 DEF RealmDisksTypeOK, RealmInv
<1>7. ToldTrue' /\ FoundTrue'
  BY <1>1, <1>3, <1>5 DEF ToldTrue, FoundTrue, disksVars
<1>8. MappedTrue'
  BY <1>5 DEF MappedTrue, RealmInv
<1> QED
  BY <1>2, <1>6, <1>7, <1>8 DEF RealmInv

\* The scan finds each of the two uuids on one disk only.
LEMMA ScanInv ==
  ASSUME RealmInv, Scan
  PROVE  RealmInv'
<1>1. UNCHANGED disksVars
  BY DEF Scan
<1>2. DisksInv' /\ UuidsDiffer' /\ DisksTypeOK' /\ CallsHaveTasks'
  BY <1>1, RealmLeavesDisks
<1>3. /\ vm = "boot" /\ vm' = "scanned"
      /\ UNCHANGED <<options, info, drives, mapped>>
      /\ partitions' \in [Uuid -> Disk \cup {NoDisk}]
      /\ \A u \in Uuid : \/ {d \in drives : file[d].uuid = u} = {}
                         \/ partitions'[u] \in {d \in drives : file[d].uuid = u}
  BY DEF Scan
<1>4. \A d \in Disk : partitions'[info[d]] = d
  <2> TAKE d \in Disk
  <2>1. /\ info[d] \in Uuid /\ drives = Disk
        /\ \A e \in Disk : info[e] = file[e].uuid /\ info[e] # NoUuid
    BY <1>3 DEF RealmInv, RealmDisksTypeOK, ToldTrue
  <2>2. partitions'[info[d]] \in Disk /\ file[partitions'[info[d]]].uuid = info[d]
    BY <1>3, <2>1
  <2> QED
    BY <2>1, <2>2 DEF RealmInv, UuidsDiffer, Disk
<1>5. RealmDisksTypeOK'
  BY <1>2, <1>3 DEF RealmDisksTypeOK, RealmInv
<1>6. ToldTrue' /\ FoundTrue' /\ MappedTrue'
  BY <1>1, <1>3, <1>4 DEF ToldTrue, FoundTrue, MappedTrue, RealmInv, disksVars
<1> QED
  BY <1>2, <1>5, <1>6 DEF RealmInv

\* Decryption finds its disk; whether the kernel takes the table is decided by
\* the options alone, for both disks alike.
LEMMA DecryptInv ==
  ASSUME RealmInv, DecryptMain \/ DecryptSecure
  PROVE  RealmInv'
<1>1. UNCHANGED <<disksVars, options, info, drives, partitions>>
  BY DEF DecryptMain, DecryptSecure, Decrypt
<1>2. DisksInv' /\ UuidsDiffer' /\ DisksTypeOK' /\ CallsHaveTasks'
  BY <1>1, RealmLeavesDisks
<1>3. vm \in {"scanned", "main"}
  BY DEF DecryptMain, DecryptSecure
<1>4. /\ \A d \in Disk : info[d] \in Uuid /\ partitions[info[d]] = d /\ d # NoDisk
      /\ info["main"] # info["secure"] /\ mapped \in [Uuid -> Disk \cup {NoDisk}]
  BY <1>3, OptionsAssumption
  DEF RealmInv, RealmDisksTypeOK, ToldTrue, FoundTrue, UuidsDiffer, Disk
<1>5. ASSUME NEW d \in Disk, NEW next, Decrypt(d, next), mapped[info[d]] = NoDisk
      PROVE  \/ options = <<>> /\ vm' = next /\ mapped' = [mapped EXCEPT ![info[d]] = d]
             \/ options # <<>> /\ vm' = "refused" /\ UNCHANGED mapped
  BY <1>4, <1>5, DiskNamesAssumption DEF Decrypt, Table, KernelAccepts, CreateDevice
<1>6. CASE DecryptMain
  <2>1. vm = "scanned" /\ \A u \in Uuid : mapped[u] = NoDisk
    BY <1>6 DEF DecryptMain, RealmInv, MappedTrue
  <2>2. \/ options = <<>> /\ vm' = "main" /\ mapped' = [mapped EXCEPT ![info["main"]] = "main"]
        \/ options # <<>> /\ vm' = "refused" /\ UNCHANGED mapped
    BY <1>4, <1>5, <1>6, <2>1 DEF DecryptMain, Disk
  <2> QED
    BY <1>1, <1>2, <1>4, <2>1, <2>2
    DEF RealmInv, RealmDisksTypeOK, ToldTrue, FoundTrue, MappedTrue, disksVars, Disk
<1>7. CASE DecryptSecure
  <2>1. /\ vm = "main" /\ options = <<>>
        /\ mapped[info["main"]] = "main" /\ mapped[info["secure"]] = NoDisk
    BY <1>7 DEF DecryptSecure, RealmInv, MappedTrue
  <2>2. vm' = "up" /\ mapped' = [mapped EXCEPT ![info["secure"]] = "secure"]
    BY <1>5, <1>7, <2>1 DEF DecryptSecure, Disk
  <2> QED
    BY <1>1, <1>2, <1>4, <2>1, <2>2
    DEF RealmInv, RealmDisksTypeOK, ToldTrue, FoundTrue, MappedTrue, disksVars, Disk
<1> QED
  BY <1>6, <1>7

\* The end of a realm: nothing is attached or mapped.
LEMMA RealmEndsInv ==
  ASSUME RealmInv, RealmEnds
  PROVE  RealmInv'
<1>1. UNCHANGED disksVars
  BY DEF RealmEnds
<1>2. DisksInv' /\ UuidsDiffer' /\ DisksTypeOK' /\ CallsHaveTasks'
  BY <1>1, RealmLeavesDisks
<1>3. RealmDisksTypeOK'
  BY <1>2 DEF RealmEnds, RealmDisksTypeOK
<1>4. ToldTrue' /\ FoundTrue' /\ MappedTrue'
  BY DEF RealmEnds, ToldTrue, FoundTrue, MappedTrue
<1> QED
  BY <1>2, <1>3, <1>4 DEF RealmInv

\* No disks, and no realm.
LEMMA RealmInvInit == Init => RealmInv
<1> SUFFICES ASSUME Init PROVE RealmInv
  OBVIOUS
<1>1. DisksInv
  BY DisksInvInit DEF Init
<1>2. UuidsDiffer /\ CallsHaveTasks
  BY DEF Init, DisksInit, UuidsDiffer, CallsHaveTasks, NoFile, Disk
<1>3. RealmDisksTypeOK
  BY <1>1, <1>2 DEF Init, RealmDisksTypeOK, DisksInv
<1>4. ToldTrue /\ FoundTrue /\ MappedTrue
  BY DEF Init, ToldTrue, FoundTrue, MappedTrue
<1> QED
  BY <1>1, <1>2, <1>3, <1>4 DEF RealmInv

\* The invariant is kept by every step.
LEMMA RealmInvStep == RealmInv /\ [Next]_vars => RealmInv'
<1> SUFFICES ASSUME RealmInv, [Next]_vars PROVE RealmInv'
  OBVIOUS
<1>1. CASE UNCHANGED vars
  BY <1>1, DisksStepInv DEF vars
<1>2. CASE DisksNext /\ UNCHANGED realmVars
  BY <1>2, DisksStepInv
<1>3. ASSUME NEW c \in Client, LaunchRealm(c) PROVE RealmInv'
  BY <1>3, LaunchRealmInv
<1> QED
  BY <1>1, <1>2, <1>3, ScanInv, DecryptInv, RealmEndsInv DEF Next

-----------------------------------------------------------------------------
\* Every reachable state of disks and realms satisfies the inductive invariant.
THEOREM RealmInvariant == Spec => []RealmInv
  BY RealmInvInit, RealmInvStep, PTL DEF Spec

\* Types, and: a call that is awaited has both of its tasks and one client.
THEOREM RealmDisksTypeCorrect == Spec => []RealmDisksTypeOK
<1>1. RealmInv => RealmDisksTypeOK
  BY DEF RealmInv
<1> QED
  BY <1>1, RealmInvariant, PTL

\* A realm finds the partitions it was told of, on the disks they were made on,
\* and maps them unless it is configured with options: for any number of clients
\* with the same ids, calls, crashes of the daemon and sizes.
THEOREM DisksAreFound == Spec => []AnnouncedDisksAreFound
<1>1. RealmInv => AnnouncedDisksAreFound
  <2> SUFFICES ASSUME RealmInv PROVE AnnouncedDisksAreFound
    OBVIOUS
  <2>1. \A d \in Disk : info[d] \in Uuid \cup {NoUuid} /\ (info[d] = NoUuid => vm = "off")
    BY DEF RealmInv, RealmDisksTypeOK, ToldTrue
  <2> QED
    BY <2>1 DEF RealmInv, MappedTrue, AnnouncedDisksAreFound, RealmDisksTypeOK, Storage, Disk
<1> QED
  BY <1>1, RealmInvariant, PTL

\* Realms only read the disks: with them, the host's part is still ApplicationDisks.
THEOREM RealmsKeepDisksSpec == Spec => DisksSpec
<1>1. Init => DisksInit
  BY DEF Init
<1>2. [Next]_vars => [DisksNext]_disksVars
  BY DEF Next, vars, disksVars, LaunchRealm, Scan, DecryptMain, DecryptSecure, Decrypt, RealmEnds
<1> QED
  BY <1>1, <1>2, PTL DEF Spec, DisksSpec
=============================================================================
