------------------------ MODULE ApplicationDisksProofs ------------------------
(***************************************************************************)
(* Proofs about ApplicationDisks.  A file is written by one task at a time *)
(* (create_new lets only one through), with the size that task was given,  *)
(* and never again once it has a partition; whoever has looked at it since *)
(* then has seen what is in it.                                            *)
(***************************************************************************)
EXTENDS ApplicationDisks, TLAPS

\* create_new: the one task that makes a file finds it as it left it.
MakersAlone ==
  \A t \in Task : task[t].at \in Making =>
    /\ file[t[2]].made /\ file[t[2]].uuid = NoUuid
    /\ task[t].at = "extend" => file[t[2]].size = 0
    /\ task[t].at = "gpt" => file[t[2]].size = Bytes[task[t].mb]
    /\ \A u \in Task : u[2] = t[2] /\ task[u].at \in Making => u = t

\* A partition is only in a file that was made, a size only in one being made.
FilesInOrder ==
  \A d \in Disk : ~file[d].made => file[d] = NoFile

\* A disk that uuid and mb are true of.
Describes(d, uuid, mb) ==
  /\ uuid = file[d].uuid /\ file[d].uuid # NoUuid
  /\ Bytes[mb] # 0 => file[d].size = Bytes[mb]

ResultsTrue ==
  \A t \in Task :
    /\ task[t].at = "open" /\ Bytes[task[t].mb] # 0 => file[t[2]].size = Bytes[task[t].mb]
    /\ task[t].at = "ok" => Describes(t[2], task[t].uuid, task[t].mb)

EntriesTrue ==
  \A c \in Client, d \in Disk :
    entry[c] # NoEntry => Describes(d, entry[c][d].uuid, entry[c][d].mb)

DisksInv ==
  DisksTypeOK /\ FilesInOrder /\ MakersAlone /\ ResultsTrue /\ EntriesTrue /\ HalfMadeNeedsFault

\* The product is a number, and the true one where it does not wrap.
LEMMA BytesNat == \A mb \in Nat : Bytes[mb] \in Nat
  BY SizeAssumption DEF Bytes

\* Where the product of size and MB fits into a word, it does not wrap.
LEMMA BytesExact == \A mb \in Nat : mb * MB \in 1 .. Word - 1 => Bytes[mb] = mb * MB
  BY SizeAssumption DEF Bytes

TaskType == [Task -> [at : {"none", "ok"} \cup AtWork \cup Errors,
                      mb : Nat, uuid : Uuid \cup {NoUuid}]]

\* A task's step changes that task only, and what it returns may be dropped.
LEMMA ReturnChangesOne ==
  ASSUME DisksTypeOK, NEW t \in Task, NEW result \in Errors \cup {"ok"},
         NEW uuid \in Uuid \cup {NoUuid}, Return(t, result, uuid)
  PROVE  /\ task' \in TaskType
         /\ \A u \in Task : u # t => task'[u] = task[u]
         /\ \/ task'[t] = NoTask
            \/ task'[t] = [at |-> result, mb |-> task[t].mb, uuid |-> uuid]
  BY DEF Return, DisksTypeOK, NoTask, AtWork, Errors, Making, TaskType

\* A step that writes no file: what tasks and entries newly say is true, and a
\* task that stops in the middle of making a file is recorded.
WritesNothing ==
  /\ UNCHANGED file
  /\ fault \subseteq fault'
  /\ \A t \in Task :
       \/ task'[t] = task[t]
       \/ /\ task[t].at \in Making => t[2] \in fault'
          /\ task'[t].at \notin Making
          /\ task'[t].at = "open" /\ Bytes[task'[t].mb] # 0 => file[t[2]].size = Bytes[task'[t].mb]
          /\ task'[t].at = "ok" => Describes(t[2], task'[t].uuid, task'[t].mb)
  /\ \A c \in Client :
       \/ entry'[c] = entry[c]
       \/ entry'[c] # NoEntry => \A d \in Disk : Describes(d, entry'[c][d].uuid, entry'[c][d].mb)

\* Such a step keeps the invariant.
LEMMA WritesNothingKeeps == DisksInv /\ DisksTypeOK' /\ WritesNothing => DisksInv'
<1> SUFFICES ASSUME DisksInv, DisksTypeOK', WritesNothing PROVE DisksInv'
  OBVIOUS
<1> USE DEF DisksInv, WritesNothing
<1>1. FilesInOrder'
  BY DEF FilesInOrder
<1>2. MakersAlone'
  BY DEF MakersAlone
<1>3. ResultsTrue'
  BY DEF ResultsTrue, Describes
<1>4. EntriesTrue'
  BY DEF EntriesTrue, Describes
<1>5. HalfMadeNeedsFault'
  <2> SUFFICES ASSUME NEW d \in Disk, file[d].made, file[d].uuid = NoUuid, d \notin fault'
               PROVE  \E k \in Call : task'[<<k, d>>].at \in Making
    BY DEF HalfMadeNeedsFault
  <2>1. PICK k \in Call : task[<<k, d>>].at \in Making
    BY DEF HalfMadeNeedsFault
  <2>2. <<k, d>> \in Task /\ <<k, d>>[2] = d
    BY DEF Task
  <2> QED
    BY <2>1, <2>2
<1> QED
  BY <1>1, <1>2, <1>3, <1>4, <1>5

\* Every step keeps the types.
LEMMA DisksTypeStep == DisksTypeOK /\ [DisksNext]_disksVars => DisksTypeOK'
<1> SUFFICES ASSUME DisksTypeOK, [DisksNext]_disksVars PROVE DisksTypeOK'
  OBVIOUS
<1> USE DEF DisksTypeOK, AtWork, Errors, Making
<1>1. ASSUME NEW t \in Task, TaskStep(t) PROVE DisksTypeOK'
  <2>0. t[2] \in Disk /\ Bytes[task[t].mb] \in Nat
    BY BytesNat DEF Task
  <2> USE DEF TaskType
  <2>1. CASE TaskLooks(t)
    BY <2>1 DEF TaskLooks, Goto
  <2>2. CASE TaskChecks(t)
    BY <2>2 DEF TaskChecks, Goto, Return, NoTask
  <2>3. CASE TaskCreates(t)
    <3>1. CASE file[t[2]].made
      BY <2>3, <3>1, ReturnChangesOne DEF TaskCreates
    <3>2. CASE ~file[t[2]].made
      <4>1. Empty \in [made : BOOLEAN, size : Nat, uuid : Uuid \cup {NoUuid}]
        BY DEF Empty
      <4>2. file' = [file EXCEPT ![t[2]] = Empty]
        BY <2>3, <3>2 DEF TaskCreates
      <4>3. file' \in [Disk -> [made : BOOLEAN, size : Nat, uuid : Uuid \cup {NoUuid}]]
        BY <4>1, <4>2
      <4>4. Goto(t, "create", "extend")
        BY <2>3, <3>2 DEF TaskCreates
      <4>5. task' \in TaskType
        BY <4>4 DEF Goto
      <4> QED
        BY <2>3, <4>3, <4>5 DEF TaskCreates
    <3> QED
      BY <3>1, <3>2
  <2>4. CASE TaskExtends(t)
    <3>1. CASE Bytes[task[t].mb] = 0
      <4>1. Return(t, "io", NoUuid) /\ fault' = fault \cup {t[2]} /\ UNCHANGED file
        BY <2>4, <3>1 DEF TaskExtends
      <4>2. task' \in TaskType
        BY <4>1, ReturnChangesOne
      <4> QED
        BY <2>0, <2>4, <4>1, <4>2 DEF TaskExtends
    <3>2. CASE Bytes[task[t].mb] # 0
      <4>1. /\ Goto(t, "extend", "gpt") /\ UNCHANGED fault
            /\ file' = [file EXCEPT ![t[2]] =
                          [made |-> TRUE, size |-> Bytes[task[t].mb], uuid |-> @.uuid]]
        BY <2>4, <3>2 DEF TaskExtends
      <4>2. task' \in TaskType
        BY <4>1 DEF Goto
      <4>3. file' \in [Disk -> [made : BOOLEAN, size : Nat, uuid : Uuid \cup {NoUuid}]]
        BY <2>0, <4>1
      <4> QED
        BY <2>4, <4>1, <4>2, <4>3 DEF TaskExtends
    <3> QED
      BY <3>1, <3>2
  <2>5. CASE TaskWritesGpt(t)
    BY <2>5 DEF TaskWritesGpt, Goto, Task
  <2>6. CASE TaskOpens(t)
    BY <2>6 DEF TaskOpens, Return, NoTask, Task
  <2>7. CASE TaskFails(t)
    BY <2>7 DEF TaskFails, Return, CutShort, NoTask, Task
  <2> QED
    BY <1>1, <2>1, <2>2, <2>3, <2>4, <2>5, <2>6, <2>7 DEF TaskStep
<1>2. ASSUME NEW c \in Client, ClientStep(c) PROVE DisksTypeOK'
  <2>1. ASSUME NEW k \in Call, NEW sizes \in Asked, CreateApplication(c, k, sizes)
        PROVE  DisksTypeOK'
    BY <2>1, SizeAssumption DEF CreateApplication, Task, NoTask
  <2>2. CASE CallFails(c)
    BY <2>2 DEF CallFails, Forget, NoTask
  <2>3. CASE CallSucceeds(c)
    BY <2>3 DEF CallSucceeds, Forget, NoTask, Task
  <2>4. CASE ClientDropped(c)
    BY <2>4 DEF ClientDropped, Forget, NoTask, NoEntry
  <2> QED
    BY <1>2, <2>1, <2>2, <2>3, <2>4 DEF ClientStep
<1>3. CASE DaemonDies
  BY <1>3 DEF DaemonDies, CutShort, NoTask, NoEntry, Task
<1>4. CASE UNCHANGED disksVars
  BY <1>4 DEF disksVars
<1> QED
  BY <1>1, <1>2, <1>3, <1>4 DEF DisksNext

\* A task that writes no file, and neither begins to make one nor is to open
\* one of another size.
LEMMA TaskWritesNothing ==
  ASSUME DisksInv, DisksTypeOK', NEW t \in Task,
         UNCHANGED <<file, entry>>, fault \subseteq fault',
         \A u \in Task : u # t => task'[u] = task[u],
         task[t].at \in Making => t[2] \in fault',
         task'[t].at \notin Making \cup {"ok", "open"}
           \/ /\ task'[t].at = "open"
              /\ Bytes[task'[t].mb] # 0 => file[t[2]].size = Bytes[task'[t].mb]
           \/ /\ task'[t].at = "ok"
              /\ Describes(t[2], task'[t].uuid, task'[t].mb)
  PROVE  DisksInv'
<1>1. WritesNothing
  BY DEF WritesNothing, Making
<1> QED
  BY <1>1, WritesNothingKeeps

\* A task that makes a file changes that file alone, and only while it has no
\* partition: everything known of the file, and of the others, stays true.
LEMMA MakingKeeps ==
  ASSUME DisksInv, DisksTypeOK', NEW t \in Task,
         UNCHANGED <<entry, fault>>,
         \A d \in Disk : d # t[2] => file'[d] = file[d],
         \A u \in Task : u # t => task'[u] = task[u],
         file'[t[2]].made, file[t[2]].uuid = NoUuid,
         \A u \in Task : u[2] = t[2] /\ task[u].at \in Making => u = t,
         file[t[2]].size \in {0, file'[t[2]].size},
         \/ /\ task'[t].at \in Making /\ file'[t[2]].uuid = NoUuid
            /\ task'[t].at = "extend" => file'[t[2]].size = 0
            /\ task'[t].at = "gpt" => file'[t[2]].size = Bytes[task'[t].mb]
         \/ /\ task'[t].at = "open" /\ file'[t[2]].uuid # NoUuid
            /\ file'[t[2]].size = Bytes[task'[t].mb]
  PROVE  DisksInv'
<1> USE DEF DisksInv
<1>0. t \in Call \X Disk /\ t[2] \in Disk
  BY DEF Task
<1>1. FilesInOrder'
  BY DEF FilesInOrder
<1>2. MakersAlone'
  <2> SUFFICES ASSUME NEW v \in Task, task'[v].at \in Making
               PROVE  /\ file'[v[2]].made /\ file'[v[2]].uuid = NoUuid
                      /\ task'[v].at = "extend" => file'[v[2]].size = 0
                      /\ task'[v].at = "gpt" => file'[v[2]].size = Bytes[task'[v].mb]
                      /\ \A u \in Task : u[2] = v[2] /\ task'[u].at \in Making => u = v
    BY DEF MakersAlone
  <2>0. v[2] \in Disk
    BY DEF Task
  <2>1. CASE v = t
    BY <2>1 DEF Making
  <2>2. CASE v # t /\ v[2] # t[2]
    BY <2>0, <2>2 DEF MakersAlone
  <2>3. CASE v # t /\ v[2] = t[2]
    BY <2>3
  <2> QED
    BY <2>1, <2>2, <2>3
<1>3. ResultsTrue'
  <2> SUFFICES ASSUME NEW u \in Task
               PROVE  /\ task'[u].at = "open" /\ Bytes[task'[u].mb] # 0
                            => file'[u[2]].size = Bytes[task'[u].mb]
                      /\ task'[u].at = "ok" => Describes(u[2], task[u].uuid, task[u].mb)' /\ u # t
    BY DEF ResultsTrue, Describes
  <2>0. u[2] \in Disk
    BY DEF Task
  <2>1. CASE u = t
    BY <2>1 DEF Making
  <2>2. CASE u # t /\ u[2] # t[2]
    BY <2>0, <2>2 DEF ResultsTrue, Describes
  <2>3. CASE u # t /\ u[2] = t[2]
    BY <2>3 DEF ResultsTrue, Describes
  <2> QED
    BY <2>1, <2>2, <2>3
<1>4. EntriesTrue'
  BY <1>0 DEF EntriesTrue, Describes
<1>5. HalfMadeNeedsFault'
  <2> SUFFICES ASSUME NEW d \in Disk, file'[d].made, file'[d].uuid = NoUuid, d \notin fault
               PROVE  \E k \in Call : task'[<<k, d>>].at \in Making
    BY DEF HalfMadeNeedsFault
  <2>1. CASE d = t[2]
    <3>1. t = <<t[1], d>> /\ t[1] \in Call
      BY <1>0, <2>1
    <3>2. task'[t].at \in Making
      BY <2>1
    <3> QED
      BY <3>1, <3>2
  <2>2. CASE d # t[2]
    <3>1. PICK k \in Call : task[<<k, d>>].at \in Making
      BY <2>2 DEF HalfMadeNeedsFault
    <3>2. <<k, d>> \in Task /\ <<k, d>> # t
      BY <2>2 DEF Task
    <3> QED
      BY <3>1, <3>2
  <2> QED
    BY <2>1, <2>2
<1> QED
  BY <1>1, <1>2, <1>3, <1>4, <1>5

\* The steps of a task.
LEMMA TaskStepKeeps ==
  ASSUME DisksInv, DisksTypeOK', NEW t \in Task, TaskStep(t)
  PROVE  DisksInv'
<1>0. DisksTypeOK /\ t[2] \in Disk /\ NoUuid \in Uuid \cup {NoUuid}
  BY DEF DisksInv, Task
<1>1. CASE TaskLooks(t)
  <2>1. PICK to \in {"check", "create"} : Goto(t, "exists", to)
    BY <1>1 DEF TaskLooks
  <2>2. task[t].at = "exists" /\ task'[t].at = to /\ \A u \in Task : u # t => task'[u] = task[u]
    BY <1>0, <2>1 DEF Goto, DisksTypeOK
  <2>3. UNCHANGED <<file, entry, fault>>
    BY <1>1 DEF TaskLooks
  <2> QED
    BY <2>1, <2>2, <2>3, TaskWritesNothing DEF Making
<1>2. CASE TaskChecks(t)
  <2>0. task[t].at = "check" /\ UNCHANGED <<file, entry, fault>>
    BY <1>2 DEF TaskChecks
  <2>1. CASE file[t[2]].size = Bytes[task[t].mb]
    <3>1. Goto(t, "check", "open")
      BY <1>2, <2>1 DEF TaskChecks
    <3>2. /\ task'[t].at = "open" /\ task'[t].mb = task[t].mb
          /\ \A u \in Task : u # t => task'[u] = task[u]
      BY <1>0, <3>1 DEF Goto, DisksTypeOK
    <3> QED
      BY <2>0, <2>1, <3>2, TaskWritesNothing DEF Making
  <2>2. CASE file[t[2]].size # Bytes[task[t].mb]
    <3>1. Return(t, "mismatch", NoUuid)
      BY <1>2, <2>2 DEF TaskChecks
    <3>2. task'[t].at \in {"none", "mismatch"} /\ \A u \in Task : u # t => task'[u] = task[u]
      BY <1>0, <3>1 DEF Return, DisksTypeOK, NoTask
    <3> QED
      BY <2>0, <3>2, TaskWritesNothing DEF Making
  <2> QED
    BY <2>1, <2>2
<1>3. CASE TaskCreates(t)
  <2>1. CASE file[t[2]].made
    <3>1. /\ Return(t, "present", NoUuid)
          /\ task[t].at = "create" /\ UNCHANGED <<file, entry, fault>>
      BY <1>3, <2>1 DEF TaskCreates
    <3>2. task'[t].at \in {"none", "present"} /\ \A u \in Task : u # t => task'[u] = task[u]
      BY <1>0, <3>1 DEF Return, DisksTypeOK, NoTask
    <3> QED
      BY <3>1, <3>2, TaskWritesNothing DEF Making
  <2>2. CASE ~file[t[2]].made
    <3>1. Goto(t, "create", "extend") /\ file' = [file EXCEPT ![t[2]] = Empty]
      BY <1>3, <2>2 DEF TaskCreates
    <3>2. /\ \A u \in Task : u # t => task'[u] = task[u]
          /\ task'[t].at = "extend"
      BY <1>0, <3>1 DEF Goto, DisksTypeOK
    <3>3. file[t[2]] = NoFile
      BY <1>0, <2>2 DEF DisksInv, FilesInOrder
    <3>4. /\ \A d \in Disk : d # t[2] => file'[d] = file[d]
          /\ file'[t[2]] = Empty
      BY <1>0, <3>1 DEF DisksTypeOK
    <3>5. \A u \in Task : u[2] = t[2] /\ task[u].at \in Making => u = t
      BY <2>2 DEF DisksInv, MakersAlone
    <3>6. /\ file'[t[2]].made /\ file'[t[2]].uuid = NoUuid /\ file'[t[2]].size = 0
          /\ file[t[2]].uuid = NoUuid /\ file[t[2]].size = 0
      BY <3>3, <3>4 DEF Empty, NoFile
    <3>7. UNCHANGED <<entry, fault>>
      BY <1>3 DEF TaskCreates
    <3> QED
      BY <3>2, <3>4, <3>5, <3>6, <3>7, MakingKeeps DEF Making
  <2> QED
    BY <2>1, <2>2
<1>4. CASE TaskExtends(t)
  <2>1. CASE Bytes[task[t].mb] = 0
    <3>1. Return(t, "io", NoUuid) /\ fault' = fault \cup {t[2]} /\ UNCHANGED <<file, entry>>
      BY <1>4, <2>1 DEF TaskExtends
    <3>2. task'[t].at \in {"none", "io"} /\ \A u \in Task : u # t => task'[u] = task[u]
      BY <1>0, <3>1 DEF Return, DisksTypeOK, NoTask
    <3> QED
      BY <3>1, <3>2, TaskWritesNothing DEF Making
  <2>2. CASE Bytes[task[t].mb] # 0
    <3> DEFINE made == [made |-> TRUE, size |-> Bytes[task[t].mb], uuid |-> file[t[2]].uuid]
    <3>1. /\ Goto(t, "extend", "gpt") /\ UNCHANGED <<entry, fault>>
          /\ file' = [file EXCEPT ![t[2]] = made]
      BY <1>4, <2>2 DEF TaskExtends
    <3>2. /\ \A u \in Task : u # t => task'[u] = task[u]
          /\ task[t].at = "extend" /\ task'[t].at = "gpt" /\ task'[t].mb = task[t].mb
      BY <1>0, <3>1 DEF Goto, DisksTypeOK
    <3>3. /\ file[t[2]].uuid = NoUuid /\ file[t[2]].size = 0
          /\ \A u \in Task : u[2] = t[2] /\ task[u].at \in Making => u = t
      BY <3>2 DEF DisksInv, MakersAlone, Making
    <3>4. /\ \A d \in Disk : d # t[2] => file'[d] = file[d]
          /\ file'[t[2]] = made
      BY <1>0, <3>1 DEF DisksTypeOK
    <3>5. /\ file'[t[2]].made /\ file'[t[2]].uuid = NoUuid
          /\ file'[t[2]].size = Bytes[task'[t].mb]
      BY <3>2, <3>3, <3>4
    <3> QED
      BY <3>1, <3>2, <3>3, <3>4, <3>5, MakingKeeps DEF Making
  <2> QED
    BY <2>1, <2>2
<1>5. CASE TaskWritesGpt(t)
  <2>1. PICK u \in Uuid :
          file' = [file EXCEPT ![t[2]] = [made |-> TRUE, size |-> @.size, uuid |-> u]]
    BY <1>5 DEF TaskWritesGpt
  <2>2. Goto(t, "gpt", "open") /\ UNCHANGED <<entry, fault>>
    BY <1>5 DEF TaskWritesGpt
  <2>3. /\ \A v \in Task : v # t => task'[v] = task[v]
        /\ task[t].at = "gpt" /\ task'[t].at = "open" /\ task'[t].mb = task[t].mb
    BY <1>0, <2>2 DEF Goto, DisksTypeOK
  <2>4. /\ file[t[2]].uuid = NoUuid /\ file[t[2]].size = Bytes[task[t].mb]
        /\ \A v \in Task : v[2] = t[2] /\ task[v].at \in Making => v = t
    BY <2>3 DEF DisksInv, MakersAlone, Making
  <2>5. /\ \A d \in Disk : d # t[2] => file'[d] = file[d]
        /\ file'[t[2]] = [made |-> TRUE, size |-> file[t[2]].size, uuid |-> u]
    BY <1>0, <2>1 DEF DisksTypeOK
  <2>6. u # NoUuid
    BY DiskNamesAssumption
  <2>7. /\ file'[t[2]].made /\ file'[t[2]].uuid # NoUuid
        /\ file'[t[2]].size = file[t[2]].size /\ file'[t[2]].size = Bytes[task'[t].mb]
    BY <2>3, <2>4, <2>5, <2>6
  <2> QED
    BY <2>2, <2>3, <2>4, <2>5, <2>7, MakingKeeps
<1>6. CASE TaskOpens(t)
  <2> DEFINE uuid == file[t[2]].uuid
  <2>0. uuid \in Uuid \cup {NoUuid}
    BY <1>0 DEF DisksTypeOK
  <2>1. Return(t, IF uuid = NoUuid THEN "no_gpt" ELSE "ok", uuid)
    BY <1>6 DEF TaskOpens
  <2>2. /\ \A u \in Task : u # t => task'[u] = task[u]
        /\ \/ task'[t] = NoTask
           \/ task'[t] = [at |-> IF uuid = NoUuid THEN "no_gpt" ELSE "ok",
                          mb |-> task[t].mb, uuid |-> uuid]
    BY <1>0, <2>0, <2>1, ReturnChangesOne DEF Errors
  <2>3. task[t].at = "open"
    BY <1>6 DEF TaskOpens
  <2>4. UNCHANGED <<file, entry, fault>>
    BY <1>6 DEF TaskOpens
  <2>5. CASE uuid = NoUuid
    <3>1. task'[t].at \in {"none", "no_gpt"}
      BY <2>2, <2>5 DEF NoTask
    <3> QED
      BY <2>2, <2>3, <2>4, <3>1, TaskWritesNothing DEF Making
  <2>6. CASE uuid # NoUuid
    <3>1. Describes(t[2], uuid, task[t].mb)
      BY <2>3, <2>6 DEF DisksInv, ResultsTrue, Describes
    <3>2. \/ task'[t].at = "none"
          \/ task'[t].at = "ok" /\ task'[t].uuid = uuid /\ task'[t].mb = task[t].mb
      BY <2>2, <2>6 DEF NoTask
    <3> QED
      BY <2>2, <2>3, <2>4, <3>1, <3>2, TaskWritesNothing DEF Making
  <2> QED
    BY <2>5, <2>6
<1>7. CASE TaskFails(t)
  <2>1. Return(t, "io", NoUuid) /\ CutShort({t}) /\ UNCHANGED <<file, entry>>
    BY <1>7 DEF TaskFails
  <2>2. fault \subseteq fault' /\ (task[t].at \in Making => t[2] \in fault')
    BY <2>1 DEF CutShort
  <2>3. task'[t].at \in {"none", "io"} /\ \A u \in Task : u # t => task'[u] = task[u]
    BY <1>0, <2>1 DEF Return, DisksTypeOK, NoTask
  <2> QED
    BY <2>1, <2>2, <2>3, TaskWritesNothing DEF Making
<1> QED
  BY <1>1, <1>2, <1>3, <1>4, <1>5, <1>6, <1>7 DEF TaskStep

\* Tasks whose results are lost were not at work, or a crash is recorded.
LEMMA ForgetWritesNothing ==
  ASSUME DisksInv, DisksTypeOK', NEW k, Forget(k), UNCHANGED <<file, fault>>,
         \A c \in Client :
           \/ entry'[c] = entry[c]
           \/ entry'[c] # NoEntry =>
                \A d \in Disk : Describes(d, entry'[c][d].uuid, entry'[c][d].mb)
  PROVE  DisksInv'
<1>1. \A t \in Task : task'[t] = task[t] \/ (task'[t] = NoTask /\ task[t].at \notin Making)
  BY DEF Forget, AtWork
<1>2. WritesNothing
  BY <1>1 DEF WritesNothing, NoTask, Making
<1> QED
  BY <1>2, WritesNothingKeeps

\* create-application, its ends and the end of a client write no file themselves.
LEMMA ClientStepKeeps ==
  ASSUME DisksInv, DisksTypeOK', NEW c \in Client, ClientStep(c)
  PROVE  DisksInv'
<1>1. ASSUME NEW k \in Call, NEW sizes \in Asked, CreateApplication(c, k, sizes)
      PROVE  DisksInv'
  <2>1. \A t \in Task : task'[t] = task[t] \/ (task'[t].at = "exists" /\ task[t] = NoTask)
    <3> SUFFICES ASSUME NEW t \in Task, t[1] = k
                 PROVE  task'[t].at = "exists" /\ task[t] = NoTask
      BY <1>1 DEF CreateApplication
    <3>1. t = <<k, t[2]>> /\ t[2] \in Disk
      BY DEF Task
    <3> QED
      BY <1>1, <3>1 DEF CreateApplication
  <2>2. UNCHANGED <<file, entry, fault>>
    BY <1>1 DEF CreateApplication
  <2>3. WritesNothing
    BY <2>1, <2>2 DEF WritesNothing, NoTask, Making
  <2> QED
    BY <2>3, WritesNothingKeeps
<1>2. CASE CallFails(c)
  <2>1. Forget(call[c]) /\ UNCHANGED <<file, entry, fault>>
    BY <1>2 DEF CallFails
  <2> QED
    BY <2>1, ForgetWritesNothing
<1>3. CASE CallSucceeds(c)
  <2>1. Forget(call[c]) /\ UNCHANGED <<file, fault>>
    BY <1>3 DEF CallSucceeds
  <2>2. \A d \in Disk : Describes(d, entry'[c][d].uuid, entry'[c][d].mb)
    <3> SUFFICES ASSUME NEW d \in Disk
                 PROVE  Describes(d, entry'[c][d].uuid, entry'[c][d].mb)
      OBVIOUS
    <3>1. <<call[c], d>> \in Task /\ task[<<call[c], d>>].at = "ok"
      BY <1>3 DEF CallSucceeds, Result, Task, DisksInv, DisksTypeOK
    <3>2. entry'[c][d] = [mb |-> task[<<call[c], d>>].mb, uuid |-> task[<<call[c], d>>].uuid]
      BY <1>3 DEF CallSucceeds, DisksInv, DisksTypeOK
    <3> QED
      BY <3>1, <3>2 DEF DisksInv, ResultsTrue
  <2>3. \A b \in Client : b # c => entry'[b] = entry[b]
    BY <1>3 DEF CallSucceeds, DisksInv, DisksTypeOK
  <2> QED
    BY <2>1, <2>2, <2>3, ForgetWritesNothing
<1>4. CASE ClientDropped(c)
  <2>1. Forget(call[c]) /\ UNCHANGED <<file, fault>>
    BY <1>4 DEF ClientDropped
  <2>2. \A b \in Client : entry'[b] = entry[b] \/ entry'[b] = NoEntry
    BY <1>4 DEF ClientDropped, DisksInv, DisksTypeOK
  <2> QED
    BY <2>1, <2>2, ForgetWritesNothing
<1> QED
  BY <1>1, <1>2, <1>3, <1>4 DEF ClientStep

\* A crash leaves the files as they are and records those it cut short.
LEMMA DaemonDiesKeeps ==
  ASSUME DisksInv, DisksTypeOK', DaemonDies
  PROVE  DisksInv'
<1>1. \A t \in Task : task'[t] = NoTask /\ (task[t].at \in Making => t[2] \in fault')
  BY DEF DaemonDies, CutShort
<1>2. UNCHANGED file /\ fault \subseteq fault' /\ \A c \in Client : entry'[c] = NoEntry
  BY DEF DaemonDies, CutShort
<1>3. WritesNothing
  BY <1>1, <1>2 DEF WritesNothing, NoTask, Making
<1> QED
  BY <1>3, WritesNothingKeeps

\* Without files, tasks and entries the invariant holds.
LEMMA DisksInvInit == DisksInit => DisksInv
<1> SUFFICES ASSUME DisksInit PROVE DisksInv
  OBVIOUS
<1>1. DisksTypeOK
  BY DEF DisksInit, DisksTypeOK, NoFile, NoTask, NoEntry
<1>2. FilesInOrder /\ HalfMadeNeedsFault
  BY DEF DisksInit, FilesInOrder, HalfMadeNeedsFault, NoFile
<1>3. MakersAlone /\ ResultsTrue /\ EntriesTrue
  BY DEF DisksInit, MakersAlone, ResultsTrue, EntriesTrue, NoTask, Making
<1> QED
  BY <1>1, <1>2, <1>3 DEF DisksInv

\* The tasks, the clients and a crash keep it.
LEMMA DisksInvStep == DisksInv /\ [DisksNext]_disksVars => DisksInv'
<1> SUFFICES ASSUME DisksInv, [DisksNext]_disksVars PROVE DisksInv'
  OBVIOUS
<1>0. DisksTypeOK'
  BY DisksTypeStep DEF DisksInv
<1>1. ASSUME NEW t \in Task, TaskStep(t) PROVE DisksInv'
  BY <1>0, <1>1, TaskStepKeeps
<1>2. ASSUME NEW c \in Client, ClientStep(c) PROVE DisksInv'
  BY <1>0, <1>2, ClientStepKeeps
<1>3. CASE DaemonDies
  BY <1>0, <1>3, DaemonDiesKeeps
<1>4. CASE UNCHANGED disksVars
  <2>1. WritesNothing
    BY <1>4 DEF disksVars, WritesNothing
  <2> QED
    BY <1>0, <2>1, WritesNothingKeeps
<1> QED
  BY <1>1, <1>2, <1>3, <1>4 DEF DisksNext

\* Every reachable state of files, tasks and entries satisfies the inductive invariant.
THEOREM DisksInvariant == DisksSpec => []DisksInv
<1> QED
  BY DisksInvInit, DisksInvStep, PTL DEF DisksSpec

-----------------------------------------------------------------------------
\* Files, tasks, calls and entries keep their types: the uuid a realm is told is
\* one that was drawn, for any number of clients, calls and sizes.
THEOREM DisksTypes == DisksSpec => []DisksTypeOK
<1>1. DisksInv => DisksTypeOK
  BY DEF DisksInv
<1> QED
  BY <1>1, DisksInvariant, PTL

\* Only an I/O error, a size of 0 or the death of the daemon leaves a file
\* without a partition: failed calls and lost clients let their tasks finish.
THEOREM HalfMadeFiles == DisksSpec => []HalfMadeNeedsFault
<1>1. DisksInv => HalfMadeNeedsFault
  BY DEF DisksInv
<1> QED
  BY <1>1, DisksInvariant, PTL

\* The QEMUDisks in Realm::apps have the uuid, and but for sizes that wrap the
\* size, of the files they were made from.
THEOREM EntriesAreTrue == DisksSpec => []EntriesMatchFiles
<1>1. DisksInv => EntriesMatchFiles
  <2> SUFFICES ASSUME DisksInv, NEW c \in Client, NEW d \in Disk, entry[c] # NoEntry
               PROVE  /\ entry[c][d].uuid = file[d].uuid /\ file[d].uuid # NoUuid
                      /\ LET size == entry[c][d].mb * MB IN
                           size \in 1 .. Word - 1 => file[d].size = size
    BY DEF EntriesMatchFiles
  <2>1. Describes(d, entry[c][d].uuid, entry[c][d].mb) /\ entry[c][d].mb \in Nat
    BY DEF DisksInv, EntriesTrue, DisksTypeOK
  <2>2. ASSUME entry[c][d].mb * MB \in 1 .. Word - 1
        PROVE  Bytes[entry[c][d].mb] = entry[c][d].mb * MB /\ entry[c][d].mb * MB # 0
    BY <2>1, <2>2, BytesExact, SizeAssumption
  <2> QED
    BY <2>1, <2>2 DEF Describes
<1> QED
  BY <1>1, DisksInvariant, PTL

\* Only the task that makes a file writes it, and it stops at the partition.
LEMMA MadeDiskStays ==
  ASSUME DisksInv, [DisksNext]_disksVars, NEW d \in Disk, file[d].uuid # NoUuid
  PROVE  file'[d] = file[d]
<1> SUFFICES ASSUME DisksNext PROVE file'[d] = file[d]
  BY DEF disksVars
<1>1. file[d].made
  BY DEF DisksInv, FilesInOrder, NoFile
<1>2. ASSUME NEW t \in Task, TaskStep(t) PROVE file'[d] = file[d]
  <2>1. CASE UNCHANGED file
    BY <2>1
  <2>2. CASE t[2] # d
    BY <1>2, <2>2
    DEF TaskStep, TaskLooks, TaskChecks, TaskCreates, TaskExtends, TaskWritesGpt,
        TaskOpens, TaskFails, DisksInv, DisksTypeOK
  <2>3. CASE t[2] = d
    <3>1. task[t].at \notin Making
      BY <2>3 DEF DisksInv, MakersAlone
    <3> QED
      BY <1>1, <1>2, <2>3, <3>1
      DEF TaskStep, TaskLooks, TaskChecks, TaskCreates, TaskExtends, TaskWritesGpt,
          TaskOpens, TaskFails, Goto, Making
  <2> QED
    BY <2>1, <2>2, <2>3
<1>3. ASSUME NEW c \in Client, ClientStep(c) PROVE file'[d] = file[d]
  BY <1>3 DEF ClientStep, CreateApplication, CallFails, CallSucceeds, ClientDropped
<1>4. CASE DaemonDies
  BY <1>4 DEF DaemonDies
<1> QED
  BY <1>2, <1>3, <1>4 DEF DisksNext

\* No step of any client, call or daemon changes a file that has a partition:
\* create_new and the order extend, gpt.write keep what an application stored.
THEOREM DisksStay == DisksSpec => MadeDisksStay
<1>1. DisksInv /\ [DisksNext]_disksVars =>
        [\A d \in Disk : file[d].uuid # NoUuid => file'[d] = file[d]]_disksVars
  BY MadeDiskStays
<1> QED
  BY <1>1, DisksInvariant, PTL DEF DisksSpec, MadeDisksStay
-----------------------------------------------------------------------------
(***************************************************************************)
(* Calls one after another.  When the latest call began, a disk that is    *)
(* not in raced had no task, so the task of that call is the only one: what *)
(* it has seen of the file is still so at its next access.                 *)
(***************************************************************************)
AloneUnlessRaced ==
  \A t, u \in Task : t # u /\ t[2] = u[2] /\ task[t] # NoTask /\ task[u] # NoTask => t[2] \in raced

\* What a task that nothing disturbs knows of its file.
Knows(t) ==
  LET at == task[t].at IN
  /\ at = "check" => file[t[2]].made
  /\ at = "create" => ~file[t[2]].made
  /\ at = "open" => file[t[2]].uuid # NoUuid
  /\ at \notin {"present", "no_gpt"}
  /\ at = "mismatch" => file[t[2]].size # Bytes[task[t].mb]

UndisturbedKnow == \A t \in Task : t[2] \notin fault \cup raced => Knows(t)

RaceInv == DisksInv /\ AloneUnlessRaced /\ UndisturbedKnow

\* A step after which no task is new, and none knows anything it did not know.
LEMMA LessTasksKeep ==
  ASSUME RaceInv, UNCHANGED <<file, raced>>, fault \subseteq fault',
         \A t \in Task : task'[t] \in {task[t], NoTask}
  PROVE  AloneUnlessRaced' /\ UndisturbedKnow'
<1>1. AloneUnlessRaced'
  BY DEF RaceInv, AloneUnlessRaced
<1>2. ASSUME NEW t \in Task, t[2] \notin fault' \cup raced' PROVE Knows(t)'
  <2>1. CASE task'[t] = task[t]
    BY <1>2, <2>1 DEF RaceInv, UndisturbedKnow, Knows
  <2>2. CASE task'[t] = NoTask
    BY <2>2 DEF Knows, NoTask
  <2> QED
    BY <2>1, <2>2
<1> QED
  BY <1>1, <1>2 DEF UndisturbedKnow

\* A task that is alone at its disk need only know of its own steps.
LEMMA OneTaskKeeps ==
  ASSUME RaceInv, NEW t \in Task, task[t] # NoTask, UNCHANGED raced, fault \subseteq fault',
         \A u \in Task : u # t => task'[u] = task[u],
         \A d \in Disk : d # t[2] => file'[d] = file[d],
         t[2] \notin fault' \cup raced => Knows(t)'
  PROVE  AloneUnlessRaced' /\ UndisturbedKnow'
<1>1. AloneUnlessRaced'
  BY DEF RaceInv, AloneUnlessRaced
<1>2. ASSUME NEW u \in Task, u[2] \notin fault' \cup raced' PROVE Knows(u)'
  <2>0. u[2] \in Disk
    BY DEF Task
  <2>1. CASE u = t
    BY <1>2, <2>1
  <2>2. CASE u # t /\ u[2] = t[2]
    <3>1. task'[u] = NoTask
      BY <1>2, <2>2 DEF RaceInv, AloneUnlessRaced
    <3> QED
      BY <3>1 DEF Knows, NoTask
  <2>3. CASE u[2] # t[2]
    BY <1>2, <2>0, <2>3 DEF RaceInv, UndisturbedKnow, Knows
  <2> QED
    BY <2>1, <2>2, <2>3
<1> QED
  BY <1>1, <1>2 DEF UndisturbedKnow

\* An undisturbed task that opens a file it has checked finds a partition: a file
\* without one has a fault or a maker, and the maker would disturb it.
LEMMA CheckedIsWhole ==
  ASSUME RaceInv, NEW t \in Task, task[t].at = "check", t[2] \notin fault \cup raced
  PROVE  file[t[2]].uuid # NoUuid
<1> SUFFICES ASSUME file[t[2]].uuid = NoUuid PROVE FALSE
  OBVIOUS
<1>1. t[2] \in Disk /\ file[t[2]].made
  BY DEF RaceInv, UndisturbedKnow, Knows, Task
<1>2. PICK k \in Call : task[<<k, t[2]>>].at \in Making
  BY <1>1 DEF RaceInv, DisksInv, HalfMadeNeedsFault
<1>3. <<k, t[2]>> \in Task /\ <<k, t[2]>>[2] = t[2] /\ <<k, t[2]>> # t
  BY <1>1, <1>2 DEF Task, Making
<1>4. task[t] # NoTask /\ task[<<k, t[2]>>] # NoTask
  BY <1>2 DEF NoTask, Making
<1> QED
  BY <1>3, <1>4 DEF RaceInv, AloneUnlessRaced

\* Each step of a task leaves it knowing what it has just seen or written.
LEMMA TaskStepKnows ==
  ASSUME RaceInv, NEW t \in Task, TaskStep(t)
  PROVE  AloneUnlessRaced' /\ UndisturbedKnow'
<1>0. DisksTypeOK /\ t[2] \in Disk
  BY DEF RaceInv, DisksInv, Task
<1>1. /\ task[t] # NoTask /\ UNCHANGED raced /\ fault \subseteq fault'
      /\ \A u \in Task : u # t => task'[u] = task[u]
  BY <1>0 DEF TaskStep, TaskLooks, TaskChecks, TaskCreates, TaskExtends, TaskWritesGpt, TaskOpens,
              TaskFails, Goto, Return, CutShort, DisksTypeOK, NoTask, AtWork, Making
<1>2. \A d \in Disk : d # t[2] => file'[d] = file[d]
  BY <1>0 DEF TaskStep, TaskLooks, TaskChecks, TaskCreates, TaskExtends, TaskWritesGpt, TaskOpens,
              TaskFails, DisksTypeOK
<1>3. ASSUME t[2] \notin fault' \cup raced PROVE Knows(t)'
  <2>0. t[2] \notin fault \cup raced /\ Knows(t)
    BY <1>1, <1>3 DEF RaceInv, UndisturbedKnow
  <2>1. CASE TaskLooks(t)
    BY <1>0, <2>1 DEF TaskLooks, Goto, Knows, DisksTypeOK
  <2>2. CASE TaskChecks(t)
    <3>1. file[t[2]].uuid # NoUuid /\ UNCHANGED file
      BY <2>0, <2>2, CheckedIsWhole DEF TaskChecks, Goto, Return
    <3> QED
      BY <1>0, <2>2, <3>1 DEF TaskChecks, Goto, Return, Knows, DisksTypeOK, NoTask
  <2>3. CASE TaskCreates(t)
    <3>1. ~file[t[2]].made
      BY <2>0, <2>3 DEF TaskCreates, Knows
    <3> QED
      BY <1>0, <2>3, <3>1 DEF TaskCreates, Goto, Knows, DisksTypeOK
  <2>4. CASE TaskExtends(t)
    BY <1>0, <2>4 DEF TaskExtends, Goto, Return, Knows, DisksTypeOK, NoTask
  <2>5. CASE TaskWritesGpt(t)
    BY <1>0, <2>5, DiskNamesAssumption DEF TaskWritesGpt, Goto, Knows, DisksTypeOK
  <2>6. CASE TaskOpens(t)
    <3>1. file[t[2]].uuid # NoUuid
      BY <2>0, <2>6 DEF TaskOpens, Knows
    <3> QED
      BY <1>0, <2>6, <3>1 DEF TaskOpens, Return, Knows, DisksTypeOK, NoTask
  <2>7. CASE TaskFails(t)
    BY <1>0, <2>7 DEF TaskFails, Return, Knows, DisksTypeOK, NoTask
  <2> QED
    BY <2>1, <2>2, <2>3, <2>4, <2>5, <2>6, <2>7 DEF TaskStep
<1> QED
  BY <1>1, <1>2, <1>3, OneTaskKeeps

\* A new call: a disk that no task is at gets one task, which has seen nothing yet.
LEMMA CreateApplicationKnows ==
  ASSUME RaceInv, NEW c \in Client, NEW k \in Call, NEW sizes \in Asked,
         CreateApplication(c, k, sizes)
  PROVE  AloneUnlessRaced' /\ UndisturbedKnow'
<1>1. \A t \in Task : IF t[1] = k THEN task'[t].at = "exists" ELSE task'[t] = task[t]
  BY DEF CreateApplication
<1>2. \A t \in Task : task[t] # NoTask => t[2] \in raced'
  BY DEF CreateApplication
<1>3. AloneUnlessRaced'
  <2> SUFFICES ASSUME NEW t \in Task, NEW u \in Task, t # u, t[2] = u[2],
                      task'[t] # NoTask, task'[u] # NoTask
               PROVE  t[2] \in raced'
    BY DEF AloneUnlessRaced
  <2>1. t[1] # k \/ u[1] # k
    BY DEF Task
  <2> QED
    BY <1>1, <1>2, <2>1
<1>4. UndisturbedKnow'
  <2> SUFFICES ASSUME NEW t \in Task, t[2] \notin raced' PROVE Knows(t)'
    BY DEF UndisturbedKnow
  <2>1. CASE t[1] = k
    BY <1>1, <2>1 DEF Knows
  <2>2. CASE t[1] # k
    <3>1. task'[t] = NoTask
      BY <1>1, <1>2, <2>2
    <3> QED
      BY <3>1 DEF Knows, NoTask
  <2> QED
    BY <2>1, <2>2
<1> QED
  BY <1>3, <1>4

\* Every step of tasks, clients and the daemon keeps the invariant.
LEMMA RaceInvStep == RaceInv /\ [DisksNext]_disksVars => RaceInv'
<1> SUFFICES ASSUME RaceInv, [DisksNext]_disksVars PROVE AloneUnlessRaced' /\ UndisturbedKnow'
  BY DisksInvStep DEF RaceInv
<1>1. ASSUME NEW t \in Task, TaskStep(t) PROVE AloneUnlessRaced' /\ UndisturbedKnow'
  BY <1>1, TaskStepKnows
<1>2. ASSUME NEW c \in Client, ClientStep(c) PROVE AloneUnlessRaced' /\ UndisturbedKnow'
  <2>1. CASE CallFails(c) \/ CallSucceeds(c) \/ ClientDropped(c)
    <3>1. UNCHANGED <<file, fault, raced>> /\ \A t \in Task : task'[t] \in {task[t], NoTask}
      BY <2>1 DEF CallFails, CallSucceeds, ClientDropped, Forget
    <3> QED
      BY <3>1, LessTasksKeep
  <2> QED
    BY <1>2, <2>1, CreateApplicationKnows DEF ClientStep
<1>3. CASE DaemonDies
  <2>1. /\ UNCHANGED <<file, raced>> /\ fault \subseteq fault'
        /\ \A t \in Task : task'[t] = NoTask
    BY <1>3 DEF DaemonDies, CutShort
  <2> QED
    BY <2>1, LessTasksKeep
<1>4. CASE UNCHANGED disksVars
  BY <1>4, LessTasksKeep DEF disksVars
<1> QED
  BY <1>1, <1>2, <1>3, <1>4 DEF DisksNext

\* A call that meets neither a fault nor another call's task fails only when the
\* file has another size: for any number of clients and calls.
THEOREM FailuresHaveCauses == DisksSpec => []FailuresNeedRace
<1>1. DisksInit => RaceInv
  BY DisksInvInit
  DEF DisksInit, RaceInv, AloneUnlessRaced, UndisturbedKnow, Knows, NoTask
<1>2. RaceInv => FailuresNeedRace
  BY DEF RaceInv, UndisturbedKnow, Knows, FailuresNeedRace
<1> QED
  BY <1>1, <1>2, RaceInvStep, PTL DEF DisksSpec
=============================================================================
