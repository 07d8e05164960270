--------------------------- MODULE ApplicationDisks ---------------------------
(***************************************************************************)
(* The two disk images of one application on the host: QEMUDisk::new       *)
(* (vm/src/qdisk.rs) run by the blocking tasks of Application::new         *)
(* (vm/src/app.rs) for create-application (realm.rs, interface.rs).        *)
(*                                                                         *)
(* Every client has realms of its own, but the files are named after the   *)
(* realm and the application only: clients that use the same two ids, one  *)
(* after the other or at once, and calls that were given up, share them.   *)
(* The module is about one such pair of ids.  A blocking task cannot be    *)
(* aborted; it outlives the call and the client, not the daemon's process. *)
(*                                                                         *)
(* A task's step is one access to the file system.  gpt.write is external  *)
(* and one step.  A failing create_dir changes nothing and is left out.    *)
(* Variants are what they are in ConnectionDispatcher.                     *)
(***************************************************************************)
EXTENDS Naturals

CONSTANTS
  Client,  \* connections to the cli socket
  Call,    \* bound: calls of create-application with a task under way
  NoCall,  \* the client awaits none
  Uuid,    \* the uuids Uuid::new_v4 may draw
  NoUuid,  \* no partition, or no application
  Asked,   \* the sizes in MB users ask for, of both disks
  MB,      \* bytes in a MB
  Word     \* 2^64: usize arithmetic in a release build

Disk == {"main", "secure"}

ASSUME DiskNamesAssumption == NoCall \notin Call /\ NoUuid \notin Uuid
ASSUME SizeAssumption == Asked \subseteq [Disk -> Nat] /\ MB \in Nat \ {0} /\ Word \in Nat \ {0}

Task == Call \X Disk
NoFile == [made |-> FALSE, size |-> 0, uuid |-> NoUuid]
Empty  == [made |-> TRUE, size |-> 0, uuid |-> NoUuid]
NoTask == [at |-> "none", mb |-> 0, uuid |-> NoUuid]
NoEntry == [d \in Disk |-> [mb |-> 0, uuid |-> NoUuid]]

VARIABLES
  file,   \* main.raw and secure.raw: whether it exists, its size, its partition
  task,   \* where in QEMUDisk::new a task is, or its result until that is taken
  call,   \* the call each client's handler awaits
  entry,  \* the application in Realm::apps: the QEMUDisks and what was asked for
  fault,  \* history: disks whose making an I/O error, a size of 0 or a crash cut short
  raced   \* history: disks another call was busy with when the latest call began

disksVars == <<file, task, call, entry, fault, raced>>

Making == {"extend", "gpt"}
AtWork == {"exists", "check", "create", "open"} \cup Making
Errors == {"io", "mismatch", "present", "no_gpt"}

DisksTypeOK ==
  /\ file \in [Disk -> [made : BOOLEAN, size : Nat, uuid : Uuid \cup {NoUuid}]]
  /\ task \in [Task -> [at : {"none", "ok"} \cup AtWork \cup Errors,
                        mb : Nat, uuid : Uuid \cup {NoUuid}]]
  /\ call \in [Client -> Call \cup {NoCall}]
  /\ entry \in [Client -> [Disk -> [mb : Nat, uuid : Uuid \cup {NoUuid}]]]
  /\ fault \subseteq Disk /\ raced \subseteq Disk

DisksInit ==
  /\ file = [d \in Disk |-> NoFile]
  /\ task = [t \in Task |-> NoTask]
  /\ call = [c \in Client |-> NoCall]
  /\ entry = [c \in Client |-> NoEntry]
  /\ fault = {} /\ raced = {}

-----------------------------------------------------------------------------
(* QEMUDisk::new.                                                          *)

\* size_mb * 1024 * 1024.  A debug build panics where this wraps: TaskFails.
Bytes == [mb \in Nat |-> (mb * MB) % Word]

Goto(t, from, to) ==
  /\ task[t].at = from
  /\ task' = [task EXCEPT ![t] = [at |-> to, mb |-> @.mb, uuid |-> @.uuid]]

\* The task returns, to its call or, if that was given up, to nobody.
Return(t, result, uuid) ==
  task' = [task EXCEPT ![t] =
             IF \E c \in Client : call[c] = t[1]
             THEN [at |-> result, mb |-> @.mb, uuid |-> uuid] ELSE NoTask]

\* Variant: every path is taken for a new one.
TaskLooksNowhere(t) ==
  /\ Goto(t, "exists", "create")
  /\ UNCHANGED <<file, call, entry, fault, raced>>

\* path.exists().
TaskLooks(t) ==
  /\ Goto(t, "exists", IF file[t[2]].made THEN "check" ELSE "create")
  /\ UNCHANGED <<file, call, entry, fault, raced>>

\* Variant: the size of an existing file is not compared.
TaskChecksNothing(t) ==
  /\ Goto(t, "check", "open")
  /\ UNCHANGED <<file, call, entry, fault, raced>>

\* An existing file must have the size that was asked for.
TaskChecks(t) ==
  /\ task[t].at = "check"
  /\ IF file[t[2]].size = Bytes[task[t].mb] THEN Goto(t, "check", "open")
     ELSE Return(t, "mismatch", NoUuid)
  /\ UNCHANGED <<file, call, entry, fault, raced>>

\* Variant: File::create truncates a file that exists.
TaskCreatesAnyway(t) ==
  /\ Goto(t, "create", "extend")
  /\ file' = [file EXCEPT ![t[2]] = Empty]
  /\ UNCHANGED <<call, entry, fault, raced>>

\* File::create_new, which fails if the file has appeared in the meantime.
TaskCreates(t) ==
  /\ task[t].at = "create"
  /\ IF file[t[2]].made
     THEN Return(t, "present", NoUuid) /\ UNCHANGED file
     ELSE Goto(t, "create", "extend") /\ file' = [file EXCEPT ![t[2]] = Empty]
  /\ UNCHANGED <<call, entry, fault, raced>>

\* Seek to the last byte and write it.  A file of 0 bytes has none: the seek
\* goes to 2^64 - 1 and fails.
TaskExtends(t) ==
  LET size == Bytes[task[t].mb] IN
  /\ task[t].at = "extend"
  /\ IF size = 0
     THEN Return(t, "io", NoUuid) /\ fault' = fault \cup {t[2]} /\ UNCHANGED file
     ELSE /\ Goto(t, "extend", "gpt")
          /\ file' = [file EXCEPT ![t[2]] = [made |-> TRUE, size |-> size, uuid |-> @.uuid]]
          /\ UNCHANGED fault
  /\ UNCHANGED <<call, entry, raced>>

\* The protective MBR and a GPT with one partition of a fresh uuid; sync.
TaskWritesGpt(t) ==
  /\ Goto(t, "gpt", "open")
  /\ \E u \in Uuid \ {file[d].uuid : d \in Disk} :
       file' = [file EXCEPT ![t[2]] = [made |-> TRUE, size |-> @.size, uuid |-> u]]
  /\ UNCHANGED <<call, entry, fault, raced>>

\* Open the GPT and return the uuid of its first partition.
TaskOpens(t) ==
  LET uuid == file[t[2]].uuid IN
  /\ task[t].at = "open"
  /\ Return(t, IF uuid = NoUuid THEN "no_gpt" ELSE "ok", uuid)
  /\ UNCHANGED <<file, call, entry, fault, raced>>

\* What the end of the tasks T, wherever they are, does to their files.
CutShort(T) == fault' = fault \cup {t[2] : t \in {u \in T : task[u].at \in Making}}

\* Any access fails, or a panic becomes a JoinError.
TaskFails(t) ==
  /\ task[t].at \in AtWork
  /\ Return(t, "io", NoUuid)
  /\ CutShort({t})
  /\ UNCHANGED <<file, call, entry, raced>>

-----------------------------------------------------------------------------
(* create-application.                                                     *)

\* Variant: only the task of the main disk is spawned.
CreateApplicationMain(c, k, sizes) ==
  /\ call[c] = NoCall /\ entry[c] = NoEntry
  /\ \A d \in Disk : task[<<k, d>>] = NoTask
  /\ call' = [call EXCEPT ![c] = k]
  /\ task' = [task EXCEPT ![<<k, "main">>] =
                [at |-> "exists", mb |-> sizes["main"], uuid |-> NoUuid]]
  /\ raced' = {t[2] : t \in {u \in Task : task[u] # NoTask}}
  /\ UNCHANGED <<file, entry, fault>>

\* handle_create_application up to the two spawn_blocking.  An application the
\* realm already has is an error and changes nothing.
CreateApplication(c, k, sizes) ==
  /\ call[c] = NoCall /\ entry[c] = NoEntry
  /\ \A d \in Disk : task[<<k, d>>] = NoTask
  /\ call' = [call EXCEPT ![c] = k]
  /\ task' = [t \in Task |->
                IF t[1] = k THEN [at |-> "exists", mb |-> sizes[t[2]], uuid |-> NoUuid]
                ELSE task[t]]
  /\ raced' = {t[2] : t \in {u \in Task : task[u] # NoTask}}
  /\ UNCHANGED <<file, entry, fault>>

\* The handles of call k are dropped: results are lost, tasks at work go on.
Forget(k) ==
  task' = [t \in Task |-> IF t[1] = k /\ task[t].at \notin AtWork THEN NoTask ELSE task[t]]

Result(k, d) == task[<<k, d>>].at

\* Variant: the tasks of a call that fails are aborted.
CallFailsAborting(c) ==
  LET k == call[c] IN
  /\ k # NoCall
  /\ Result(k, "main") \in Errors \/ (Result(k, "main") = "ok" /\ Result(k, "secure") \in Errors)
  /\ task' = [t \in Task |-> IF t[1] = k THEN NoTask ELSE task[t]]
  /\ call' = [call EXCEPT ![c] = NoCall]
  /\ UNCHANGED <<file, entry, fault, raced>>

\* main_storage.await?? or, after it, secure_storage.await?? fails.  When the
\* first does, the task of the other goes on, detached.
CallFails(c) ==
  LET k == call[c] IN
  /\ k # NoCall
  /\ Result(k, "main") \in Errors \/ (Result(k, "main") = "ok" /\ Result(k, "secure") \in Errors)
  /\ Forget(k)
  /\ call' = [call EXCEPT ![c] = NoCall]
  /\ UNCHANGED <<file, entry, fault, raced>>

\* Both disks are there: the application enters Realm::apps.
CallSucceeds(c) ==
  LET k == call[c] IN
  /\ k # NoCall
  /\ \A d \in Disk : Result(k, d) = "ok"
  /\ Forget(k)
  /\ call' = [call EXCEPT ![c] = NoCall]
  /\ entry' = [entry EXCEPT ![c] =
                 [d \in Disk |-> [mb |-> task[<<k, d>>].mb, uuid |-> task[<<k, d>>].uuid]]]
  /\ UNCHANGED <<file, fault, raced>>

\* The handler ends or is aborted, its realms with it; another client may come.
ClientDropped(c) ==
  /\ call[c] # NoCall \/ entry[c] # NoEntry
  /\ Forget(call[c])
  /\ call' = [call EXCEPT ![c] = NoCall]
  /\ entry' = [entry EXCEPT ![c] = NoEntry]
  /\ UNCHANGED <<file, fault, raced>>

\* The daemon's process dies and is started again: only the files are left.
DaemonDies ==
  /\ task' = [t \in Task |-> NoTask]
  /\ call' = [c \in Client |-> NoCall]
  /\ entry' = [c \in Client |-> NoEntry]
  /\ CutShort(Task)
  /\ UNCHANGED <<file, raced>>

TaskStep(t) ==
  \/ TaskLooks(t) \/ TaskChecks(t) \/ TaskCreates(t) \/ TaskExtends(t)
  \/ TaskWritesGpt(t) \/ TaskOpens(t) \/ TaskFails(t)

ClientStep(c) ==
  \/ \E k \in Call, sizes \in Asked : CreateApplication(c, k, sizes)
  \/ CallFails(c) \/ CallSucceeds(c) \/ ClientDropped(c)

DisksNext ==
  \/ \E t \in Task : TaskStep(t)
  \/ \E c \in Client : ClientStep(c)
  \/ DaemonDies

DisksSpec == DisksInit /\ [][DisksNext]_disksVars

-----------------------------------------------------------------------------
\* A disk that was made is never made again, resized or given another uuid, by
\* whichever clients, calls given up or daemons come after: data on it is safe.
MadeDisksStay ==
  [][\A d \in Disk : file[d].uuid # NoUuid => file'[d] = file[d]]_disksVars

\* What a client's realm knows of its disks is what is in the files, and they
\* have the size the client asked for, unless that was 0 or the product wraps.
EntriesMatchFiles ==
  \A c \in Client, d \in Disk :
    entry[c] # NoEntry =>
      /\ entry[c][d].uuid = file[d].uuid /\ file[d].uuid # NoUuid
      /\ LET size == entry[c][d].mb * MB IN size \in 1 .. Word - 1 => file[d].size = size

\* A file without a partition table, on which every later call fails, is left
\* behind only by an I/O error, a size of 0 or the death of the daemon: a call
\* that fails or a client that goes lets its tasks finish the file.
HalfMadeNeedsFault ==
  \A d \in Disk :
    file[d].made /\ file[d].uuid = NoUuid =>
      d \in fault \/ \E k \in Call : task[<<k, d>>].at \in Making

\* Without such a fault, and with no other call's task at the disk, a call fails
\* only for a file of another size: calls one after another find their disks.
FailuresNeedRace ==
  \A t \in Task :
    LET disturbed == t[2] \in fault \cup raced IN
    /\ task[t].at \in {"present", "no_gpt"} => disturbed
    /\ task[t].at = "mismatch" => disturbed \/ file[t[2]].size # Bytes[task[t].mb]
=============================================================================
