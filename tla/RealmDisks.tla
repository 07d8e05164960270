------------------------------ MODULE RealmDisks ------------------------------
(***************************************************************************)
(* The disks of ApplicationDisks as a realm sees them: Realm::launch gives *)
(* QEMU the files and the guest RealmInfo (vm/src/realm.rs, app.rs); the   *)
(* app-manager lists the partitions it finds (diskmanager.rs), looks up    *)
(* the ones RealmInfo names and puts dm-crypt over them (app-manager/src:  *)
(* app.rs, dm.rs, dmcrypt.rs).  Clients, calls and the daemon go on.       *)
(*                                                                         *)
(* The module is about realms with this one application.  That a Realm     *)
(* object is launched once, and what ends a realm, is HostDaemon's         *)
(* subject: here its QEMU may end at any time.  Variants are what they are *)
(* in ApplicationDisks.                                                    *)
(***************************************************************************)
EXTENDS ApplicationDisks, Sequences

CONSTANTS
  Options,  \* CryptoParams::additional_options in the realm's image
  NoDisk    \* not attached, not found, not mapped

ASSUME OptionsAssumption == Options \subseteq Seq(STRING) /\ NoDisk \notin Disk

VARIABLES
  vm,          \* how far the realm that has the disks has come
  options,     \* the options its image is configured with
  info,        \* RealmInfo: main_partition_uuid and secure_partition_uuid
  drives,      \* the files QEMU was given
  partitions,  \* DiskManager::partitions: the disk a partition was found on
  mapped       \* the disk under the dm-crypt device of that name, which is a uuid

realmVars == <<vm, options, info, drives, partitions, mapped>>
vars == <<disksVars, realmVars>>

\* A call that is awaited has both of its tasks, and one client that awaits it.
CallsHaveTasks ==
  \A c \in Client : call[c] # NoCall =>
    /\ \A d \in Disk : task[<<call[c], d>>] # NoTask
    /\ \A b \in Client \ {c} : call[b] # call[c]

\* Types; and an awaited call has its tasks, so that create-application can be answered.
RealmDisksTypeOK ==
  /\ DisksTypeOK
  /\ CallsHaveTasks
  /\ vm \in {"off", "boot", "scanned", "main", "up", "not_found", "refused"}
  /\ options \in Options \cup {<<>>}
  /\ info \in [Disk -> Uuid \cup {NoUuid}]
  /\ drives \subseteq Disk
  /\ partitions \in [Uuid -> Disk \cup {NoDisk}]
  /\ mapped \in [Uuid -> Disk \cup {NoDisk}]

Init ==
  /\ DisksInit
  /\ vm = "off"
  /\ options = <<>>
  /\ info = [d \in Disk |-> NoUuid]
  /\ drives = {}
  /\ partitions = [u \in Uuid |-> NoDisk]
  /\ mapped = [u \in Uuid |-> NoDisk]

-----------------------------------------------------------------------------
\* Variant: the uuids are swapped.
ApplicationInfoSwapped(e) == [main |-> e["secure"].uuid, secure |-> e["main"].uuid]

\* Application::application_info.
ApplicationInfo(e) == [d \in Disk |-> e[d].uuid]

\* Variant: only the main storage is attached.
ConfigureMain == drives' = {"main"}

\* Application::configure: a -drive for each file.
Configure == drives' = Disk

\* Realm::launch.  QEMU locks its image files: while a realm has the disks,
\* another that is given them does not start.
LaunchRealm(c) ==
  /\ entry[c] # NoEntry
  /\ vm = "off"
  /\ vm' = "boot"
  /\ options' \in Options
  /\ Configure
  /\ info' = ApplicationInfo(entry[c])
  /\ UNCHANGED <<disksVars, partitions, mapped>>

\* Variant: disks are known by their place, not by what is on them.
ScanByPlace ==
  /\ vm = "boot"
  /\ vm' = "scanned"
  /\ \E found \in [Uuid -> drives] : partitions' = found
  /\ UNCHANGED <<disksVars, options, info, drives, mapped>>

\* DiskManager::available: every block device with a GPT, in whatever order the
\* kernel names them, adds its partitions; the last one with a uuid stays.
Scan ==
  LET On(u) == {d \in drives : file[d].uuid = u} IN
  /\ vm = "boot"
  /\ vm' = "scanned"
  /\ \E last \in [Uuid -> Disk \cup {NoDisk}] :
       /\ \A u \in Uuid : IF On(u) = {} THEN last[u] = NoDisk ELSE last[u] \in On(u)
       /\ partitions' = last
  /\ UNCHANGED <<disksVars, options, info, drives, mapped>>

\* CryptDevice::load: the parameters of the table.  The number of options is
\* appended to the offset, 0, without a space between them.
Table(opts, d) == [device |-> d, offset |-> Len(opts), args |-> opts]

\* The kernel takes the word after the offset for the number of options.
KernelAccepts(table) == table.args = <<>>

\* A device that is created must have a new name.
CreateDevice(name) == mapped[name] = NoDisk

\* decrypt_partition: look the uuid up; create a device named after it, load its
\* table and resume it.
Decrypt(d, next) ==
  LET found == IF info[d] = NoUuid THEN NoDisk ELSE partitions[info[d]]
      table == Table(options, found) IN
  /\ IF found # NoDisk /\ CreateDevice(info[d]) /\ KernelAccepts(table)
     THEN vm' = next /\ mapped' = [mapped EXCEPT ![info[d]] = table.device]
     ELSE /\ vm' = IF found = NoDisk THEN "not_found" ELSE "refused"
          /\ UNCHANGED mapped
  /\ UNCHANGED <<disksVars, options, info, drives, partitions>>

\* AppManager::decrypt_main_storage and decrypt_secure_storage.
DecryptMain   == vm = "scanned" /\ Decrypt("main", "main")
DecryptSecure == vm = "main" /\ Decrypt("secure", "up")

\* The realm is shut down or killed, or an error ends its app-manager.
RealmEnds ==
  /\ vm # "off"
  /\ vm' = "off"
  /\ info' = [d \in Disk |-> NoUuid]
  /\ drives' = {}
  /\ partitions' = [u \in Uuid |-> NoDisk]
  /\ mapped' = [u \in Uuid |-> NoDisk]
  /\ options' = <<>>
  /\ UNCHANGED disksVars

Next ==
  \/ DisksNext /\ UNCHANGED realmVars
  \/ \E c \in Client : LaunchRealm(c)
  \/ Scan \/ DecryptMain \/ DecryptSecure \/ RealmEnds

Spec == Init /\ [][Next]_vars

\* DeviceHandle::path: what mount_storage mounts as main or secure storage is the
\* device sysfs shows under the name, once it is resumed.
Storage(d) == IF info[d] = NoUuid THEN NoDisk ELSE mapped[info[d]]

-----------------------------------------------------------------------------
\* The partitions a realm is told of are the ones it finds, on the right disks:
\* no file was remade between create-application and this boot, clients that
\* share the files included.  Only options in its configuration keep a realm
\* from mapping them, and these do.
AnnouncedDisksAreFound ==
  /\ vm # "not_found"
  /\ vm = "refused" => options # <<>>
  /\ \A d \in Disk : Storage(d) \in {d, NoDisk}
  /\ vm = "up" => options = <<>> /\ \A d \in Disk : Storage(d) = d
=============================================================================
