------------------------------ MODULE DockerImage ------------------------------
(***************************************************************************)
(* What the realm reads out of a docker image: its manifests and configs   *)
(* (image/handler/src/docker/manifests.rs, read_manifest of installer.rs), *)
(* the measurement of its layers (hasher.rs, util.rs), and the process its *)
(* config describes (launch of launcher.rs).  Operators only; AppStorage   *)
(* uses them in the order the app-manager does.                            *)
(*                                                                         *)
(* A hash is what was fed to the hash function: no two contents collide.   *)
(* JSON is abstracted to the fields present and the values that matter.    *)
(***************************************************************************)
EXTENDS Naturals, Sequences

CONSTANTS
  Tar,       \* contents of a file up to the end of the tar archive in it
  Rest,      \* pieces of what may follow the archive in the file
  Name,      \* names of users and groups, those that passwd does not know too
  NoId,      \* an id the config does not give
  Users,     \* /etc/passwd of the realm (not of the image): name to uid
  Groups,    \* /etc/group of the realm
  MaxId      \* 2^32 - 1, which the kernel takes for "no id"

\* The fields of a config without a default: without one of them it does not parse.
Required == {"architecture", "created", "os", "config", "history", "rootfs", "Env", "ArgsEscaped"}

\* The contents of a layer's file, and a digest in a config: the hash of val.
LayerFile == [tar : Tar, rest : Seq(Rest)]
Digest == [ty : STRING, val : Seq(Tar \cup Rest)]

\* An id in "User" as it is written: a number of any size, or a name.
Written == Nat \cup Name \cup {NoId}

\* A container config: whether the hash in its file name is that of the file, ...
Config == [named : BOOLEAN, fields : SUBSET Required, arch : STRING, diff_ids : Seq(Digest),
           argv : Seq(STRING), uid : Written, gid : Written]

\* An image: whether its manifest.json has the hash that provision_info gives as
\* the root of trust, and the manifests in it.
ImageType == [trusted : BOOLEAN, manifests : Seq([config : Config, layers : Seq(LayerFile)])]

-----------------------------------------------------------------------------
\* Config and Digest, deserialized.
Parses(c) ==
  /\ c.fields = Required
  /\ \A n \in DOMAIN c.diff_ids : c.diff_ids[n].ty \in {"sha256", "sha512"}

\* read_container_config succeeds.
Readable(c) == c.named /\ Parses(c)

\* The manifests read_manifest returns, one or none: the first for arm64, unless a
\* config before it cannot be read, which ends the search with an error.
ForArm64(i) ==
  {n \in DOMAIN i.manifests :
     /\ i.manifests[n].config.arch = "arm64"
     /\ \A k \in 1 .. n : Readable(i.manifests[k].config)
     /\ \A k \in 1 .. n - 1 : i.manifests[k].config.arch # "arm64"}

HasConfig(i) == ForArm64(i) # {}
Chosen(i) == i.manifests[CHOOSE n \in ForArm64(i) : TRUE]
Layers(i) == Chosen(i).layers
DiffIds(i) == Chosen(i).config.diff_ids

\* install compares the numbers of layers and digests.
CountsAgree(i) == Len(Layers(i)) = Len(DiffIds(i))

\* Variant: nothing is read after the archive.
DiscardedNothing(f, failed) == {<<>>}

\* What discard_rest may read after the archive reader has seen the archive's end: a
\* read that fails ends it as the end of the file does, and nobody is told.
Discarded(f, failed) ==
  IF failed THEN {SubSeq(f.rest, 1, k) : k \in 0 .. Len(f.rest)} ELSE {f.rest}

\* What a Hasher may have been fed when it is asked: all that was read through it.
Measurements(f, failed) == {<<f.tar>> \o read : read \in Discarded(f, failed)}

-----------------------------------------------------------------------------
\* The process that execs the application: the app-manager runs as root.
Root == [uid |-> 0, gid |-> 0]

\* resolve_uid and resolve_gid: a name that is not known, like an id that is not
\* given or does not fit into 32 bits, is the app-manager's own id.
Resolve(id, table, own) ==
  IF id \in 0 .. MaxId THEN id ELSE IF id \in DOMAIN table THEN table[id] ELSE own

\* setuid(2) and setgid(2): the sets of results, empty if they fail.
SetUid(p, uid) ==
  IF uid # MaxId /\ (p.uid = 0 \/ uid = p.uid) THEN {[p EXCEPT !.uid = uid]} ELSE {}
SetGid(p, gid) ==
  IF gid # MaxId /\ (p.uid = 0 \/ gid = p.gid) THEN {[p EXCEPT !.gid = gid]} ELSE {}

\* Variant: an error of setgid is ignored.
PreExecIgnoring(uid, gid) ==
  UNION {SetGid(p, gid) \cup {p} : p \in SetUid(Root, uid)}

\* The closure launch hands to pre_exec: setuid, then setgid.
PreExec(uid, gid) == UNION {SetGid(p, gid) : p \in SetUid(Root, uid)}

\* launch: the processes that may run config c.  None does without an argv; chroot,
\* the working directory and exec may fail besides.
Launched(c) ==
  {p \in PreExec(Resolve(c.uid, Users, Root.uid), Resolve(c.gid, Groups, Root.gid)) :
     c.argv # <<>>}
=============================================================================
