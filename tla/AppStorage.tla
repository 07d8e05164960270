------------------------------ MODULE AppStorage ------------------------------
(***************************************************************************)
(* The two disks of one application from boot to boot: mounting and        *)
(* formatting (app-manager/src/app.rs, utils.rs), installation of a docker *)
(* image and its validation (image/handler/src/docker/installer.rs).       *)
(*                                                                         *)
(* The host's RealmInfo says at every boot whether the application is to   *)
(* be provisioned.  A boot may end between any two steps: an error ends    *)
(* the app-manager, the realm is killed, the power goes.  The disks stay.  *)
(* A formatting is known by the boot that made it.  Paths inside a         *)
(* container and decryption (a fixed key) are left out; what an image says *)
(* and what its files contain is in DockerImage.                           *)
(*                                                                         *)
(* An operator marked Variant is not part of the specification: it is the  *)
(* operator after it with a plausible mistake, which the properties are    *)
(* shown to notice.                                                        *)
(***************************************************************************)
EXTENDS DockerImage

CONSTANTS
  Image,      \* the images a registry may serve
  NoImage,    \* provision_info is None
  NoDir,      \* a directory that does not exist
  Partial,    \* a directory whose unpacking was cut short: any file may miss
  NoProcess,  \* the application does not run
  MaxBoot     \* bound: how many boots the model explores

ASSUME ImageAssumption ==
  /\ {NoImage, NoDir, Partial} \cap Image = {}
  /\ NoDir # Partial /\ NoDir \notin Seq(LayerFile)
  /\ Image \subseteq ImageType
ASSUME BootAssumption == MaxBoot \in Nat

VARIABLES
  boot,       \* how many boots there were
  stage,      \* how far this boot has come
  provision,  \* the image to install in this boot, if provision_info is Some
  mainFs,     \* main storage: the boot that formatted it, 0 if there is no ext2
  img,        \* "img" on it: the unpacked image, or part of one
  rootfs,     \* "rootfs" on it: the layers' files unpacked, whole or in part
  secureFs,   \* secure storage: the boot that formatted it
  process,    \* the application's uid and gid, while it runs
  written,    \* on it: files that applications wrote to their rootfs, which overlay it
  finished,   \* history: the last boot that provisioned got to launch
  formatted,  \* history: every mkfs of the last boot that provisioned worked
  cut         \* history: a read behind the archive of a layer in rootfs failed

diskVars == <<mainFs, img, rootfs, secureFs, written>>
history == <<finished, formatted, cut>>
vars == <<boot, stage, provision, diskVars, process, history>>

Stages == {"off", "mount_main", "make_img", "unpack_img", "read_manifest", "make_rootfs",
           "layers", "validate", "mount_secure", "launch", "running"}

\* Types; rootfs holds no more layers than the image it was unpacked from, and none without one.
TypeOK ==
  /\ boot \in 0 .. MaxBoot
  /\ stage \in Stages
  /\ provision \in Image \cup {NoImage}
  /\ mainFs \in 0 .. boot /\ secureFs \in 0 .. boot
  /\ img \in Image \cup {NoDir, Partial}
  /\ \/ rootfs = NoDir
     \/ /\ rootfs \in Seq(LayerFile)
        /\ img \in Image /\ HasConfig(img)
        /\ Len(rootfs) <= Len(Layers(img))
  /\ stage # "running" => process = NoProcess
  /\ written \in BOOLEAN
  /\ finished \in BOOLEAN /\ formatted \in BOOLEAN /\ cut \in BOOLEAN

Init ==
  /\ boot = 0
  /\ stage = "off"
  /\ provision = NoImage
  /\ mainFs = 0 /\ secureFs = 0
  /\ img = NoDir
  /\ rootfs = NoDir
  /\ process = NoProcess
  /\ written = FALSE
  /\ finished = FALSE /\ formatted = TRUE /\ cut = FALSE

-----------------------------------------------------------------------------
\* The realm boots and reads RealmInfo.
Boots ==
  /\ stage = "off"
  /\ boot < MaxBoot
  /\ boot' = boot + 1
  /\ stage' = "mount_main"
  /\ provision' \in Image \cup {NoImage}
  /\ finished' = (finished /\ provision' = NoImage)
  /\ formatted' = (formatted \/ provision' # NoImage)
  /\ UNCHANGED <<diskVars, process, cut>>

\* An error, a kill or a power cut.
Stops ==
  /\ stage # "off"
  /\ stage' = "off"
  /\ process' = NoProcess
  /\ UNCHANGED <<boot, provision, diskVars, history>>

Goto(s) == stage' = s /\ UNCHANGED <<boot, provision, process>>

\* Whether the mkfs of a provisioning boot worked, if it left f.
Formats(f) == formatted' = (formatted /\ (provision # NoImage => f = boot))

\* What mkfs leaves of a file system formatted by boot f: a new one, or, for its
\* exit code is ignored, a broken one or the old one.
FormatResults(f) == {boot, 0, f}

\* mount_storage: format the storage whenever provision_info is present; what
\* is mounted then is whatever file system is there.
MountResults(f) == IF provision # NoImage THEN FormatResults(f) ELSE {f}

\* mount_storage for the main storage; without ext2, mount fails: Stops.
MountMain ==
  /\ stage = "mount_main"
  /\ mainFs' \in MountResults(mainFs)
  /\ IF mainFs' = mainFs
     THEN UNCHANGED <<img, rootfs>>
     ELSE img' = NoDir /\ rootfs' = NoDir
  /\ Formats(mainFs')
  /\ Goto(IF mainFs' = 0 THEN "off" ELSE IF provision # NoImage THEN "make_img" ELSE "validate")
  /\ UNCHANGED <<secureFs, written, finished, cut>>

\* install: create_dir fails on a directory that exists.
MakeImgDir ==
  /\ stage = "make_img"
  /\ img = NoDir
  /\ img' = Partial
  /\ Goto("unpack_img")
  /\ UNCHANGED <<mainFs, rootfs, secureFs, written, history>>

\* install: the stream from the registry is unpacked.
UnpackImage ==
  /\ stage = "unpack_img"
  /\ img' = provision
  /\ Goto("read_manifest")
  /\ UNCHANGED <<mainFs, rootfs, secureFs, written, history>>

\* Variant: the root of trust is not compared.
CheckImageUntrusted ==
  /\ stage = "read_manifest"
  /\ HasConfig(img)
  /\ Goto("make_rootfs")
  /\ UNCHANGED <<diskVars, history>>

\* install: read_manifest with the root of trust, read_container_config.
CheckImage ==
  /\ stage = "read_manifest"
  /\ img.trusted
  /\ HasConfig(img)
  /\ Goto("make_rootfs")
  /\ UNCHANGED <<diskVars, history>>

\* install: create rootfs, then compare the numbers of layers and digests.
MakeRootfs ==
  /\ stage = "make_rootfs"
  /\ rootfs = NoDir
  /\ rootfs' = <<>>
  /\ cut' = FALSE
  /\ Goto(IF ~CountsAgree(img) THEN "off"
          ELSE IF Layers(img) = <<>> THEN "mount_secure" ELSE "layers")
  /\ UNCHANGED <<mainFs, img, secureFs, written, finished, formatted>>

\* The hash of a layer's file is compared with the n-th digest; right says whether
\* they are the same.
Measures(n, right) ==
  \E failed \in BOOLEAN : \E m \in Measurements(Layers(img)[n], failed) :
    /\ right = (m = DiffIds(img)[n].val)
    /\ cut' = (cut \/ failed)

\* Variant: only the last layer's hash is compared.
UnpackLayerUnchecked ==
  LET n == Len(rootfs) + 1 IN
  /\ stage = "layers"
  /\ rootfs' = Append(rootfs, Layers(img)[n])
  /\ \E right \in BOOLEAN :
       /\ Measures(n, right)
       /\ Goto(IF n < Len(Layers(img)) THEN "layers" ELSE IF right THEN "mount_secure" ELSE "off")
  /\ UNCHANGED <<mainFs, img, secureFs, written, finished, formatted>>

\* Variant: a layer with the wrong hash is unpacked once more.
UnpackLayerRetry ==
  LET n == IF Len(rootfs) < Len(Layers(img)) THEN Len(rootfs) + 1 ELSE Len(rootfs) IN
  /\ stage = "layers"
  /\ rootfs' = Append(rootfs, Layers(img)[n])
  /\ \E right \in BOOLEAN :
       /\ Measures(n, right)
       /\ Goto(IF right /\ n = Len(Layers(img)) THEN "mount_secure" ELSE "layers")
  /\ UNCHANGED <<mainFs, img, secureFs, written, finished, formatted>>

\* install: unpack the next layer into rootfs, and only then compare its hash.
UnpackLayer ==
  LET n == Len(rootfs) + 1 IN
  /\ stage = "layers"
  /\ rootfs' = Append(rootfs, Layers(img)[n])
  /\ \E right \in BOOLEAN :
       /\ Measures(n, right)
       /\ Goto(IF ~right THEN "off" ELSE IF n = Len(Layers(img)) THEN "mount_secure" ELSE "layers")
  /\ UNCHANGED <<mainFs, img, secureFs, written, finished, formatted>>

\* validate: read_manifest without a root of trust, and nothing else.  An image
\* of which an interrupted unpacking wrote enough passes as well.
Validate ==
  /\ stage = "validate"
  /\ img \in {Partial} \cup {i \in Image : HasConfig(i)}
  /\ Goto("mount_secure")
  /\ UNCHANGED <<diskVars, history>>

\* What applications wrote is gone with the file system it was on.
KeepsWritten == written' = (written /\ secureFs' = secureFs)

\* Variant: a secure storage that has a file system is mounted as it is.
MountSecureKeeping ==
  /\ stage = "mount_secure"
  /\ IF secureFs = 0
     THEN secureFs' \in MountResults(secureFs) /\ Formats(secureFs')
     ELSE UNCHANGED <<secureFs, formatted>>
  /\ KeepsWritten
  /\ Goto(IF secureFs' = 0 THEN "off" ELSE "launch")
  /\ UNCHANGED <<mainFs, img, rootfs, finished, cut>>

\* mount_storage for the secure storage.
MountSecure ==
  /\ stage = "mount_secure"
  /\ secureFs' \in MountResults(secureFs)
  /\ KeepsWritten
  /\ Formats(secureFs')
  /\ Goto(IF secureFs' = 0 THEN "off" ELSE "launch")
  /\ UNCHANGED <<mainFs, img, rootfs, finished, cut>>

\* The configs the Launcher may have been made with: the one read_manifest found in
\* img, which for a part of an image is not known here.
Configs ==
  {Chosen(i).config : i \in IF img = Partial THEN {j \in Image : HasConfig(j)} ELSE {img}}

\* mount_overlay and launch.  The overlay shows what applications wrote over what was
\* installed; the spawn fails with nothing to run in either.  The application may write.
LaunchApp ==
  /\ stage = "launch"
  /\ rootfs \notin {NoDir, <<>>} \/ written
  /\ \E c \in Configs : process' \in Launched(c)
  /\ stage' = "running"
  /\ written' \in {written, TRUE}
  /\ finished' = (finished \/ provision # NoImage)
  /\ UNCHANGED <<boot, provision, mainFs, img, rootfs, secureFs, formatted, cut>>

Next ==
  \/ Boots \/ Stops \/ MountMain \/ MakeImgDir \/ UnpackImage \/ CheckImage \/ MakeRootfs
  \/ UnpackLayer \/ Validate \/ MountSecure \/ LaunchApp

Spec == Init /\ [][Next]_vars

-----------------------------------------------------------------------------
\* What a verified image is, apart from its layers.
Intact(i) == i.trusted /\ HasConfig(i) /\ CountsAgree(i)

\* The n-th digest is the hash of the archive of the n-th file in rootfs, which is all
\* that was unpacked of it, and of a beginning of what follows the archive; it is
\* the hash of the file to its last byte unless a read failed there.
Verified(n) ==
  LET f == rootfs[n]
      hashed == DiffIds(img)[n].val
  IN /\ \E k \in 0 .. Len(f.rest) : hashed = <<f.tar>> \o SubSeq(f.rest, 1, k)
     /\ cut \/ hashed = <<f.tar>> \o f.rest

\* Once a provisioning boot got to launch, what is installed in that boot and in every
\* later one that runs it has a manifest matching the root of trust and all its
\* layers, each covered by its hash: nothing on the way there is skipped, and nothing
\* is added later but in the overlay, where applications write.
TrustedOnceProvisioned ==
  stage = "running" /\ finished =>
    /\ img \in Image /\ Intact(img)
    /\ rootfs = Layers(img)
    /\ \A n \in DOMAIN rootfs : Verified(n)

\* Once a provisioning boot got to launch, with every mkfs working, main and
\* secure storage were formatted together: no overlay puts the data of an older
\* application over an image.
SecureBelongsToImage == stage = "running" /\ finished /\ formatted => secureFs = mainFs

\* A layer reaches rootfs only out of an image whose manifest was compared with
\* the root of trust, even in boots that fail later on.
LayersOnlyOfTrustedImages == rootfs # NoDir => img \in Image /\ img.trusted /\ HasConfig(img)

\* A layer is unpacked before its hash is known, but at most one layer in rootfs
\* is not what its digest says, whatever boots were cut short: nothing is unpacked
\* over a layer that failed, and the bytes after an archive count as far as they
\* could be read.
OneUnverifiedLayer == rootfs # NoDir => \A n \in 1 .. Len(rootfs) - 1 : Verified(n)

\* A running application has the ids its config asks for in numbers: launch either
\* sets both or fails.  What is not such a number, one that is too large included,
\* only gets it ids that the realm itself gives out, never some other number.
RunsAsAsked ==
  stage = "running" =>
    \E c \in Configs :
      /\ IF c.uid \in 0 .. MaxId THEN process.uid = c.uid
         ELSE process.uid \in {Root.uid} \cup {Users[n] : n \in DOMAIN Users}
      /\ IF c.gid \in 0 .. MaxId THEN process.gid = c.gid
         ELSE process.gid \in {Root.gid} \cup {Groups[n] : n \in DOMAIN Groups}

\* "Calculate the hash of the docker manifest, here it acts as the root of trust
\* of the image" (README.md:47): an application that runs was unpacked from an
\* image matching it, layer by layer.
RunsOnlyVerifiedImages ==
  stage = "running" => img \in Image /\ Intact(img) /\ rootfs = Layers(img)
                         /\ \A n \in DOMAIN rootfs : Verified(n)
=============================================================================
