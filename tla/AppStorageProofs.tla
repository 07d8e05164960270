--------------------------- MODULE AppStorageProofs ---------------------------
(* Proofs about AppStorage, for any images, with layers in any number, and   *)
(* for any number of boots.                                                  *)
EXTENDS AppStorage, TLAPS

(***************************************************************************)
(* The inductive invariant says what each stage may rely on.  The key is   *)
(* Finished: once a provisioning boot got to launch, no later boot writes  *)
(* to the main storage before it has made finished FALSE again.            *)
(***************************************************************************)
Installed ==
  /\ img \in Image /\ Intact(img)
  /\ rootfs = Layers(img)
  /\ \A n \in DOMAIN rootfs : Verified(n)

InstallStages == {"make_img", "unpack_img", "read_manifest", "make_rootfs", "layers"}

\* Between its boot and its launch, a provisioning boot is not finished.
Unfinished == stage \in Stages \ {"off", "running"} /\ provision # NoImage => ~finished

\* What install has established on reaching each of its steps.
InstallSteps ==
  /\ stage \in InstallStages => provision # NoImage
  /\ stage = "validate" => provision = NoImage
  /\ stage = "unpack_img" => img = Partial
  /\ stage = "read_manifest" => img \in Image /\ rootfs = NoDir
  /\ stage = "make_rootfs" => img \in Image /\ img.trusted /\ HasConfig(img)
  /\ stage = "layers" =>
       /\ rootfs # NoDir /\ CountsAgree(img)
       /\ Len(rootfs) < Len(Layers(img))
       /\ \A n \in 1 .. Len(rootfs) : Verified(n)

\* The layers unpacked are the first ones of the image.
RootfsIsPrefix == rootfs # NoDir => \A n \in 1 .. Len(rootfs) : rootfs[n] = Layers(img)[n]

\* An installation that went through is complete, in this boot and later ones.
Finished ==
  (stage \in {"mount_secure", "launch", "running"} /\ provision # NoImage) \/ finished => Installed

\* The file systems of a boot that provisions, if every mkfs works, and of the
\* boots after it.
FormattedTogether ==
  /\ provision # NoImage /\ formatted
       => /\ stage \notin {"off", "mount_main"} => mainFs = boot
          /\ stage \in {"launch", "running"} => secureFs = boot
  /\ finished /\ formatted => secureFs = mainFs

StorageInv ==
  /\ TypeOK
  /\ LayersOnlyOfTrustedImages
  /\ Unfinished
  /\ InstallSteps
  /\ RootfsIsPrefix
  /\ OneUnverifiedLayer
  /\ Finished
  /\ FormattedTogether
  /\ RunsAsAsked

\* The layers of an image with an arm64 config are a sequence of files.
LEMMA ImageLayers ==
  ASSUME NEW i \in Image, HasConfig(i)
  PROVE  Layers(i) \in Seq(LayerFile)
<1> DEFINE n == CHOOSE m \in ForArm64(i) : TRUE
<1>1. n \in ForArm64(i)
  BY DEF HasConfig
<1>2. n \in DOMAIN i.manifests
  BY <1>1 DEF ForArm64
<1>3. i.manifests \in Seq([config : Config, layers : Seq(LayerFile)])
  BY ImageAssumption DEF ImageType
<1>4. i.manifests[n] \in [config : Config, layers : Seq(LayerFile)]
  <2> DEFINE S == [config : Config, layers : Seq(LayerFile)]
  <2>1. ASSUME NEW T, NEW s \in Seq(T), NEW k \in DOMAIN s PROVE s[k] \in T
    OBVIOUS
  <2> QED
    BY <1>2, <1>3, <2>1
<1>5. Chosen(i) = i.manifests[n]
  BY DEF Chosen
<1> HIDE DEF n
<1> QED
  BY <1>4, <1>5 DEF Layers

\* pre_exec gives the process the two ids it is handed, or fails.
LEMMA PreExecSetsBoth ==
  ASSUME NEW uid, NEW gid, NEW p \in PreExec(uid, gid)
  PROVE  p.uid = uid /\ p.gid = gid
<1>1. PICK q \in SetUid(Root, uid) : p \in SetGid(q, gid)
  BY DEF PreExec
<1>2. q = [uid |-> uid, gid |-> 0]
  BY DEF SetUid, Root
<1>3. p = [q EXCEPT !.gid = gid]
  BY <1>1 DEF SetGid
<1> QED
  BY <1>2, <1>3

\* An empty pair of disks.
LEMMA InitInv == Init => StorageInv
<1> SUFFICES ASSUME Init PROVE StorageInv
  OBVIOUS
<1> USE DEF Init
<1>1. TypeOK
  <2>1. boot \in 0 .. MaxBoot /\ mainFs \in 0 .. boot /\ secureFs \in 0 .. boot
    BY BootAssumption
  <2> QED
    BY <2>1 DEF TypeOK, Stages
<1>2. /\ LayersOnlyOfTrustedImages /\ RootfsIsPrefix /\ Unfinished
      /\ OneUnverifiedLayer /\ RunsAsAsked
  BY DEF LayersOnlyOfTrustedImages, RootfsIsPrefix, Unfinished, OneUnverifiedLayer, RunsAsAsked
<1>3. InstallSteps
  BY DEF InstallSteps, InstallStages
<1>4. Finished
  BY DEF Finished
<1>5. FormattedTogether
  BY DEF FormattedTogether
<1> QED
  BY <1>1, <1>2, <1>3, <1>4, <1>5 DEF StorageInv

\* Booting and stopping leave the disks as they are.
LEMMA BootStopInv ==
  ASSUME StorageInv, Boots \/ Stops
  PROVE  StorageInv'
<1> USE DEF StorageInv, diskVars, history
<1>1. UNCHANGED diskVars /\ UNCHANGED cut
  BY DEF Boots, Stops
<1>2. TypeOK'
  <2>1. boot' \in 0 .. MaxBoot /\ boot' >= boot
    <3>1. boot \in 0 .. MaxBoot
      BY DEF TypeOK
    <3>2. boot' = boot \/ (boot' = boot + 1 /\ boot < MaxBoot)
      BY DEF Boots, Stops
    <3> QED
      BY <3>1, <3>2, BootAssumption
  <2>2. provision' \in Image \cup {NoImage}
    BY DEF TypeOK, Boots, Stops
  <2>3. /\ finished' \in BOOLEAN /\ formatted' \in BOOLEAN
        /\ cut' \in BOOLEAN /\ written' \in BOOLEAN
    BY DEF TypeOK, Boots, Stops
  <2>4. stage' \in Stages /\ (stage' # "running" => process' = NoProcess)
    BY DEF Stages, Boots, Stops, TypeOK
  <2> QED
    BY <1>1, <2>1, <2>2, <2>3, <2>4 DEF TypeOK
<1>3. /\ LayersOnlyOfTrustedImages' /\ RootfsIsPrefix' /\ OneUnverifiedLayer'
      /\ RunsAsAsked'
  <2>1. stage' # "running"
    BY DEF Boots, Stops
  <2> QED
    BY <1>1, <2>1 DEF LayersOnlyOfTrustedImages, RootfsIsPrefix, OneUnverifiedLayer, Verified,
                      RunsAsAsked
<1>4. Unfinished' /\ InstallSteps'
  BY DEF Boots, Stops, Unfinished, InstallSteps, InstallStages, TypeOK
<1>5. Finished'
  BY <1>1 DEF Boots, Stops, Finished, Installed, Verified
<1>6. FormattedTogether'
  <2>1. CASE Stops
    <3>1. stage' = "off" /\ UNCHANGED <<boot, provision, finished, formatted, mainFs, secureFs>>
      BY <1>1, <2>1 DEF Stops
    <3> QED
      BY <3>1 DEF FormattedTogether
  <2>2. CASE Boots
    <3>1. /\ stage' = "mount_main" /\ UNCHANGED <<mainFs, secureFs>>
          /\ finished' /\ formatted' => finished /\ formatted
      BY <1>1, <2>2 DEF Boots
    <3> QED
      BY <3>1 DEF FormattedTogether
  <2> QED
    BY <2>1, <2>2
<1> QED
  BY <1>2, <1>3, <1>4, <1>5, <1>6

\* Mounting the main storage keeps what is on it or finds it newly formatted.
LEMMA MountMainInv ==
  ASSUME StorageInv, MountMain
  PROVE  StorageInv'
<1> USE ImageAssumption, BootAssumption DEF StorageInv, Goto
<1>1. /\ stage = "mount_main"
      /\ stage' = IF mainFs' = 0 THEN "off"
                  ELSE IF provision # NoImage THEN "make_img" ELSE "validate"
      /\ UNCHANGED <<boot, provision, process, finished, secureFs, written, cut>>
  BY DEF MountMain
<1>2. \/ UNCHANGED <<img, rootfs>>
      \/ img' = NoDir /\ rootfs' = NoDir /\ provision # NoImage
  BY DEF MountMain, MountResults
<1>3. mainFs' \in 0 .. boot
  BY DEF MountMain, MountResults, FormatResults, TypeOK
<1>4. TypeOK'
  <2>1. formatted' \in BOOLEAN
    BY DEF MountMain, Formats, TypeOK
  <2> QED
    BY <1>1, <1>2, <1>3, <2>1 DEF TypeOK, Stages
<1>5. /\ LayersOnlyOfTrustedImages' /\ RootfsIsPrefix' /\ OneUnverifiedLayer'
      /\ RunsAsAsked'
  BY <1>1, <1>2 DEF LayersOnlyOfTrustedImages, RootfsIsPrefix, OneUnverifiedLayer, Verified,
                    RunsAsAsked
<1>6. Unfinished' /\ InstallSteps'
  BY <1>1 DEF Unfinished, InstallSteps, InstallStages, Stages
<1>7. Finished'
  BY <1>1, <1>2 DEF Finished, Installed, Verified, Unfinished, Stages
<1>8. FormattedTogether'
  <2>1. CASE provision = NoImage
    <3>1. mainFs' = mainFs /\ (formatted' <=> formatted)
      BY <2>1 DEF MountMain, MountResults, Formats, TypeOK
    <3> QED
      BY <1>1, <2>1, <3>1 DEF FormattedTogether
  <2>2. CASE provision # NoImage
    <3>1. ~finished' /\ stage' \notin {"launch", "running"}
      BY <1>1, <2>2 DEF Unfinished, Stages
    <3>2. formatted' => mainFs' = boot
      BY <2>2 DEF MountMain, Formats
    <3> QED
      BY <1>1, <3>1, <3>2 DEF FormattedTogether
  <2> QED
    BY <2>1, <2>2
<1> QED
  BY <1>4, <1>5, <1>6, <1>7, <1>8

\* install up to the layers.
LEMMA InstallInv ==
  ASSUME StorageInv, MakeImgDir \/ UnpackImage \/ CheckImage
  PROVE  StorageInv'
<1> USE ImageAssumption, BootAssumption
        DEF StorageInv, Goto, diskVars, history, MakeImgDir, UnpackImage, CheckImage
<1>1. rootfs' = NoDir /\ rootfs = NoDir
  BY DEF TypeOK, LayersOnlyOfTrustedImages, InstallSteps
<1>2. /\ provision # NoImage /\ ~finished
      /\ UNCHANGED <<boot, provision, process, history, mainFs, secureFs, written>>
  BY DEF InstallSteps, InstallStages, Unfinished, Stages
<1>3. TypeOK'
  BY <1>1, <1>2 DEF TypeOK, Stages
<1>4. /\ LayersOnlyOfTrustedImages' /\ RootfsIsPrefix' /\ OneUnverifiedLayer'
      /\ RunsAsAsked'
  BY <1>1 DEF LayersOnlyOfTrustedImages, RootfsIsPrefix, OneUnverifiedLayer, RunsAsAsked
<1>5. Unfinished' /\ Finished'
  BY <1>2 DEF Unfinished, Finished
<1>6. InstallSteps'
  BY <1>1, <1>2 DEF InstallSteps, InstallStages, TypeOK
<1>7. FormattedTogether'
  BY <1>2 DEF FormattedTogether
<1> QED
  BY <1>3, <1>4, <1>5, <1>6, <1>7

\* install: rootfs is created for an image that was compared with its root of trust.
LEMMA MakeRootfsInv ==
  ASSUME StorageInv, MakeRootfs
  PROVE  StorageInv'
<1> USE ImageAssumption, BootAssumption DEF StorageInv, Goto, history, MakeRootfs
<1>1. /\ img \in Image /\ img.trusted /\ HasConfig(img)
      /\ Layers(img) \in Seq(LayerFile) /\ rootfs = NoDir
  BY ImageLayers DEF InstallSteps
<1>2. /\ provision # NoImage /\ ~finished
      /\ UNCHANGED <<boot, provision, process, finished, formatted, img, mainFs, secureFs, written>>
      /\ cut' = FALSE
  BY DEF InstallSteps, InstallStages, Unfinished, Stages
<1>3. rootfs' = <<>> /\ rootfs' \in Seq(LayerFile) /\ Len(rootfs') = 0 /\ rootfs' # NoDir
  <2>1. <<>> \in Seq(LayerFile) /\ Len(<<>>) = 0
    OBVIOUS
  <2> QED
    BY <2>1
<1>4. /\ ~CountsAgree(img) => stage' = "off"
      /\ CountsAgree(img) /\ Layers(img) = <<>> => stage' = "mount_secure"
      /\ CountsAgree(img) /\ Layers(img) # <<>> => stage' = "layers"
  OBVIOUS
<1>5. stage' = "off" \/ (stage' = "mount_secure" /\ CountsAgree(img) /\ Layers(img) = <<>>)
      \/ (stage' = "layers" /\ CountsAgree(img) /\ Len(Layers(img)) > 0)
  BY <1>1, <1>4
<1>6. TypeOK'
  <2>1. Len(Layers(img)) >= 0
    BY <1>1
  <2> QED
    BY <1>1, <1>2, <1>3, <1>5, <2>1 DEF TypeOK, Stages
<1>7. /\ LayersOnlyOfTrustedImages' /\ RootfsIsPrefix' /\ OneUnverifiedLayer'
      /\ RunsAsAsked'
  BY <1>1, <1>2, <1>3, <1>5
  DEF LayersOnlyOfTrustedImages, RootfsIsPrefix, OneUnverifiedLayer, RunsAsAsked
<1>8. Unfinished'
  BY <1>2 DEF Unfinished
<1>9. InstallSteps'
  BY <1>2, <1>3, <1>5 DEF InstallSteps, InstallStages
<1>10. Finished'
  BY <1>1, <1>2, <1>3, <1>5 DEF Finished, Installed, Intact
<1>11. FormattedTogether'
  BY <1>2, <1>5 DEF FormattedTogether
<1> QED
  BY <1>6, <1>7, <1>8, <1>9, <1>10, <1>11

\* install: a layer joins rootfs, and stays there whether its hash is right or not.
LEMMA UnpackLayerInv ==
  ASSUME StorageInv, UnpackLayer
  PROVE  StorageInv'
<1> USE ImageAssumption, BootAssumption DEF StorageInv
<1> DEFINE n == Len(rootfs) + 1
<1>1. /\ stage = "layers" /\ img \in Image /\ img.trusted /\ HasConfig(img)
      /\ CountsAgree(img)
      /\ rootfs # NoDir /\ rootfs \in Seq(LayerFile) /\ Layers(img) \in Seq(LayerFile)
      /\ Len(rootfs) < Len(Layers(img))
  BY ImageLayers DEF UnpackLayer, InstallSteps, TypeOK, LayersOnlyOfTrustedImages
<1>2. /\ n \in 1 .. Len(Layers(img)) /\ Layers(img)[n] \in LayerFile
      /\ rootfs' = Append(rootfs, Layers(img)[n])
  BY <1>1 DEF UnpackLayer
<1>3. /\ rootfs' \in Seq(LayerFile) /\ rootfs' # NoDir
      /\ Len(rootfs') = n /\ rootfs'[n] = Layers(img)[n]
      /\ \A k \in 1 .. Len(rootfs) : rootfs'[k] = rootfs[k]
  BY <1>1, <1>2
<1>4. /\ provision # NoImage /\ ~finished
      /\ UNCHANGED <<boot, provision, process, finished, formatted, img, mainFs, secureFs, written>>
  BY <1>1 DEF UnpackLayer, Goto, history, InstallSteps, InstallStages, Unfinished, Stages
<1> DEFINE f == Layers(img)[n]
           hashed == DiffIds(img)[n].val
<1>5. PICK right \in BOOLEAN :
        /\ Measures(n, right)
        /\ \/ stage' = "off"
           \/ stage' = "mount_secure" /\ right /\ n = Len(Layers(img))
           \/ stage' = "layers" /\ right /\ n < Len(Layers(img))
  BY <1>2 DEF UnpackLayer, Goto
<1>15. cut' \in BOOLEAN /\ (cut => cut')
  BY <1>5 DEF Measures, TypeOK
<1>16. right => /\ \E k \in 0 .. Len(f.rest) : hashed = <<f.tar>> \o SubSeq(f.rest, 1, k)
                /\ cut' \/ hashed = <<f.tar>> \o f.rest
  <2> SUFFICES ASSUME right
               PROVE  /\ \E k \in 0 .. Len(f.rest) : hashed = <<f.tar>> \o SubSeq(f.rest, 1, k)
                      /\ cut' \/ hashed = <<f.tar>> \o f.rest
    OBVIOUS
  <2>1. PICK failed \in BOOLEAN :
          /\ \E read \in Discarded(f, failed) : hashed = <<f.tar>> \o read
          /\ cut' = (cut \/ failed)
    BY <1>5 DEF Measures, Measurements
  <2>5. PICK read \in Discarded(f, failed) : hashed = <<f.tar>> \o read
    BY <2>1
  <2>2. Len(f.rest) \in Nat /\ SubSeq(f.rest, 1, Len(f.rest)) = f.rest
    <3>1. f.rest \in Seq(Rest)
      BY <1>2 DEF LayerFile
    <3> QED
      BY <3>1
  <2>3. CASE failed
    BY <2>1, <2>5, <2>3 DEF Discarded
  <2>4. CASE ~failed
    <3>1. read = f.rest
      BY <2>4, <2>5 DEF Discarded
    <3>2. Len(f.rest) \in 0 .. Len(f.rest) /\ hashed = <<f.tar>> \o f.rest
      BY <2>2, <2>5, <3>1
    <3>3. hashed = <<f.tar>> \o SubSeq(f.rest, 1, Len(f.rest))
      BY <2>2, <3>2
    <3> QED
      BY <3>2, <3>3, Zenon
  <2> QED
    BY <2>3, <2>4
<1>6. \A k \in 1 .. Len(rootfs) : Verified(k) /\ rootfs[k] = Layers(img)[k]
  BY <1>1 DEF InstallSteps, RootfsIsPrefix
<1>7. \A k \in 1 .. n : rootfs'[k] = Layers(img)[k]
  BY <1>1, <1>3, <1>6
<1>8. TypeOK'
  BY <1>1, <1>2, <1>3, <1>4, <1>5, <1>15 DEF TypeOK, Stages
<1>9. LayersOnlyOfTrustedImages' /\ RootfsIsPrefix' /\ Unfinished'
  BY <1>1, <1>3, <1>4, <1>7 DEF LayersOnlyOfTrustedImages, RootfsIsPrefix, Unfinished
<1>10. stage' # "off" => \A k \in 1 .. n : Verified(k)'
  <2> SUFFICES ASSUME stage' # "off", NEW k \in 1 .. n PROVE Verified(k)'
    OBVIOUS
  <2>1. CASE k = n
    <3>1. right
      BY <1>5
    <3> QED
      BY <1>3, <1>4, <1>16, <2>1, <3>1 DEF Verified
  <2>2. CASE k \in 1 .. Len(rootfs)
    <3>1. Verified(k) /\ rootfs'[k] = rootfs[k]
      BY <1>3, <1>6, <2>2
    <3> QED
      BY <1>4, <1>15, <3>1 DEF Verified
  <2>3. k = n \/ k \in 1 .. Len(rootfs)
    BY <1>1
  <2> QED
    BY <2>1, <2>2, <2>3
<1>11. InstallSteps'
  BY <1>1, <1>3, <1>4, <1>5, <1>10 DEF InstallSteps, InstallStages
<1>12. Finished'
  <2>1. CASE stage' = "mount_secure"
    <3>1. n = Len(Layers(img))
      BY <1>5, <2>1
    <3>2. rootfs' = Layers(img)
      BY <1>1, <1>3, <1>7, <3>1
    <3>3. \A k \in DOMAIN rootfs' : Verified(k)'
      BY <1>3, <1>10, <2>1
    <3> QED
      BY <1>1, <1>4, <3>2, <3>3 DEF Finished, Installed, Intact
  <2> QED
    BY <1>4, <1>5, <2>1 DEF Finished
<1>13. FormattedTogether'
  BY <1>1, <1>4, <1>5 DEF FormattedTogether
<1>14. OneUnverifiedLayer' /\ RunsAsAsked'
  <2>1. \A k \in 1 .. Len(rootfs) : Verified(k)'
    BY <1>1, <1>3, <1>4, <1>6, <1>15 DEF Verified
  <2> QED
    BY <1>3, <1>5, <2>1 DEF OneUnverifiedLayer, RunsAsAsked
<1> QED
  BY <1>8, <1>9, <1>11, <1>12, <1>13, <1>14

\* Validation, the mount of the secure storage and the launch write nothing to
\* the main storage.
LEMMA LaunchInv ==
  ASSUME StorageInv, Validate \/ MountSecure \/ LaunchApp
  PROVE  StorageInv'
<1> USE ImageAssumption, BootAssumption
        DEF StorageInv, Validate, MountSecure, LaunchApp, Goto, diskVars, history
<1>1. UNCHANGED <<boot, provision, mainFs, img, rootfs, cut>>
  OBVIOUS
<1>2. /\ stage \in {"validate", "mount_secure", "launch"}
      /\ stage' \in {"mount_secure", "launch", "running", "off"}
      /\ stage = "launch" <=> stage' = "running"
  OBVIOUS
<1>3. secureFs' \in 0 .. boot
  <2>1. boot \in Nat /\ secureFs \in 0 .. boot
    BY DEF TypeOK
  <2>2. secureFs' \in {boot, 0, secureFs}
    BY DEF MountResults, FormatResults
  <2> HIDE DEF StorageInv, Validate, MountSecure, LaunchApp
  <2> QED
    BY <2>1, <2>2
<1>4. finished' = finished \/ (stage = "launch" /\ provision # NoImage /\ finished')
  BY DEF TypeOK
<1>5. TypeOK'
  <2>1. finished' \in BOOLEAN /\ formatted' \in BOOLEAN /\ written' \in BOOLEAN
    BY DEF TypeOK, Formats, KeepsWritten
  <2> QED
    BY <1>1, <1>2, <1>3, <2>1 DEF TypeOK, Stages
<1>6. LayersOnlyOfTrustedImages' /\ RootfsIsPrefix' /\ OneUnverifiedLayer'
  BY <1>1 DEF LayersOnlyOfTrustedImages, RootfsIsPrefix, OneUnverifiedLayer, Verified
<1>7. Unfinished'
  BY <1>1, <1>2, <1>4 DEF Unfinished, Stages
<1>8. InstallSteps'
  BY <1>1, <1>2 DEF InstallSteps, InstallStages
<1>9. Finished'
  <2>1. stage = "validate" => provision = NoImage
    BY DEF InstallSteps
  <2> QED
    BY <1>1, <1>2, <1>4, <2>1 DEF Finished, Installed, Verified
<1>10. FormattedTogether'
  <2>1. CASE Validate
    BY <1>1, <2>1 DEF FormattedTogether, InstallSteps
  <2>2. CASE LaunchApp
    BY <1>1, <2>2 DEF FormattedTogether
  <2>3. CASE MountSecure /\ provision = NoImage
    BY <1>1, <2>3 DEF FormattedTogether, MountResults, Formats
  <2>4. CASE MountSecure /\ provision # NoImage
    <3>1. ~finished' /\ mainFs' = mainFs /\ stage' \in {"off", "launch"}
      BY <1>1, <2>4 DEF Unfinished, Stages
    <3>2. formatted' => formatted /\ secureFs' = boot
      BY <2>4 DEF Formats
    <3> QED
      BY <1>1, <2>4, <3>1, <3>2 DEF FormattedTogether
  <2> QED
    BY <2>1, <2>2, <2>3, <2>4
<1>11. RunsAsAsked'
  <2>1. CASE LaunchApp
    <3>1. PICK c \in Configs : process' \in Launched(c)
      BY <2>1
    <3>2. process' \in PreExec(Resolve(c.uid, Users, Root.uid), Resolve(c.gid, Groups, Root.gid))
      BY <3>1 DEF Launched
    <3>3. /\ process'.uid = Resolve(c.uid, Users, Root.uid)
          /\ process'.gid = Resolve(c.gid, Groups, Root.gid)
      BY <3>2, PreExecSetsBoth
    <3>4. Configs' = Configs
      BY <1>1 DEF Configs
    <3>5. /\ IF c.uid \in 0 .. MaxId THEN process'.uid = c.uid
             ELSE process'.uid \in {Root.uid} \cup {Users[n] : n \in DOMAIN Users}
          /\ IF c.gid \in 0 .. MaxId THEN process'.gid = c.gid
             ELSE process'.gid \in {Root.gid} \cup {Groups[n] : n \in DOMAIN Groups}
      BY <3>3 DEF Resolve
    <3> QED
      BY <3>4, <3>5 DEF RunsAsAsked
  <2>2. CASE ~LaunchApp
    BY <1>2, <2>2 DEF RunsAsAsked
  <2> QED
    BY <2>1, <2>2
<1> QED
  BY <1>5, <1>6, <1>7, <1>8, <1>9, <1>10, <1>11

\* The invariant is kept by every step.
LEMMA NextInv == StorageInv /\ [Next]_vars => StorageInv'
<1> SUFFICES ASSUME StorageInv, [Next]_vars PROVE StorageInv'
  OBVIOUS
<1>1. CASE UNCHANGED vars
  <2> USE <1>1 DEF vars, diskVars, history, StorageInv
  <2>1. TypeOK' /\ LayersOnlyOfTrustedImages' /\ RootfsIsPrefix' /\ Unfinished'
    BY DEF TypeOK, LayersOnlyOfTrustedImages, RootfsIsPrefix, Unfinished
  <2>2. InstallSteps' /\ OneUnverifiedLayer' /\ Finished'
    BY DEF InstallSteps, OneUnverifiedLayer, Verified, Finished, Installed
  <2>3. FormattedTogether' /\ RunsAsAsked'
    BY DEF FormattedTogether, RunsAsAsked, Configs
  <2> QED
    BY <2>1, <2>2, <2>3
<1>2. CASE Next
  BY <1>2, BootStopInv, MountMainInv, InstallInv, MakeRootfsInv, UnpackLayerInv, LaunchInv
  DEF Next
<1> QED
  BY <1>1, <1>2

\* Every reachable state of the disks satisfies the inductive invariant.
THEOREM StorageInvariant == Spec => []StorageInv
  BY InitInv, NextInv, PTL DEF Spec

\* Type correctness: rootfs holds no more layers than the image has, and nothing
\* is unpacked into it while there is no whole image.
THEOREM StorageTypeCorrect == Spec => []TypeOK
<1>1. StorageInv => TypeOK
  BY DEF StorageInv
<1> QED
  BY <1>1, StorageInvariant, PTL

\* After a provisioning that got to launch, what runs is an image with the right
\* manifest, and all its layers, the archive of each covered by the right hash, the
\* file's last bytes too unless a read behind the archive failed.
THEOREM TrustFollowsProvisioning == Spec => []TrustedOnceProvisioned
<1>1. StorageInv => TrustedOnceProvisioned
  BY DEF StorageInv, Finished, Installed, TrustedOnceProvisioned
<1> QED
  BY <1>1, StorageInvariant, PTL

\* After a provisioning in which every mkfs worked, what runs has a secure storage
\* formatted in the same boot as the main storage its image is on.
THEOREM SecureStorageBelongsToImage == Spec => []SecureBelongsToImage
<1>1. StorageInv => SecureBelongsToImage
  BY DEF StorageInv, FormattedTogether, SecureBelongsToImage
<1> QED
  BY <1>1, StorageInvariant, PTL

\* No layer is ever unpacked out of an image that was not compared with its root
\* of trust.
THEOREM LayersComeFromTrustedImages == Spec => []LayersOnlyOfTrustedImages
<1>1. StorageInv => LayersOnlyOfTrustedImages
  BY DEF StorageInv
<1> QED
  BY <1>1, StorageInvariant, PTL

\* Nothing is unpacked over a layer whose archive is not covered by the hash its
\* digest gives, for layers of any contents and read errors anywhere: a read error
\* may hide bytes behind an archive from the hash, and only those.
THEOREM LayersAreMeasured == Spec => []OneUnverifiedLayer
<1>1. StorageInv => OneUnverifiedLayer
  BY DEF StorageInv
<1> QED
  BY <1>1, StorageInvariant, PTL

\* An application runs with both of the ids its config gives as numbers, or it does
\* not run.
THEOREM ProcessRunsAsAsked == Spec => []RunsAsAsked
<1>1. StorageInv => RunsAsAsked
  BY DEF StorageInv
<1> QED
  BY <1>1, StorageInvariant, PTL
=============================================================================
