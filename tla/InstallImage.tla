---------------------------- MODULE InstallImage ----------------------------
(***************************************************************************)
(* What "pmbootstrap install" does to images, loop devices and disks:      *)
(* pmb/install/{_install,blockdevice,losetup,partition,format}.py, the     *)
(* bind mounts of pmb/helpers/mount.py they work with, what                *)
(* pmb/chroot/shutdown.py undoes, and the commands that use the image      *)
(* afterwards ("chroot --image", "qemu").                                  *)
(*                                                                         *)
(* A run of pmbootstrap is the sequence "todo" of steps it has yet to take *)
(* (as in Chroots, which has the chroots and packages of the same runs).   *)
(* It may end after every step; what it did to the kernel and to storage   *)
(* stays.                                                                  *)
(***************************************************************************)
EXTENDS Naturals, Sequences, FiniteSets, FiniteSetsExt

CONSTANTS
    Disks,      \* block devices of the host
    None,
    Installs,   \* the options of "install" the user may give
    MaxLoops,   \* bound: loop devices of the kernel
    MaxRuns     \* bound: runs of pmbootstrap

ImageNames == {"full", "boot", "root"}

(* What install() is asked for: its arguments, and what deviceinfo says of *)
(* the partitions and the flash method ("split" wants separate images).    *)
Options == [disk : Disks \cup {None}, split : BOOLEAN, single : BOOLEAN,
            fde : BOOLEAN, rsync : BOOLEAN, zap : BOOLEAN,
            image : {"image", "no_image", "zip"},
            layout : {"parted", "cgpt", "prep"},
            flasher : {"none", "whole", "split"}]

(* --disk, --split, --no-image and --android-recovery-zip exclude each     *)
(* other; split may still be what the flash method requires.               *)
Accepted(o) ==
    /\ o.disk # None => ~o.split /\ o.image = "image"
    /\ o.split /\ o.image # "image" => o.flasher = "split"

(* What pmb.commands.install and install() refuse or adjust. *)
Sane(o) ==
    /\ o.rsync => o.disk # None /\ ~o.fde
    /\ o.single => ~o.split

(* Where data can be: "gone" is a deleted file that is still open. *)
Stores == Disks \cup ImageNames \cup {"gone"}

(* A whole store is part 0. *)
Parts == 0..3
Units == Stores \X Parts
Nowhere == <<"free", 0>>

LoopDevices == 1..MaxLoops

(* /dev/loop1p2 is [on |-> 1, part |-> 2]. *)
Nodes == [on : LoopDevices \cup Disks, part : Parts]

ASSUME DisksAssumption == Disks \cap (ImageNames \cup {None, "gone", "free"}) = {}
ASSUME LoopsAssumption == Disks \cap LoopDevices = {}
ASSUME NoneAssumption == None \notin LoopDevices /\ None \notin Nodes
ASSUME InstallsAssumption == Installs \subseteq {o \in Options : Accepted(o) /\ Sane(o)}
ASSUME BoundsAssumption == MaxLoops \in Nat \ {0} /\ MaxRuns \in Nat

(* /dev/install and /dev/installp1 .. 3 of the native chroot *)
Names == {"install", "p1", "p2", "p3"}

VARIABLES
    native,     \* the native chroot exists
    images,     \* the images in its home/pmos/rootfs
    table,      \* the stores with a partition table
    uuid,       \* the run each unit was formatted in
    files,      \* the run whose rootfs each unit holds, 0 if none
    loops,      \* what each loop device is attached to
    dying,      \* loop devices to be detached when nothing uses them
    binds,      \* the node each name is bound to
    mnt,        \* what is mounted at /mnt/install and its boot, in order
    crypt,      \* the node pm_crypt was opened on
    mapper,     \* native has its /dev/mapper/pm_crypt
    silent,     \* "cryptsetup status" has printed nothing since it was opened
    mapped,     \* loop devices with kpartx mappings
    imageMount, \* the loop device mounted as the image chroot, or None
    fstab,      \* the UUIDs in /etc/fstab and /etc/crypttab of the rootfs
    options,    \* of the running "install"
    todo,       \* steps of the running program; empty: no program runs
    confirmed,  \* disks the user agreed to erase in this run
    stale,      \* in this run installp1, 2 or 3 was left bound to another node
    runs        \* runs so far

storage == <<images, table, uuid, files>>
kernel == <<loops, dying, binds, mnt, crypt, mapper, silent, mapped, imageMount>>
memory == <<options, confirmed, stale, runs>>
vars == <<native, storage, kernel, fstab, todo, memory>>

-----------------------------------------------------------------------------
(* The kernel.                                                             *)

On(node, n) == node # None /\ node.on = n

(* A loop device that is in use is only detached when that ends. *)
InUseBy(n) ==
    n \in mapped \/ imageMount = n \/ On(crypt, n)
        \/ \E k \in DOMAIN mnt : On(mnt[k].dev, n)

Free(n) == loops[n] = "free" \/ (n \in dying /\ ~InUseBy(n))

Attached(image) == {n \in LoopDevices : loops[n] = image /\ ~Free(n)}

StoreOf(node) ==
    IF node.on \in Disks THEN node.on
    ELSE IF Free(node.on) THEN "free" ELSE loops[node.on]

(* The unit behind a node, if there is one. *)
UnitOf(node) ==
    IF node = None \/ StoreOf(node) = "free" \/ (node.part # 0 /\ StoreOf(node) \notin table)
    THEN Nowhere
    ELSE <<StoreOf(node), node.part>>

Overlap(u, v) == u[1] = v[1] /\ (u[2] = v[2] \/ 0 \in {u[2], v[2]})

Held ==
    {UnitOf(mnt[k].dev) : k \in DOMAIN mnt} \cup {UnitOf(crypt)}
        \cup {<<loops[n], 0>> : n \in {m \in LoopDevices : imageMount = m /\ ~Free(m)}}

Busy(u) == \E h \in Held : Overlap(u, h)

(* mkfs and luksFormat: a new UUID, and what was there is lost.  On a whole*)
(* store the partition table is.                                           *)
Erased(u) == {v \in Units : v[1] = u[1] /\ (u[2] = 0 \/ v = u)}
Write(u) ==
    /\ uuid' = [uuid EXCEPT ![u] = runs]
    /\ files' = [v \in Units |-> IF v \in Erased(u) THEN 0 ELSE files[v]]
    /\ table' = IF u[2] = 0 THEN table \ {u[1]} ELSE table

TypeOK ==
    /\ native \in BOOLEAN /\ stale \in BOOLEAN /\ mapper \in BOOLEAN /\ silent \in BOOLEAN
    /\ images \subseteq ImageNames /\ table \subseteq Stores
    /\ uuid \in [Units -> 0..MaxRuns] /\ files \in [Units -> 0..MaxRuns]
    /\ loops \in [LoopDevices -> {"free", "gone"} \cup ImageNames]
    /\ dying \subseteq LoopDevices /\ mapped \subseteq LoopDevices
    /\ binds \in [Names -> Nodes \cup {None}]
    /\ mnt \in Seq([at : {"root", "boot"}, dev : Nodes \cup {None}])
    /\ crypt \in Nodes \cup {None}
    /\ imageMount \in LoopDevices \cup {None}
    /\ fstab \in [{"root", "boot"} -> 0..MaxRuns]
    /\ options \in Options /\ confirmed \subseteq Disks /\ runs \in 0..MaxRuns

NoOptions == [disk |-> None, split |-> FALSE, single |-> FALSE,
              fde |-> FALSE, rsync |-> FALSE, zap |-> FALSE,
              image |-> "image", layout |-> "parted", flasher |-> "whole"]

Init ==
    /\ native = FALSE /\ images = {}
    /\ table \in SUBSET Disks
    /\ uuid = [u \in Units |-> 0] /\ files = [u \in Units |-> 0]
    /\ loops = [n \in LoopDevices |-> "free"] /\ dying = {}
    /\ binds = [n \in Names |-> None]
    /\ mnt = <<>> /\ crypt = None /\ mapped = {} /\ imageMount = None
    /\ mapper = FALSE /\ silent = FALSE
    /\ fstab = [at \in {"root", "boot"} |-> 0]
    /\ options = NoOptions /\ todo = <<>>
    /\ confirmed = {} /\ stale = FALSE /\ runs = 0

-----------------------------------------------------------------------------
(* The steps of the functions.                                             *)

Step(op, x) == [op |-> op, arg |-> x]
When(condition, steps) == IF condition THEN steps ELSE <<>>

(* Mutant: pm_crypt stays open. *)
ReleaseStepsWithoutCrypt == <<Step("umount_mnt", "install"), Step("detach_all", "loops")>>

(* What shutdown() begins with: "order is important!" *)
ReleaseSteps ==
    <<Step("umount_mnt", "install"), Step("close_crypt", "pm_crypt"), Step("detach_all", "loops")>>

ShutdownSteps == ReleaseSteps \o <<Step("umount_work", "all"), Step("shutdown_complete", "all")>>

ZapSteps == ShutdownSteps \o <<Step("delete_native", "native")>>

(* Mutant: whether there is a disk is not asked. *)
HandleDiskMountAlways(o) ==
    <<Step("unbind", "install"), Step("bind_disk", "install"), Step("confirm", "disk")>>

(* handle_disk_mount(); the mutant forgets to unmount /dev/install. *)
HandleDiskMountKeeps(o) ==
    When(o.disk # None, <<Step("bind_disk", "install"), Step("confirm", "disk")>>)
HandleDiskMount(o) ==
    When(o.disk # None,
         <<Step("unbind", "install"), Step("bind_disk", "install"), Step("confirm", "disk")>>)

(* get_partition_layout() *)
BootName(o) == IF o.layout = "cgpt" THEN "p2" ELSE "p1"
RootName(o) == IF o.single THEN "install" ELSE IF o.layout = "cgpt" THEN "p3" ELSE "p2"
HasBoot(o) == ~o.single /\ o.layout # "prep"

(* In the image or on the disk are partitions. *)
Partitioned(o) == ~o.split /\ ~o.single

RemoveSteps(image) == <<Step("umount_mnt", image), Step("remove_image", image)>>
ImageSteps(image, name) == <<Step("losetup", image), Step("bind_image", <<image, name>>)>>

(* create(), create_and_mount_image() *)
CreateSteps(o) ==
    <<Step("unbind", "install")>>
        \o RemoveSteps("full") \o RemoveSteps("boot") \o RemoveSteps("root")
        \o <<Step("check", "free space")>>
        \o (IF o.split
            THEN <<Step("truncate", "boot"), Step("truncate", "root")>>
                     \o ImageSteps("boot", "p1") \o ImageSteps("root", "p2")
            ELSE <<Step("truncate", "full")>> \o ImageSteps("full", "install"))

BindParts(o) ==
    <<Step("bind_part", RootName(o)), Step("bind_part", BootName(o))>>
        \o When(o.layout = "cgpt", <<Step("bind_part", "p1")>>)

FormatAndMountRoot(o) ==
    LET device == IF o.fde THEN "pm_crypt" ELSE RootName(o)
    IN  <<Step("format", device), Step("mount_root", device)>>

FormatAndMountBoot(o) ==
    <<Step("format", BootName(o)), Step("mount_boot", BootName(o))>>

FormatSteps(o) ==
    When(o.fde, <<Step("luks", RootName(o))>>)
        \o FormatAndMountRoot(o) \o When(HasBoot(o), FormatAndMountBoot(o))

FstabSteps(o) ==
    <<Step("create_fstab", "fstab")>> \o When(o.fde, <<Step("create_crypttab", "crypttab")>>)

(* Up to where the partitions can be formatted *)
PrepareSteps(o) ==
    When(~o.rsync /\ o.disk = None, CreateSteps(o))
        \o When(~o.rsync /\ Partitioned(o), <<Step("partition", o.layout)>>)
        \o When(Partitioned(o), BindParts(o))

FillSteps(o) ==
    <<Step("copy", "files")>>
        \o When(Partitioned(o), <<Step("embed_firmware", "install")>>)
        \o When(Partitioned(o) /\ o.layout = "cgpt", <<Step("write_kpart", "p1")>>)
        \o When(~o.single /\ o.layout = "prep", <<Step("grub_install", "loop0p1")>>)

(* Mutant: fstab is written before the partitions are formatted. *)
FstabBeforeFormat(o) ==
    PrepareSteps(o) \o FstabSteps(o) \o FormatSteps(o) \o FillSteps(o) \o ReleaseSteps

(* install_system_image() *)
SystemImageSteps(o) ==
    PrepareSteps(o) \o FormatSteps(o) \o FstabSteps(o) \o FillSteps(o) \o ReleaseSteps

SanityChecks(o) ==
    <<Step("check", "boot size")>> \o When(o.disk # None, <<Step("check", "disk")>>)

InstallSteps(o) ==
    SanityChecks(o) \o When(o.zap, ZapSteps)
        \o <<Step("init_native", "native")>> \o HandleDiskMount(o)
        \o <<Step("create_rootfs", "rootfs")>>
        \o When(o.image = "image",
                <<Step("ensure_native", "native")>> \o SystemImageSteps(o)
                    \o <<Step("flash_info", "done")>>)
        \o When(o.image = "zip", <<Step("recovery_zip", "zip")>>)

(* mount_chroot_image() *)
ImageChrootSteps ==
    ShutdownSteps
        \o <<Step("detach_all", "loops"), Step("init_native", "native"), Step("losetup", "full"),
             Step("bind_image", <<"full", "install">>), Step("mount_image", "full")>>

QemuSteps ==
    <<Step("umount_image", "image"), Step("detach_all", "loops"), Step("run_qemu", "full")>>

At(op) == todo # <<>> /\ Head(todo).op = op
X == Head(todo).arg

Continue == todo' = Tail(todo)
Replace(steps) == todo' = steps \o Tail(todo)
Abort == todo' = <<>>

-----------------------------------------------------------------------------
(* Native chroot and mounts.                                               *)

InitNative ==
    /\ At("init_native")
    /\ native' = TRUE
    /\ Continue
    /\ UNCHANGED <<storage, kernel, fstab, memory>>

(* create_device_rootfs(): building a package deletes the native chroot at *)
(* the end, after a shutdown of what belongs to it.                        *)
CreateRootfs ==
    /\ At("create_rootfs")
    /\ Continue \/ Replace(ReleaseSteps \o <<Step("delete_native", "native")>>)
    /\ UNCHANGED <<native, storage, kernel, fstab, memory>>

EnsureNative ==
    /\ At("ensure_native")
    /\ Replace(When(~native, <<Step("init_native", "native")>> \o HandleDiskMount(options)))
    /\ UNCHANGED <<native, storage, kernel, fstab, memory>>

(* del_chroot(): umount_all() and rm -rf *)
DeleteNative ==
    /\ At("delete_native")
    /\ native' = FALSE /\ images' = {}
    /\ loops' = [n \in LoopDevices |-> IF loops[n] \in ImageNames THEN "gone" ELSE loops[n]]
    /\ table' = (table \ ImageNames) \cup (IF "full" \in table THEN {"gone"} ELSE {})
    /\ binds' = [n \in Names |-> None]
    /\ mnt' = <<>> /\ mapper' = FALSE
    /\ Continue
    /\ UNCHANGED <<uuid, files, dying, crypt, silent, mapped, imageMount, fstab, memory>>

(* umount_all(native / "mnt"): the boot first.  One that is hidden by      *)
(* another mount of the root cannot be unmounted, and what was mounted     *)
(* twice is "Failed to umount" after the first.                            *)
Roots == {k \in DOMAIN mnt : mnt[k].at = "root"}
Boots == {k \in DOMAIN mnt : mnt[k].at = "boot"}

AtMostOne(S) == \A j, k \in S : j = k

Unmounted ==
    IF Boots = {} THEN 1
    ELSE IF Len(mnt) \notin Boots THEN 0
    ELSE IF AtMostOne(Boots) THEN 2 ELSE 1

UmountMnt ==
    /\ At("umount_mnt")
    /\ IF X \in ImageNames /\ X \notin images
       THEN Continue /\ UNCHANGED mnt
       ELSE IF AtMostOne(Roots)
       THEN mnt' = <<>> /\ Continue
       ELSE mnt' = SubSeq(mnt, 1, Len(mnt) - Unmounted) /\ Abort
    /\ UNCHANGED <<native, storage, loops, dying, binds, crypt, mapper, silent, mapped, imageMount, fstab, memory>>

(* umount_all(native / "dev/install"): not installp1 and installp2 *)
Unbind ==
    /\ At("unbind")
    /\ binds' = [binds EXCEPT ![X] = None]
    /\ Continue
    /\ UNCHANGED <<native, storage, loops, dying, mnt, crypt, mapper, silent, mapped, imageMount, fstab, memory>>

(* bind_file() "Skip existing mountpoint" *)
Bind(name, node) ==
    /\ binds' = IF binds[name] = None THEN [binds EXCEPT ![name] = node] ELSE binds
    /\ stale' = (stale \/ (name # "install" /\ binds[name] \notin {None, node}))

BindDisk ==
    /\ At("bind_disk")
    /\ Bind("install", [on |-> options.disk, part |-> 0])
    /\ Continue
    /\ UNCHANGED <<native, storage, loops, dying, mnt, crypt, mapper, silent, mapped, imageMount, fstab,
                   options, confirmed, runs>>

(* mount_disk(): "EVERYTHING ON ... WILL BE ERASED! CONTINUE?" *)
Confirm ==
    /\ At("confirm")
    /\ \/ confirmed' = confirmed \cup {options.disk} /\ Continue
       \/ Abort /\ UNCHANGED confirmed
    /\ UNCHANGED <<native, storage, kernel, fstab, options, stale, runs>>

-----------------------------------------------------------------------------
(* Images and loop devices.                                                *)

(* create_and_mount_image(): losetup.umount(), rm.  What still uses the    *)
(* image keeps the file.                                                   *)
RemoveImage ==
    /\ At("remove_image")
    /\ IF X \in images
       THEN /\ images' = images \ {X}
            /\ table' = (table \ {X}) \cup (IF X \in table THEN {"gone"} ELSE {})
            /\ loops' = [n \in LoopDevices |-> IF loops[n] = X THEN "gone" ELSE loops[n]]
            /\ dying' = dying \cup (IF Attached(X) = {} THEN {} ELSE {Min(Attached(X))})
       ELSE UNCHANGED <<images, table, loops, dying>>
    /\ Continue
    /\ UNCHANGED <<native, uuid, files, binds, mnt, crypt, mapper, silent, mapped, imageMount, fstab, memory>>

Truncate ==
    /\ At("truncate")
    /\ images' = images \cup {X}
    /\ uuid' = [u \in Units |-> IF u[1] = X THEN 0 ELSE uuid[u]]
    /\ files' = [u \in Units |-> IF u[1] = X THEN 0 ELSE files[u]]
    /\ Continue
    /\ UNCHANGED <<native, table, kernel, fstab, memory>>

(* losetup.mount(): the five attempts are one step. *)
Losetup ==
    /\ At("losetup")
    /\ LET free == {n \in LoopDevices : Free(n)}
       IN  IF free = {}
           THEN Abort /\ UNCHANGED <<loops, dying, binds>>
           ELSE /\ loops' = [loops EXCEPT ![Min(free)] = X]
                /\ dying' = dying \ {Min(free)}
                /\ Continue /\ UNCHANGED binds
    /\ UNCHANGED <<native, storage, mnt, crypt, mapper, silent, mapped, imageMount, fstab, memory>>

(* device_by_back_file(): the first one *)
BindImage ==
    /\ At("bind_image")
    /\ Bind(X[2], [on |-> Min(Attached(X[1])), part |-> 0])
    /\ Continue
    /\ UNCHANGED <<native, storage, loops, dying, mnt, crypt, mapper, silent, mapped, imageMount, fstab,
                   options, confirmed, runs>>

(* parted, cgpt and partx run without check: they may have failed, or      *)
(* /dev/install is not there.                                              *)
MakeTable ==
    LET u == UnitOf(binds["install"])
    IN  \/ UNCHANGED <<table, files>>
        \/ /\ u # Nowhere /\ ~Busy(u)
           /\ table' = table \cup {u[1]}
           /\ files' = [v \in Units |-> IF v[1] = u[1] THEN 0 ELSE files[v]]

Partition ==
    /\ At("partition") /\ X = "parted"
    /\ MakeTable
    /\ Continue
    /\ UNCHANGED <<native, images, uuid, kernel, fstab, memory>>

(* "blockdev --getsz" is checked. *)
PartitionCgpt ==
    /\ At("partition") /\ X = "cgpt"
    /\ IF UnitOf(binds["install"]) = Nowhere
       THEN Abort /\ UNCHANGED <<table, files>>
       ELSE MakeTable /\ Continue
    /\ UNCHANGED <<native, images, uuid, kernel, fstab, memory>>

PartitionPrep ==
    /\ At("partition") /\ X = "prep"
    /\ MakeTable
    /\ Continue
    /\ UNCHANGED <<native, images, uuid, kernel, fstab, memory>>

(* partitions_mount(): the partitions of the disk, or of the loop device   *)
(* of the image; wait_until_exists() gives up after some seconds.          *)
PartOf(name) == IF name = "p1" THEN 1 ELSE IF name = "p2" THEN 2 ELSE 3
Wanted(o) == IF o.disk # None THEN o.disk ELSE Min(Attached("full"))

BindPart ==
    /\ At("bind_part")
    /\ IF options.disk = None /\ Attached("full") = {}
       THEN Abort /\ UNCHANGED <<binds, stale>>
       ELSE LET node == [on |-> Wanted(options), part |-> PartOf(X)]
            IN  IF UnitOf(node) = Nowhere
                THEN Abort /\ UNCHANGED <<binds, stale>>
                ELSE Bind(X, node) /\ Continue
    /\ UNCHANGED <<native, storage, loops, dying, mnt, crypt, mapper, silent, mapped, imageMount, fstab,
                   options, confirmed, runs>>

-----------------------------------------------------------------------------
(* pmb/install/format.py                                                   *)

DeviceOf(name) == IF name = "pm_crypt" THEN crypt ELSE binds[name]

(* luksFormat refuses a device in use, luksOpen a name in use. *)
Luks ==
    /\ At("luks")
    /\ LET u == UnitOf(binds[X])
       IN  IF u = Nowhere \/ Busy(u)
           THEN Abort /\ UNCHANGED <<uuid, files, table, crypt, mapper, silent>>
           ELSE /\ Write(u)
                /\ IF crypt = None
                   THEN crypt' = binds[X] /\ mapper' = TRUE /\ silent' = FALSE /\ Continue
                   ELSE Abort /\ UNCHANGED <<crypt, mapper, silent>>
    /\ UNCHANGED <<native, images, loops, dying, binds, mnt, mapped, imageMount, fstab, memory>>

(* mkfs of a device in use fails. *)
Format ==
    /\ At("format")
    /\ LET u == UnitOf(DeviceOf(X))
       IN  IF u = Nowhere \/ (X # "pm_crypt" /\ Busy(u))
           THEN Abort /\ UNCHANGED <<uuid, files, table>>
           ELSE Write(u) /\ Continue
    /\ UNCHANGED <<native, images, kernel, fstab, memory>>

Mount ==
    /\ At("mount_root") \/ At("mount_boot")
    /\ mnt' = Append(mnt, [at |-> IF At("mount_root") THEN "root" ELSE "boot",
                           dev |-> DeviceOf(X)])
    /\ Continue
    /\ UNCHANGED <<native, storage, loops, dying, binds, crypt, mapper, silent, mapped, imageMount, fstab, memory>>

Exists(name) == UnitOf(binds[name]) # Nowhere
GetUuid(name) == uuid[UnitOf(binds[name])]

(* The root of an encrypted installation is in /etc/crypttab. *)
CreateFstab ==
    /\ At("create_fstab")
    /\ IF /\ options.fde \/ Exists(RootName(options))
          /\ HasBoot(options) => Exists(BootName(options))
       THEN /\ fstab' = [root |-> IF options.fde THEN fstab.root ELSE GetUuid(RootName(options)),
                         boot |-> IF HasBoot(options) THEN GetUuid(BootName(options)) ELSE 0]
            /\ Continue
       ELSE Abort /\ UNCHANGED fstab
    /\ UNCHANGED <<native, storage, kernel, memory>>

CreateCrypttab ==
    /\ At("create_crypttab")
    /\ IF Exists(RootName(options))
       THEN fstab' = [fstab EXCEPT !.root = GetUuid(RootName(options))] /\ Continue
       ELSE Abort /\ UNCHANGED fstab
    /\ UNCHANGED <<native, storage, kernel, memory>>

(* copy_files_from_chroot(), create_home_from_skel(), configure_apk(),     *)
(* copy_ssh_keys(): what is mounted at /mnt/install and its boot           *)
Filled == {UnitOf(mnt[k].dev) : k \in {j \in DOMAIN mnt : \A r \in Roots : r <= j}}

Copy ==
    /\ At("copy")
    /\ files' = [u \in Units |-> IF u \in Filled THEN runs ELSE files[u]]
    /\ Continue
    /\ UNCHANGED <<native, images, table, uuid, kernel, fstab, memory>>

(* dd to the space before the first partition, unless the firmware does    *)
(* not fit there.                                                          *)
EmbedFirmware ==
    /\ At("embed_firmware")
    /\ Continue \/ Abort
    /\ UNCHANGED <<native, storage, kernel, fstab, memory>>

(* write_cgpt_kpart(): the kernel partition holds the kernel of this run.  *)
WriteKpart ==
    /\ At("write_kpart")
    /\ files' = [u \in Units |-> IF u = UnitOf(binds[X]) THEN runs ELSE files[u]]
    /\ Continue
    /\ UNCHANGED <<native, images, table, uuid, kernel, fstab, memory>>

(* "it *needs* to install to /dev/loop0p1", which may be another image, or *)
(* none.                                                                   *)
GrubInstall ==
    /\ At("grub_install")
    /\ LET u == UnitOf([on |-> 1, part |-> 1])
       IN  IF u = Nowhere
           THEN Abort /\ UNCHANGED files
           ELSE files' = [files EXCEPT ![u] = runs] /\ Continue
    /\ UNCHANGED <<native, images, table, uuid, kernel, fstab, memory>>

-----------------------------------------------------------------------------
(* pmb/chroot/shutdown.py                                                  *)

(* shutdown_cryptsetup_device(): nothing is done when native has no       *)
(* /dev/mapper/pm_crypt, or when "cryptsetup status" prints nothing.       *)
CloseCrypt ==
    /\ At("close_crypt")
    /\ \/ mapper /\ crypt' = None /\ mapper' = FALSE /\ silent' = FALSE
       \/ mapper /\ silent' = TRUE /\ UNCHANGED <<crypt, mapper>>
       \/ ~mapper /\ UNCHANGED <<crypt, mapper, silent>>
    /\ Continue
    /\ UNCHANGED <<native, storage, loops, dying, binds, mnt, mapped, imageMount, fstab, memory>>

(* detach_all(): "kpartx -d" may fail, "losetup -d" does not wait. *)
DetachAll ==
    /\ At("detach_all")
    /\ mapped' = {n \in mapped : imageMount = n}
    /\ dying' = {n \in LoopDevices : loops[n] # "free"}
    /\ Continue
    /\ UNCHANGED <<native, storage, loops, binds, mnt, crypt, mapper, silent, imageMount, fstab, memory>>

(* umount_all() of every directory of the work directory *)
UmountWork ==
    /\ At("umount_work")
    /\ binds' = [n \in Names |-> None]
    /\ imageMount' = None /\ mapper' = FALSE
    /\ Continue
    /\ UNCHANGED <<native, storage, loops, dying, mnt, crypt, silent, mapped, fstab, memory>>

-----------------------------------------------------------------------------
(* The image in use.                                                       *)

(* kpartx -u, then mount its second partition, or all of it *)
MountImage ==
    /\ At("mount_image")
    /\ LET n == Min(Attached(X))
       IN  /\ mapped' = mapped \cup (IF X \in table THEN {n} ELSE {})
           /\ IF Busy(<<X, 0>>)
              THEN Abort /\ UNCHANGED imageMount
              ELSE imageMount' = n /\ Continue
    /\ UNCHANGED <<native, storage, loops, dying, binds, mnt, crypt, mapper, silent, fstab, memory>>

(* qemu: umount_all() of the image chroot *)
UmountImage ==
    /\ At("umount_image")
    /\ imageMount' = None
    /\ Continue
    /\ UNCHANGED <<native, storage, loops, dying, binds, mnt, crypt, mapper, silent, mapped, fstab, memory>>

(* What is refused: a small boot_size, a large disk, images that do not    *)
(* fit.                                                                    *)
Check ==
    /\ At("check")
    /\ Continue \/ Abort
    /\ UNCHANGED <<native, storage, kernel, fstab, memory>>

(* install_recovery_zip() works in the buildroot. *)
RecoveryZip ==
    /\ At("recovery_zip")
    /\ Continue
    /\ UNCHANGED <<native, storage, kernel, fstab, memory>>

(* Steps that change nothing here. *)
Report ==
    /\ At("shutdown_complete") \/ At("flash_info") \/ At("run_qemu")
    /\ Continue
    /\ UNCHANGED <<native, storage, kernel, fstab, memory>>

-----------------------------------------------------------------------------

Start(steps, o) ==
    /\ todo = <<>> /\ runs < MaxRuns
    /\ runs' = runs + 1
    /\ todo' = steps
    /\ options' = o /\ confirmed' = {} /\ stale' = FALSE
    /\ UNCHANGED <<native, storage, kernel, fstab>>

StartInstall == \E o \in Installs : Start(InstallSteps(o), o)
StartShutdown == Start(ShutdownSteps, NoOptions)

(* "pmbootstrap chroot --image" and "pmbootstrap qemu" want the image. *)
StartImageChroot ==
    /\ "full" \in images /\ imageMount = None
    /\ Start(ImageChrootSteps, NoOptions)
StartQemu == "full" \in images /\ Start(QemuSteps, NoOptions)

(* A command fails or the user interrupts. *)
Interrupt ==
    /\ todo # <<>>
    /\ Abort
    /\ UNCHANGED <<native, storage, kernel, fstab, memory>>

Reboot ==
    /\ runs > 0
    /\ todo' = <<>>
    /\ loops' = [n \in LoopDevices |-> "free"] /\ dying' = {}
    /\ binds' = [n \in Names |-> None]
    /\ mnt' = <<>> /\ crypt' = None /\ mapped' = {} /\ imageMount' = None
    /\ mapper' = FALSE /\ silent' = FALSE
    /\ UNCHANGED <<native, storage, fstab, memory>>

ProgramStep ==
    \/ InitNative \/ CreateRootfs \/ EnsureNative \/ DeleteNative
    \/ UmountMnt \/ Unbind \/ BindDisk \/ Confirm
    \/ RemoveImage \/ Truncate \/ Losetup \/ BindImage
    \/ Partition \/ PartitionCgpt \/ PartitionPrep \/ BindPart
    \/ Luks \/ Format \/ Mount \/ CreateFstab \/ CreateCrypttab
    \/ Copy \/ EmbedFirmware \/ WriteKpart \/ GrubInstall
    \/ CloseCrypt \/ DetachAll \/ UmountWork
    \/ MountImage \/ UmountImage \/ Check \/ RecoveryZip \/ Report

Next ==
    \/ StartInstall \/ StartShutdown \/ StartImageChroot \/ StartQemu
    \/ ProgramStep \/ Interrupt \/ Reboot

Spec == Init /\ [][Next]_vars

-----------------------------------------------------------------------------

(* Where this run was asked to install to. *)
StoreOfImage(o) == IF o.disk # None THEN o.disk ELSE "full"
UnitNamed(o, name) ==
    IF o.split THEN <<IF name = "p1" THEN "boot" ELSE "root", 0>>
    ELSE <<StoreOfImage(o), IF name = "install" THEN 0 ELSE PartOf(name)>>
RootUnit(o) == UnitNamed(o, RootName(o))
BootUnit(o) == UnitNamed(o, BootName(o))

(* The names this run uses are not bound by this run: they were found      *)
(* bound, or --split has two images for the three partitions of cgpt.      *)
Misbound == stale \/ (options.split /\ options.layout = "cgpt")

Formatting == At("format") \/ At("luks")
FormattedUnit == UnitOf(DeviceOf(X))

(* What is about to be formatted is a partition of the disk or image this  *)
(* run was asked to install to, and what is about to be partitioned or to  *)
(* get firmware is that disk or image, whatever earlier runs, interrupted  *)
(* or not, left attached and bound.  The exception: /dev/installp1, 2 and  *)
(* 3 are only unbound by shutdown, and a run that finds them bound to      *)
(* something else uses that (see ErasesOnlyConfirmed).                     *)
FormatsTarget ==
    /\ Formatting =>
          Misbound \/ FormattedUnit \in {RootUnit(options), BootUnit(options), Nowhere}
    /\ At("partition") \/ At("embed_firmware") =>
          UnitOf(binds["install"]) \in {<<StoreOfImage(options), 0>>, Nowhere}

(* print_flash_info(): the image files it names *)
Named(o) ==
    LET requires_split == o.flasher = "split"
    IN  (IF o.flasher # "none" /\ o.disk = None /\ o.split = requires_split
         THEN {IF o.split THEN "root" ELSE "full"} ELSE {})
            \cup (IF requires_split /\ o.split THEN {"boot"} ELSE {})

(* When the program says what to flash, the image or disk holds the rootfs *)
(* of this run, with its kernel, the UUIDs in its fstab and crypttab are   *)
(* those of its partitions, and every image file it names is there and     *)
(* was filled by this run - with the same exception, and that a split      *)
(* image without boot partition has an empty boot image.                   *)
InstalledBoots ==
    At("flash_info") =>
        \/ Misbound
        \/ /\ files[RootUnit(options)] = runs
           /\ fstab.root = uuid[RootUnit(options)]
           /\ HasBoot(options) =>
                /\ files[BootUnit(options)] = runs
                /\ fstab.boot = uuid[BootUnit(options)]
           /\ Partitioned(options) /\ options.layout = "cgpt" =>
                files[UnitNamed(options, "p1")] = runs
           /\ \A image \in Named(options) :
                /\ image \in images
                /\ \/ image = "boot" /\ ~HasBoot(options)
                   \/ \E part \in Parts : files[<<image, part>>] = runs

(* After a shutdown no loop device, crypt device or mount is left, so that *)
(* disks can be removed and chroots deleted.  The exceptions: pm_crypt, and*)
(* the loop device it was opened on, if "cryptsetup status" has printed    *)
(* nothing in this or an earlier shutdown; and the image chroot, which is  *)
(* unmounted after "kpartx -d" has failed because of it, keeps its loop    *)
(* device until the next shutdown.                                         *)
ShutdownReleases ==
    At("shutdown_complete") =>
        /\ mnt = <<>> /\ imageMount = None /\ (crypt = None \/ silent)
        /\ \A n \in Names : binds[n] = None
        /\ \A n \in LoopDevices : Free(n) \/ n \in mapped \/ (silent /\ On(crypt, n))

(* shutdown.py line 63: "(shutdown fails later if it is)!"  A shutdown that*)
(* could not ask for the status of pm_crypt and assumed that it is closed  *)
(* does not complete if it is open.                                        *)
ShutdownFailsIfOpen == At("shutdown_complete") => crypt = None

(* _install.py line 964: "Install GRUB to the PReP boot partition".        *)
GrubInTarget ==
    At("flash_info") /\ ~stale /\ Partitioned(options) /\ options.layout = "prep" =>
        files[UnitNamed(options, "p1")] = runs

(* blockdevice.py line 59: "EVERYTHING ON {path} WILL BE ERASED!           *)
(* CONTINUE?".  A disk is only formatted when the user has agreed to it.   *)
ErasesOnlyConfirmed ==
    Formatting => FormattedUnit[1] \notin Disks \ confirmed

(* README.md line 244: "Update existing installation on SD card:           *)
(* pmbootstrap install --disk=/dev/mmcblk0 --rsync".  A run with --rsync   *)
(* does not format what an earlier one has installed.                      *)
RsyncUpdates ==
    Formatting /\ options.rsync /\ FormattedUnit # Nowhere => files[FormattedUnit] = 0

(* qemu.py line 387: "Make sure the rootfs image isn't mounted".           *)
QemuAlone == At("run_qemu") => Attached("full") = {}
=============================================================================
