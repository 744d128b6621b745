-------------------------- MODULE InstallImage_proofs --------------------------
(***************************************************************************)
(* Proofs about installations, for any disks, options, numbers of loop     *)
(* devices and runs, and programs that end at any step.                    *)
(*                                                                         *)
(* The steps of a program rely on what earlier steps have established:     *)
(* Reads says what a step relies on, Sets what it establishes and Upsets   *)
(* what it may destroy.  The invariant is that everything the remaining    *)
(* steps rely on holds (Held), and that no remaining step destroys what    *)
(* one after it relies on (Calm).                                          *)
(***************************************************************************)
EXTENDS InstallImage, SequenceTheorems, WellFoundedInduction, TLAPS

Ops == {"init_native", "create_rootfs", "ensure_native", "delete_native", "umount_mnt",
        "unbind", "bind_disk", "confirm", "remove_image", "truncate", "losetup",
        "bind_image", "partition", "bind_part", "luks", "format", "mount_root",
        "mount_boot", "create_fstab", "create_crypttab", "copy", "embed_firmware",
        "write_kpart", "grub_install", "close_crypt", "detach_all", "umount_work",
        "mount_image", "umount_image", "check", "recovery_zip", "shutdown_complete",
        "flash_info", "run_qemu"}

Devices == Names \cup {"pm_crypt"}

Args == Devices \cup ImageNames \cup (ImageNames \X Names)
            \cup {"loops", "all", "native", "disk", "free space", "boot size", "rootfs", "fstab",
                  "crypttab", "files", "zip", "done", "image", "loop0p1", "parted", "cgpt", "prep"}

StepType == [op : Ops, arg : Args]

(* Where data goes that is written to a device in this run. *)
Target(o, device) == IF device = "pm_crypt" THEN RootUnit(o) ELSE UnitNamed(o, device)

StepOK(x, o) ==
    /\ x.op \in {"remove_image", "truncate", "losetup", "mount_image"} => x.arg \in ImageNames
    /\ x.op = "umount_mnt"  => x.arg \in {"install"} \cup ImageNames
    /\ x.op = "unbind"      => x.arg = "install"
    /\ x.op \in {"bind_disk", "confirm"} => o.disk # None /\ ~o.split
    /\ x.op = "ensure_native" => o.disk = None \/ ~o.split
    /\ x.op = "bind_image"  => /\ x.arg \in ImageNames \X Names /\ o.disk = None
                               /\ UnitNamed(o, x.arg[2]) = <<x.arg[1], 0>>
    /\ x.op = "bind_part"   => x.arg \in {"p1", "p2", "p3"} /\ Partitioned(o)
    /\ x.op \in {"partition", "embed_firmware"} => Partitioned(o)
    /\ x.op = "luks"        => x.arg = RootName(o)
    /\ x.op = "format"      => \/ x.arg \in {RootName(o), "pm_crypt"}
                               \/ x.arg = BootName(o) /\ HasBoot(o)
    /\ x.op = "mount_root"  => x.arg \in {RootName(o), "pm_crypt"}
    /\ x.op = "mount_boot"  => x.arg = BootName(o) /\ HasBoot(o)
    /\ x.op = "write_kpart" => x.arg = "p1" /\ Partitioned(o)

-----------------------------------------------------------------------------
(* What steps rely on, establish and destroy.                              *)

(* The devices a step works on; --split has no third partition.            *)
Uses(x, o, device) ==
    /\ ~(device = "p3" /\ o.split)
    /\ \/ /\ x.op \in {"luks", "format", "mount_root", "mount_boot", "write_kpart"}
          /\ device = x.arg
       \/ x.op \in {"partition", "embed_firmware"} /\ device = "install"
       \/ x.op = "create_fstab" /\ ~o.fde /\ device = RootName(o)
       \/ x.op = "create_fstab" /\ HasBoot(o) /\ device = BootName(o)
       \/ x.op = "create_crypttab" /\ device = RootName(o)

(* What there is to rely on: "node": a device is what this run is to write *)
(* to; "fresh": what is attached to an image is not about to be detached;  *)
(* "attached", "there": an image is; and single facts.                     *)
Reads(x, o, kind, of) ==
    \/ kind = "node" /\ Uses(x, o, of)
    \/ /\ kind = "fresh" /\ o.disk = None
       /\ \E name \in Names : Uses(x, o, name) /\ of = UnitNamed(o, name)[1]
    \/ kind = "fresh" /\ o.disk = None /\ x.op = "bind_part" /\ of = "full"
    \/ kind = "attached" /\ x.op = "bind_image" /\ of = x.arg[1]
    \/ kind = "attached" /\ x.op = "mount_image" /\ of = x.arg
    \/ kind = "there" /\ x.op = "losetup" /\ of = x.arg
    \/ kind = "there" /\ x.op = "flash_info" /\ of \in Named(o)
    \/ /\ kind = "is"
       /\ \/ x.op = "bind_disk" /\ of = "empty"
          \/ x.op = "bind_image" /\ x.arg[2] = "install" /\ of = "empty"
          \/ x.op = "ensure_native" /\ o.disk # None /\ of = "kept"
          \/ x.op = "copy" /\ of = "rootmount"
          \/ x.op = "copy" /\ HasBoot(o) /\ of = "bootmount"
          \/ x.op = "flash_info" /\ of \in {"rootfiles", "rootid"}
          \/ x.op = "flash_info" /\ HasBoot(o) /\ of \in {"bootfiles", "bootid"}
          \/ x.op = "flash_info" /\ Partitioned(o) /\ o.layout = "cgpt" /\ of = "kernel"
          \/ x.op = "shutdown_complete" /\ of \in {"mnt", "crypt", "loops", "work"}
          \/ x.op \in {"umount_work", "delete_native"} /\ of = "crypt"

Sets(x, o, kind, of) ==
    \/ /\ kind = "node"
       /\ \/ x.op = "bind_disk" /\ of = "install"
          \/ x.op = "ensure_native" /\ o.disk # None /\ of = "install"
          \/ x.op = "bind_image" /\ of = x.arg[2]
          \/ x.op = "bind_part" /\ of = x.arg
          \/ x.op = "luks" /\ of = "pm_crypt"
    \/ kind = "fresh" /\ x.op = "remove_image" /\ of = x.arg
    \/ kind = "attached" /\ x.op = "losetup" /\ of = x.arg
    \/ kind = "there" /\ x.op = "truncate" /\ of = x.arg
    \/ /\ kind = "is"
       /\ \/ x.op = "umount_mnt" /\ x.arg = "install" /\ of = "mnt"
          \/ x.op = "close_crypt" /\ of = "crypt"
          \/ x.op = "detach_all" /\ of = "loops"
          \/ x.op = "umount_work" /\ of \in {"work", "empty"}
          \/ x.op = "unbind" /\ of = "empty"
          \/ x.op = "delete_native" /\ of \in {"empty", "kept"}
          \/ x.op = "bind_disk" /\ of = "kept"
          \/ x.op = "mount_root" /\ of = "rootmount"
          \/ x.op = "mount_boot" /\ of = "bootmount"
          \/ x.op = "copy" /\ of \in {"rootfiles", "bootfiles"}
          \/ x.op = "write_kpart" /\ of = "kernel"
          \/ x.op = "create_fstab" /\ of = "bootid"
          \/ x.op = "create_fstab" /\ ~o.fde /\ of = "rootid"
          \/ x.op = "create_crypttab" /\ of = "rootid"

(* Formatting all of a disk or image destroys its partitions; create_rootfs*)
(* and ensure_native may put other steps in front of those that follow.    *)
Upsets(x, o, kind, of) ==
    \/ /\ kind = "node"
       /\ \/ x.op \in {"detach_all", "delete_native", "create_rootfs", "remove_image"}
          \/ x.op = "close_crypt" /\ of = "pm_crypt"
          \/ x.op = "umount_work" /\ of \in Names
          \/ x.op = "unbind" /\ of = "install"
          \/ x.op \in {"luks", "format"} /\ o.single /\ of \in {"p1", "p2", "p3"}
    \/ kind = "fresh" /\ x.op \in {"detach_all", "create_rootfs"}
    \/ kind = "attached" /\ x.op \in {"detach_all", "delete_native", "create_rootfs"}
    \/ kind = "attached" /\ x.op = "remove_image" /\ of = x.arg
    \/ kind = "there" /\ x.op \in {"delete_native", "create_rootfs"}
    \/ kind = "there" /\ x.op = "remove_image" /\ of = x.arg
    \/ /\ kind = "is"
       /\ \/ x.op \in {"umount_mnt", "detach_all", "delete_native", "create_rootfs", "remove_image"}
                /\ of \in {"rootmount", "bootmount"}
          \/ x.op = "ensure_native" /\ of \in {"kept", "work", "empty"}
          \/ x.op = "init_native" /\ of = "kept"
          \/ x.op \in {"umount_work", "unbind", "detach_all", "remove_image"} /\ of = "kept"
          \/ x.op \in {"bind_disk", "bind_image", "bind_part", "mount_image"} /\ of = "work"
          \/ x.op = "bind_disk" /\ of = "empty"
          \/ x.op = "bind_image" /\ x.arg[2] = "install" /\ of = "empty"
          \/ x.op = "losetup" /\ of = "loops"
          \/ x.op = "luks" /\ of = "crypt"
          \/ x.op \in {"mount_root", "mount_boot"} /\ of = "mnt"
          \/ x.op = "mount_root" /\ of = "bootmount"
          \/ x.op \in {"truncate", "partition", "luks", "format"}
                /\ of \in {"rootfiles", "bootfiles", "kernel"}
          \/ x.op \in {"truncate", "luks", "format"} /\ of \in {"rootid", "bootid"}

(* The steps s rely on it as it is now. *)
Relies(s, o, kind, of) ==
    \E k \in 1..Len(s) :
        Reads(s[k], o, kind, of) /\ \A i \in 1..k-1 : ~Sets(s[i], o, kind, of)

(* No step destroys what a later one relies on. *)
Calm(s, o) ==
    \A i, k \in 1..Len(s) : \A kind, of :
        i < k /\ Upsets(s[i], o, kind, of) /\ Reads(s[k], o, kind, of) =>
            \E j \in i+1..k-1 : Sets(s[j], o, kind, of)

Proper(s, o) ==
    /\ \A k \in 1..Len(s) : StepOK(s[k], o)
    /\ Calm(s, o)

-----------------------------------------------------------------------------
(* What it means that they hold.                                           *)

(* A node that is unit u, and stays it. *)
Firm(node, u) ==
    /\ node # None
    /\ node.part = u[2]
    /\ IF node.on \in Disks THEN node.on = u[1] ELSE loops[node.on] = u[1] /\ node.on \notin dying
    /\ u[2] # 0 => u[1] \in table

Excused(device) == Misbound /\ device # "install"

HeldNodes ==
    \A device \in Devices : Relies(todo, options, "node", device) =>
        Excused(device) \/ Firm(DeviceOf(device), Target(options, device))

HeldImages ==
    \A image \in ImageNames :
        /\ Relies(todo, options, "fresh", image) =>
              \A n \in LoopDevices : loops[n] = image => n \notin dying
        /\ Relies(todo, options, "attached", image) =>
              \E n \in LoopDevices : loops[n] = image /\ n \notin dying
        /\ Relies(todo, options, "there", image) => image \in images

HeldReleased ==
    /\ Relies(todo, options, "is", "mnt") => mnt = <<>>
    /\ Relies(todo, options, "is", "crypt") => crypt = None \/ silent
    /\ Relies(todo, options, "is", "loops") => \A n \in LoopDevices : loops[n] = "free" \/ n \in dying
    /\ Relies(todo, options, "is", "work") => imageMount = None /\ \A n \in Names : binds[n] = None
    /\ Relies(todo, options, "is", "empty") => binds["install"] = None
    /\ Relies(todo, options, "is", "kept") =>
          (native => Firm(binds["install"], Target(options, "install")))

MountedAt(at, u) ==
    \E j \in DOMAIN mnt : mnt[j].at = at /\ Firm(mnt[j].dev, u) /\ \A r \in Roots : r <= j

HeldMounts ==
    /\ Relies(todo, options, "is", "rootmount") => Misbound \/ MountedAt("root", RootUnit(options))
    /\ Relies(todo, options, "is", "bootmount") => Misbound \/ MountedAt("boot", BootUnit(options))

HeldData ==
    /\ Relies(todo, options, "is", "rootfiles") => Misbound \/ files[RootUnit(options)] = runs
    /\ Relies(todo, options, "is", "bootfiles") => Misbound \/ files[BootUnit(options)] = runs
    /\ Relies(todo, options, "is", "kernel") => Misbound \/ files[UnitNamed(options, "p1")] = runs
    /\ Relies(todo, options, "is", "rootid") => Misbound \/ fstab.root = uuid[RootUnit(options)]
    /\ Relies(todo, options, "is", "bootid") => Misbound \/ fstab.boot = uuid[BootUnit(options)]

(* A loop device is attached to an image that is there, or to a file that  *)
(* was removed.                                                            *)
LoopsBacked == \A n \in LoopDevices : loops[n] \in ImageNames => loops[n] \in images

(* While pm_crypt is open native shows it, unless a shutdown that could not *)
(* see its status has unmounted /dev of native since.                      *)
Sound == TypeOK /\ (crypt # None => mapper \/ silent)

IInv ==
    /\ Sound
    /\ todo \in Seq(StepType)
    /\ Proper(todo, options)
    /\ LoopsBacked
    /\ HeldNodes
    /\ HeldImages
    /\ HeldReleased
    /\ HeldMounts
    /\ HeldData

-----------------------------------------------------------------------------
(* Lemmas about sequences of steps.                                        *)

LEMMA SeqFacts ==
    ASSUME NEW S, NEW s \in Seq(S)
    PROVE  /\ Len(s) \in Nat
           /\ \A k \in 1..Len(s) : s[k] \in S
           /\ s # <<>> => /\ Len(s) >= 1 /\ Head(s) = s[1] /\ 1 \in 1..Len(s)
                          /\ Tail(s) \in Seq(S) /\ Len(Tail(s)) = Len(s) - 1
                          /\ \A k \in 1..Len(Tail(s)) : Tail(s)[k] = s[k + 1]
<1>1. Len(s) \in Nat /\ \A k \in 1..Len(s) : s[k] \in S
  BY LenProperties, ElementOfSeq
<1>2. s # <<>> => Len(s) >= 1 /\ Head(s) = s[1]
  BY EmptySeq, HeadTailProperties
<1>3. s # <<>> => /\ Tail(s) \in Seq(S) /\ Len(Tail(s)) = Len(s) - 1
                  /\ \A k \in 1..Len(Tail(s)) : Tail(s)[k] = s[k + 1]
  BY HeadTailProperties
<1> QED  BY <1>1, <1>2, <1>3

LEMMA StepFacts ==
    ASSUME NEW op, NEW arg
    PROVE  Step(op, arg).op = op /\ Step(op, arg).arg = arg
  BY DEF Step

LEMMA NothingLeft ==
    ASSUME NEW o
    PROVE  /\ <<>> \in Seq(StepType) /\ Proper(<<>>, o)
           /\ \A kind, of : ~Relies(<<>>, o, kind, of)
<1>1. <<>> \in Seq(StepType) /\ Len(<<>>) = 0 /\ 1..0 = {}
  OBVIOUS
<1> QED  BY <1>1 DEF Proper, Calm, Relies

(* What is left of a program when its first step is done.                  *)
LEMMA Rest ==
    ASSUME NEW s \in Seq(StepType), NEW o, Proper(s, o), s # <<>>
    PROVE  /\ Tail(s) \in Seq(StepType) /\ Proper(Tail(s), o)
           /\ Head(s) \in StepType /\ StepOK(Head(s), o)
           /\ \A kind, of : Reads(Head(s), o, kind, of) => Relies(s, o, kind, of)
           /\ \A kind, of : Relies(Tail(s), o, kind, of) =>
                 /\ Sets(Head(s), o, kind, of) \/ Relies(s, o, kind, of)
                 /\ ~Upsets(Head(s), o, kind, of)
<1> DEFINE u == Tail(s)
<1>1. /\ Len(s) \in Nat /\ Len(s) >= 1 /\ Head(s) = s[1] /\ 1 \in 1..Len(s)
      /\ u \in Seq(StepType) /\ Len(u) = Len(s) - 1 /\ \A k \in 1..Len(u) : u[k] = s[k + 1]
      /\ \A k \in 1..Len(s) : s[k] \in StepType
  BY SeqFacts
<1> HIDE DEF u
<1>2. \A k \in 1..Len(u) : u[k] = s[k + 1] /\ k + 1 \in 1..Len(s)
  BY <1>1
<1>3. \A k \in 1..Len(u) : StepOK(u[k], o)
  BY <1>2 DEF Proper
<1>4. Calm(u, o)
  <2> SUFFICES ASSUME NEW i \in 1..Len(u), NEW k \in 1..Len(u), NEW kind, NEW of,
                      i < k, Upsets(u[i], o, kind, of), Reads(u[k], o, kind, of)
               PROVE  \E j \in i+1..k-1 : Sets(u[j], o, kind, of)
    BY DEF Calm
  <2>1. PICK j \in (i+1)+1..(k+1)-1 : Sets(s[j], o, kind, of)
    <3>1. i + 1 < k + 1 /\ i + 1 \in 1..Len(s) /\ k + 1 \in 1..Len(s)
      BY <1>2
    <3>2. Upsets(s[i + 1], o, kind, of) /\ Reads(s[k + 1], o, kind, of)
      BY <1>2
    <3> QED  BY <3>1, <3>2 DEF Proper, Calm
  <2>2. j - 1 \in i+1..k-1 /\ j - 1 \in 1..Len(u) /\ (j - 1) + 1 = j
    BY <1>1, <2>1
  <2> QED  BY <1>2, <2>1, <2>2
<1>5. \A kind, of : Reads(s[1], o, kind, of) => Relies(s, o, kind, of)
  BY <1>1 DEF Relies
<1>6. ASSUME NEW kind, NEW of, Relies(u, o, kind, of)
      PROVE  (Sets(s[1], o, kind, of) \/ Relies(s, o, kind, of)) /\ ~Upsets(s[1], o, kind, of)
  <2>1. PICK k \in 1..Len(u) :
             Reads(u[k], o, kind, of) /\ \A i \in 1..k-1 : ~Sets(u[i], o, kind, of)
    BY <1>6 DEF Relies
  <2>2. k + 1 \in 1..Len(s) /\ Reads(s[k + 1], o, kind, of) /\ 1 < k + 1
    BY <1>2, <2>1
  <2>3. \A j \in 1+1..(k+1)-1 : ~Sets(s[j], o, kind, of)
    <3> SUFFICES ASSUME NEW j \in 1+1..(k+1)-1
                 PROVE  ~Sets(s[j], o, kind, of)
      OBVIOUS
    <3>1. j - 1 \in 1..k-1 /\ j - 1 \in 1..Len(u) /\ (j - 1) + 1 = j
      BY <1>1, <2>1
    <3> QED  BY <1>2, <2>1, <3>1
  <2>4. ~Upsets(s[1], o, kind, of)
    BY <1>1, <2>2, <2>3 DEF Proper, Calm
  <2>5. ~Sets(s[1], o, kind, of) => \A j \in 1..(k+1)-1 : ~Sets(s[j], o, kind, of)
    <3> SUFFICES ASSUME ~Sets(s[1], o, kind, of), NEW j \in 1..(k+1)-1
                 PROVE  ~Sets(s[j], o, kind, of)
      OBVIOUS
    <3>1. j = 1 \/ j \in 1+1..(k+1)-1
      BY <2>1
    <3> QED  BY <2>3, <3>1
  <2> QED  BY <2>2, <2>4, <2>5 DEF Relies
<1> QED  BY <1>1, <1>3, <1>4, <1>5, <1>6 DEF u, Proper

(* A step put in front of others.                                          *)
LEMMA Prepend ==
    ASSUME NEW x \in StepType, NEW t \in Seq(StepType), NEW o, StepOK(x, o), Proper(t, o),
           \A kind, of : Relies(t, o, kind, of) => ~Upsets(x, o, kind, of)
    PROVE  /\ <<x>> \o t \in Seq(StepType) /\ Proper(<<x>> \o t, o)
           /\ \A kind, of : Relies(<<x>> \o t, o, kind, of) =>
                 \/ Reads(x, o, kind, of)
                 \/ Relies(t, o, kind, of) /\ ~Sets(x, o, kind, of)
<1> DEFINE u == <<x>> \o t
<1>1. Len(t) \in Nat /\ \A k \in 1..Len(t) : t[k] \in StepType
  BY SeqFacts
<1>2. <<x>> \in Seq(StepType) /\ Len(<<x>>) = 1 /\ <<x>>[1] = x
  OBVIOUS
<1>3. /\ u \in Seq(StepType) /\ Len(u) = 1 + Len(t)
      /\ \A k \in 1..(1 + Len(t)) : u[k] = IF k <= 1 THEN <<x>>[k] ELSE t[k - 1]
  BY <1>2, ConcatProperties
<1> HIDE DEF u
<1>4. u[1] = x /\ 1 \in 1..Len(u)
  BY <1>1, <1>2, <1>3
<1>5. \A k \in 1..Len(u) : k # 1 => k - 1 \in 1..Len(t) /\ u[k] = t[k - 1]
  BY <1>1, <1>3
<1>6. \A k \in 1..Len(t) : k + 1 \in 1..Len(u) /\ u[k + 1] = t[k]
  <2> SUFFICES ASSUME NEW k \in 1..Len(t)
               PROVE  k + 1 \in 1..Len(u) /\ u[k + 1] = t[k]
    OBVIOUS
  <2>1. k + 1 \in 1..Len(u) /\ k + 1 # 1 /\ (k + 1) - 1 = k
    BY <1>1, <1>3
  <2> QED  BY <1>5, <2>1
<1>7. \A k \in 1..Len(u) : StepOK(u[k], o)
  BY <1>4, <1>5 DEF Proper
<1>8. ASSUME NEW k \in 1..Len(u), k # 1, NEW kind, NEW of, Reads(u[k], o, kind, of),
             \A j \in 2..k-1 : ~Sets(u[j], o, kind, of)
      PROVE  Relies(t, o, kind, of)
  <2>1. k - 1 \in 1..Len(t) /\ Reads(t[k - 1], o, kind, of)
    BY <1>5, <1>8
  <2>2. \A j \in 1..(k-1)-1 : ~Sets(t[j], o, kind, of)
    <3> SUFFICES ASSUME NEW j \in 1..(k-1)-1
                 PROVE  ~Sets(t[j], o, kind, of)
      OBVIOUS
    <3>1. j + 1 \in 2..k-1 /\ j \in 1..Len(t)
      BY <1>1, <2>1
    <3> QED  BY <1>6, <1>8, <3>1
  <2> QED  BY <2>1, <2>2 DEF Relies
<1>9. Calm(u, o)
  <2> SUFFICES ASSUME NEW i \in 1..Len(u), NEW k \in 1..Len(u), NEW kind, NEW of,
                      i < k, Upsets(u[i], o, kind, of), Reads(u[k], o, kind, of)
               PROVE  \E j \in i+1..k-1 : Sets(u[j], o, kind, of)
    BY DEF Calm
  <2>1. CASE i = 1
    <3>1. k # 1 /\ Upsets(x, o, kind, of)
      BY <1>4, <2>1
    <3>2. ~Relies(t, o, kind, of)
      BY <3>1
    <3>3. \E j \in 2..k-1 : Sets(u[j], o, kind, of)
      BY <1>8, <3>1, <3>2
    <3> QED  BY <2>1, <3>3
  <2>2. CASE i # 1
    <3>1. i - 1 \in 1..Len(t) /\ k - 1 \in 1..Len(t) /\ i - 1 < k - 1
      BY <1>5, <2>2
    <3>2. Upsets(t[i - 1], o, kind, of) /\ Reads(t[k - 1], o, kind, of)
      BY <1>5, <2>2
    <3>3. PICK j \in (i-1)+1..(k-1)-1 : Sets(t[j], o, kind, of)
      BY <3>1, <3>2 DEF Proper, Calm
    <3>4. j + 1 \in i+1..k-1 /\ j \in 1..Len(t)
      BY <1>1, <3>1, <3>3
    <3> QED  BY <1>6, <3>3, <3>4
  <2> QED  BY <2>1, <2>2
<1>10. ASSUME NEW kind, NEW of, Relies(u, o, kind, of)
       PROVE  Reads(x, o, kind, of) \/ (Relies(t, o, kind, of) /\ ~Sets(x, o, kind, of))
  <2>1. PICK k \in 1..Len(u) :
             Reads(u[k], o, kind, of) /\ \A i \in 1..k-1 : ~Sets(u[i], o, kind, of)
    BY <1>10 DEF Relies
  <2>2. CASE k = 1
    BY <1>4, <2>1, <2>2
  <2>3. CASE k # 1
    <3>1. 1 \in 1..k-1 /\ \A j \in 2..k-1 : j \in 1..k-1
      BY <1>3, <2>1, <2>3
    <3>2. ~Sets(x, o, kind, of) /\ \A j \in 2..k-1 : ~Sets(u[j], o, kind, of)
      BY <1>4, <2>1, <3>1
    <3> QED  BY <1>8, <2>1, <2>3, <3>2
  <2> QED  BY <2>2, <2>3
<1> QED  BY <1>3, <1>7, <1>9, <1>10 DEF u, Proper

-----------------------------------------------------------------------------
(* What the programs rely on, point by point.                              *)

Bound(o, device) ==
    /\ ~(device = "p3" /\ o.split)
    /\ \/ device = RootName(o)
       \/ HasBoot(o) /\ device = BootName(o)
       \/ Partitioned(o) /\ device = "install"
       \/ Partitioned(o) /\ o.layout = "cgpt" /\ device = "p1"

(* What is relied on at the points of the programs, each named for the     *)
(* step that is next.                                                      *)
Needs(point, o, kind, of) ==
    \/ /\ kind = "node"
       /\ \/ /\ point \in {"bound", "root", "boot", "fstab", "crypttab", "copy", "fill"}
             /\ Bound(o, of)
          \/ point = "root" /\ o.fde /\ of = "pm_crypt"
          \/ point = "bind last" /\ Bound(o, of) /\ (of = BootName(o) \/ of # "p1")
          \/ point = "bind boot" /\ Bound(o, of) /\ of \in {RootName(o), "install"}
          \/ point = "parts" /\ o.split /\ Bound(o, of)
          \/ point = "parts" /\ ~o.split /\ of = "install"
          \/ point \in {"losetup root", "bind root"} /\ of = "p1"
          \/ point = "disk" /\ o.disk # None /\ of = "install"
    \/ /\ kind = "fresh"
       /\ \/ /\ point \in {"truncate", "truncate root", "losetup", "bind", "losetup root",
                           "bind root", "parts", "bind boot", "bind last", "bound", "root",
                           "boot", "fstab", "crypttab", "copy", "fill"}
             /\ o.disk = None /\ of \in ImageNames
          \/ point = "remove root" /\ of \in {"full", "boot"}
          \/ point = "remove boot" /\ of = "full"
    \/ /\ kind = "attached"
       /\ \/ point = "bind" /\ o.split /\ of = "boot"
          \/ point = "bind" /\ ~o.split /\ of = "full"
          \/ point = "bind root" /\ of = "root"
          \/ point \in {"image", "mount"} /\ of = "full"
    \/ /\ kind = "there"
       /\ \/ point = "truncate root" /\ of = "boot"
          \/ point = "losetup" /\ o.split /\ of \in {"boot", "root"}
          \/ point = "losetup" /\ ~o.split /\ of = "full"
          \/ point \in {"bind", "losetup root"} /\ o.split /\ of = "root"
          \/ /\ point \in {"bind", "losetup root", "bind root", "parts", "bind boot", "bind last",
                           "bound", "root", "boot", "fstab", "crypttab", "copy", "fill", "flash"}
             /\ of \in Named(o)
          \/ point \in {"chroot", "loop"} /\ of = "full"
    \/ /\ kind = "is"
       /\ \/ of = "kept" /\ point = "kept" /\ o.disk # None
          \/ of = "empty" /\ point \in {"disk empty", "remove", "remove boot", "remove root",
                                        "truncate", "truncate root", "losetup", "bind",
                                        "image", "loop"}
          \/ of = "rootmount" /\ point \in {"boot", "fstab", "crypttab", "copy"}
          \/ of = "bootmount" /\ point \in {"fstab", "crypttab", "copy"} /\ HasBoot(o)
          \/ of = "bootid" /\ point \in {"crypttab", "copy", "fill", "flash"}
          \/ of = "rootid" /\ point \in {"copy", "fill", "flash"}
          \/ of \in {"rootfiles", "bootfiles"} /\ point \in {"fill", "flash"}
          \/ of = "kernel" /\ point = "flash" /\ Partitioned(o) /\ o.layout = "cgpt"
          \/ of = "crypt" /\ point = "delete"

Runs(s, o, point) ==
    /\ s \in Seq(StepType) /\ Proper(s, o)
    /\ \A kind, of : Relies(s, o, kind, of) => Needs(point, o, kind, of)

(* s takes a program from point p to point q. *)
Piece(s, o, p, q) ==
    s \in Seq(StepType) /\ \A t : Runs(t, o, q) => Runs(s \o t, o, p)

(* Step x takes a program from point p to point q. *)
Leads(x, o, p, q) ==
    /\ StepOK(x, o)
    /\ \A kind, of : Needs(q, o, kind, of) =>
          ~Upsets(x, o, kind, of) /\ (Sets(x, o, kind, of) \/ Needs(p, o, kind, of))
    /\ \A kind, of : Reads(x, o, kind, of) => Needs(p, o, kind, of)

LEMMA OneStep ==
    ASSUME NEW x \in StepType, NEW o, NEW p, NEW q, Leads(x, o, p, q)
    PROVE  Piece(<<x>>, o, p, q)
<1>1. <<x>> \in Seq(StepType)
  OBVIOUS
<1>2. ASSUME NEW t, Runs(t, o, q)
      PROVE  Runs(<<x>> \o t, o, p)
  <2>1. /\ t \in Seq(StepType) /\ Proper(t, o)
        /\ \A kind, of : Relies(t, o, kind, of) => Needs(q, o, kind, of)
    BY <1>2 DEF Runs
  <2>2. StepOK(x, o) /\ \A kind, of : Relies(t, o, kind, of) => ~Upsets(x, o, kind, of)
    BY <2>1 DEF Leads
  <2>3. /\ <<x>> \o t \in Seq(StepType) /\ Proper(<<x>> \o t, o)
        /\ \A kind, of : Relies(<<x>> \o t, o, kind, of) =>
              \/ Reads(x, o, kind, of)
              \/ Relies(t, o, kind, of) /\ ~Sets(x, o, kind, of)
    BY <2>1, <2>2, Prepend
  <2>4. \A kind, of : Relies(<<x>> \o t, o, kind, of) => Needs(p, o, kind, of)
    BY <2>1, <2>3 DEF Leads
  <2> QED  BY <2>3, <2>4 DEF Runs
<1> QED  BY <1>1, <1>2 DEF Piece

LEMMA NoStep ==
    ASSUME NEW o, NEW p, NEW q, \A kind, of : Needs(q, o, kind, of) => Needs(p, o, kind, of)
    PROVE  Piece(<<>>, o, p, q)
<1>1. <<>> \in Seq(StepType) /\ \A t \in Seq(StepType) : <<>> \o t = t
  OBVIOUS
<1> QED  BY <1>1 DEF Piece, Runs

LEMMA Then ==
    ASSUME NEW r, NEW s, NEW o, NEW p, NEW q, NEW k, Piece(r, o, p, q), Piece(s, o, q, k)
    PROVE  Piece(r \o s, o, p, k)
<1>1. r \in Seq(StepType) /\ s \in Seq(StepType) /\ r \o s \in Seq(StepType)
  BY ConcatProperties DEF Piece
<1>2. ASSUME NEW t, Runs(t, o, k)
      PROVE  Runs((r \o s) \o t, o, p)
  <2>1. Runs(r \o (s \o t), o, p)
    BY <1>2 DEF Piece
  <2>2. (r \o s) \o t = r \o (s \o t)
    BY <1>1, <1>2 DEF Runs
  <2> QED  BY <2>1, <2>2
<1> QED  BY <1>1, <1>2 DEF Piece

LEMMA Either ==
    ASSUME NEW c \in BOOLEAN, NEW s, NEW o, NEW p, NEW q,
           c => Piece(s, o, p, q),
           ~c => \A kind, of : Needs(q, o, kind, of) => Needs(p, o, kind, of)
    PROVE  Piece(When(c, s), o, p, q)
<1>1. CASE c
  BY <1>1 DEF When
<1>2. CASE ~c
  <2>1. Piece(<<>>, o, p, q)
    BY <1>2, NoStep
  <2> QED  BY <1>2, <2>1 DEF When
<1> QED  BY <1>1, <1>2

LEMMA Two ==
    ASSUME NEW a \in StepType, NEW b \in StepType
    PROVE  <<a, b>> = <<a>> \o <<b>>
<1> DEFINE u == <<a>> \o <<b>>
<1>1. u \in Seq(StepType) /\ Len(u) = 2 /\ u[1] = a /\ u[2] = b
  BY ConcatProperties
<1> HIDE DEF u
<1>2. <<a, b>> \in Seq(StepType) /\ Len(<<a, b>>) = 2
  OBVIOUS
<1>3. <<a, b>> = u
  BY <1>1, <1>2, SeqEqual
<1> QED  BY <1>3 DEF u

LEMMA Three ==
    ASSUME NEW a \in StepType, NEW b \in StepType, NEW c \in StepType
    PROVE  <<a, b, c>> = <<a, b>> \o <<c>>
<1> DEFINE u == <<a, b>> \o <<c>>
<1>1. u \in Seq(StepType) /\ Len(u) = 3 /\ u[1] = a /\ u[2] = b /\ u[3] = c
  BY ConcatProperties
<1> HIDE DEF u
<1>2. <<a, b, c>> \in Seq(StepType) /\ Len(<<a, b, c>>) = 3
  OBVIOUS
<1>3. <<a, b, c>> = u
  BY <1>1, <1>2, SeqEqual
<1> QED  BY <1>3 DEF u

LEMMA Five ==
    ASSUME NEW a \in StepType, NEW b \in StepType, NEW c \in StepType,
           NEW d \in StepType, NEW e \in StepType
    PROVE  <<a, b, c, d, e>> = <<a, b, c>> \o <<d, e>>
<1> DEFINE u == <<a, b, c>> \o <<d, e>>
<1>1. u \in Seq(StepType) /\ Len(u) = 5
      /\ u[1] = a /\ u[2] = b /\ u[3] = c /\ u[4] = d /\ u[5] = e
  BY ConcatProperties
<1> HIDE DEF u
<1>2. <<a, b, c, d, e>> \in Seq(StepType) /\ Len(<<a, b, c, d, e>>) = 5
  OBVIOUS
<1>3. <<a, b, c, d, e>> = u
  BY <1>1, <1>2, SeqEqual
<1> QED  BY <1>3 DEF u

LEMMA StepTyped ==
    ASSUME NEW op \in Ops, NEW arg \in Args
    PROVE  Step(op, arg) \in StepType
  BY DEF Step, StepType

(* What "order is important!" is about: ReleaseSteps in front of steps t   *)
(* that rely on nothing that is released.                                  *)
LEMMA Release ==
    ASSUME NEW t \in Seq(StepType), NEW o, Proper(t, o),
           \A of : /\ ~Relies(t, o, "node", of) /\ ~Relies(t, o, "fresh", of)
                   /\ ~Relies(t, o, "attached", of),
           ~Relies(t, o, "is", "rootmount"), ~Relies(t, o, "is", "bootmount"),
           ~Relies(t, o, "is", "kept")
    PROVE  /\ ReleaseSteps \in Seq(StepType)
           /\ ReleaseSteps \o t \in Seq(StepType) /\ Proper(ReleaseSteps \o t, o)
           /\ \A kind, of : Relies(ReleaseSteps \o t, o, kind, of) =>
                 Relies(t, o, kind, of) /\ ~(kind = "is" /\ of \in {"mnt", "crypt", "loops"})
<1> DEFINE a == Step("umount_mnt", "install")
           b == Step("close_crypt", "pm_crypt")
           c == Step("detach_all", "loops")
           t1 == <<c>> \o t
           t2 == <<b>> \o t1
           t3 == <<a>> \o t2
<1>1. a \in StepType /\ b \in StepType /\ c \in StepType
  BY StepTyped DEF Ops, Args, Devices, Names
<1>2. /\ a.op = "umount_mnt" /\ a.arg = "install" /\ b.op = "close_crypt" /\ b.arg = "pm_crypt"
      /\ c.op = "detach_all" /\ c.arg = "loops"
  BY StepFacts
<1>3. ReleaseSteps \o t = t3 /\ ReleaseSteps \in Seq(StepType)
  <2>1. ReleaseSteps = (<<a>> \o <<b>>) \o <<c>>
    BY <1>1, Two, Three DEF ReleaseSteps
  <2>2. <<a>> \in Seq(StepType) /\ <<b>> \in Seq(StepType) /\ <<c>> \in Seq(StepType)
    BY <1>1
  <2> HIDE DEF a, b, c
  <2> QED  BY <2>1, <2>2
<1> HIDE DEF a, b, c
<1>4. StepOK(a, o) /\ StepOK(b, o) /\ StepOK(c, o)
  BY <1>2 DEF StepOK
<1>5. /\ t1 \in Seq(StepType) /\ Proper(t1, o)
      /\ \A kind, of : Relies(t1, o, kind, of) =>
            Relies(t, o, kind, of) /\ ~(kind = "is" /\ of = "loops")
  <2>1. \A kind, of : Relies(t, o, kind, of) => ~Upsets(c, o, kind, of)
    BY <1>2 DEF Upsets
  <2>2. \A kind, of : ~Reads(c, o, kind, of)
    BY <1>2 DEF Reads, Uses
  <2>3. Sets(c, o, "is", "loops")
    BY <1>2 DEF Sets
  <2> QED  BY <1>1, <1>4, <2>1, <2>2, <2>3, Prepend
<1> HIDE DEF t1
<1>6. /\ t2 \in Seq(StepType) /\ Proper(t2, o)
      /\ \A kind, of : Relies(t2, o, kind, of) =>
            Relies(t1, o, kind, of) /\ ~(kind = "is" /\ of = "crypt")
  <2>1. \A kind, of : Relies(t1, o, kind, of) => ~Upsets(b, o, kind, of)
    BY <1>2, <1>5 DEF Upsets
  <2>2. \A kind, of : ~Reads(b, o, kind, of)
    BY <1>2 DEF Reads, Uses
  <2>3. Sets(b, o, "is", "crypt")
    BY <1>2 DEF Sets
  <2> QED  BY <1>1, <1>4, <1>5, <2>1, <2>2, <2>3, Prepend
<1> HIDE DEF t2
<1>7. /\ t3 \in Seq(StepType) /\ Proper(t3, o)
      /\ \A kind, of : Relies(t3, o, kind, of) =>
            Relies(t2, o, kind, of) /\ ~(kind = "is" /\ of = "mnt")
  <2>1. \A kind, of : Relies(t2, o, kind, of) => ~Upsets(a, o, kind, of)
    BY <1>2, <1>5, <1>6 DEF Upsets
  <2>2. \A kind, of : ~Reads(a, o, kind, of)
    BY <1>2 DEF Reads, Uses
  <2>3. Sets(a, o, "is", "mnt")
    BY <1>2 DEF Sets
  <2> QED  BY <1>1, <1>4, <1>6, <2>1, <2>2, <2>3, Prepend
<1> HIDE DEF t3
<1> QED  BY <1>3, <1>5, <1>6, <1>7

-----------------------------------------------------------------------------
(* The programs rely on nothing but, for the image chroot, the image.      *)

LEMMA FillPiece ==
    ASSUME NEW o \in Options, Accepted(o), Sane(o)
    PROVE  Piece(FillSteps(o), o, "copy", "flash")
<1>1. Piece(<<Step("copy", "files")>>, o, "copy", "fill")
  <2>1. Step("copy", "files") \in StepType
    BY StepTyped DEF Ops, Args
  <2>2. Leads(Step("copy", "files"), o, "copy", "fill")
    BY DEF Leads, Step, StepOK, Needs, Reads, Uses, Sets, Upsets, HasBoot
  <2> QED  BY <2>1, <2>2, OneStep
<1>2. Piece(When(Partitioned(o), <<Step("embed_firmware", "install")>>), o, "fill", "fill")
  <2>1. Step("embed_firmware", "install") \in StepType
    BY StepTyped DEF Ops, Args, Devices, Names
  <2>2. ASSUME Partitioned(o)
        PROVE  Leads(Step("embed_firmware", "install"), o, "fill", "fill")
    BY <2>2 DEF Leads, Step, StepOK, Needs, Reads, Uses, Sets, Upsets, Bound, UnitNamed,
        StoreOfImage, Names, ImageNames, Partitioned
  <2>3. (Partitioned(o)) => Piece(<<Step("embed_firmware", "install")>>, o, "fill", "fill")
    BY <2>1, <2>2, OneStep
  <2>4. \A kind, of : Needs("fill", o, kind, of) => Needs("fill", o, kind, of)
    OBVIOUS
  <2>5. (Partitioned(o)) \in BOOLEAN
    BY DEF Partitioned
  <2> QED  BY <2>3, <2>4, <2>5, Either
<1>3. Piece(When(Partitioned(o) /\ o.layout = "cgpt", <<Step("write_kpart", "p1")>>), o, "fill", "flash")
  <2>1. Step("write_kpart", "p1") \in StepType
    BY StepTyped DEF Ops, Args, Devices, Names
  <2>2. ASSUME Partitioned(o) /\ o.layout = "cgpt"
        PROVE  Leads(Step("write_kpart", "p1"), o, "fill", "flash")
    BY <2>2 DEF Leads, Step, StepOK, Needs, Reads, Uses, Sets, Upsets, Bound, UnitNamed,
        StoreOfImage, Names, ImageNames, Partitioned
  <2>3. (Partitioned(o) /\ o.layout = "cgpt") => Piece(<<Step("write_kpart", "p1")>>, o, "fill", "flash")
    BY <2>1, <2>2, OneStep
  <2>4. ~(Partitioned(o) /\ o.layout = "cgpt") => \A kind, of : Needs("flash", o, kind, of) =>
        Needs("fill", o, kind, of)
    BY DEF Needs
  <2>5. (Partitioned(o) /\ o.layout = "cgpt") \in BOOLEAN
    BY DEF Partitioned
  <2> QED  BY <2>3, <2>4, <2>5, Either
<1>4. Piece(When(~o.single /\ o.layout = "prep", <<Step("grub_install", "loop0p1")>>), o, "flash", "flash")
  <2>1. Step("grub_install", "loop0p1") \in StepType
    BY StepTyped DEF Ops, Args
  <2>2. ASSUME ~o.single /\ o.layout = "prep"
        PROVE  Leads(Step("grub_install", "loop0p1"), o, "flash", "flash")
    BY <2>2 DEF Leads, Step, StepOK, Needs, Reads, Uses, Sets, Upsets
  <2>3. (~o.single /\ o.layout = "prep") => Piece(<<Step("grub_install", "loop0p1")>>, o, "flash", "flash")
    BY <2>1, <2>2, OneStep
  <2>4. \A kind, of : Needs("flash", o, kind, of) => Needs("flash", o, kind, of)
    OBVIOUS
  <2>5. (~o.single /\ o.layout = "prep") \in BOOLEAN
    BY DEF Options
  <2> QED  BY <2>3, <2>4, <2>5, Either
<1> DEFINE a == <<Step("copy", "files")>>
           b == When(Partitioned(o), <<Step("embed_firmware", "install")>>)
           c == When(Partitioned(o) /\ o.layout = "cgpt", <<Step("write_kpart", "p1")>>)
           d == When(~o.single /\ o.layout = "prep", <<Step("grub_install", "loop0p1")>>)
<1>5. FillSteps(o) = ((a \o b) \o c) \o d
  BY DEF FillSteps
<1> HIDE DEF a, b, c, d
<1>6. Piece(a, o, "copy", "fill") /\ Piece(b, o, "fill", "fill")
      /\ Piece(c, o, "fill", "flash") /\ Piece(d, o, "flash", "flash")
  BY <1>1, <1>2, <1>3, <1>4 DEF a, b, c, d
<1>7. Piece(a \o b, o, "copy", "fill")
  BY <1>6, Then
<1>8. Piece((a \o b) \o c, o, "copy", "flash")
  BY <1>6, <1>7, Then
<1> QED  BY <1>5, <1>6, <1>8, Then

LEMMA FstabPiece ==
    ASSUME NEW o \in Options, Accepted(o), Sane(o)
    PROVE  Piece(FstabSteps(o), o, "fstab", "copy")
<1> DEFINE q == IF o.fde THEN "crypttab" ELSE "copy"
<1>1. Piece(<<Step("create_fstab", "fstab")>>, o, "fstab", q)
  <2>1. Step("create_fstab", "fstab") \in StepType
    BY StepTyped DEF Ops, Args
  <2>2. CASE o.fde
    <3>1. Leads(Step("create_fstab", "fstab"), o, "fstab", "crypttab")
      BY <2>2 DEF Leads, Step, StepOK, Needs, Reads, Uses, Sets, Upsets, Bound, UnitNamed,
                  StoreOfImage, Names, ImageNames
    <3> QED  BY <2>1, <2>2, <3>1, OneStep
  <2>3. CASE ~o.fde
    <3>1. Leads(Step("create_fstab", "fstab"), o, "fstab", "copy")
      BY <2>3 DEF Leads, Step, StepOK, Needs, Reads, Uses, Sets, Upsets, Bound, UnitNamed,
                  StoreOfImage, Names, ImageNames
    <3> QED  BY <2>1, <2>3, <3>1, OneStep
  <2> QED  BY <2>2, <2>3
<1>2. Piece(When(o.fde, <<Step("create_crypttab", "crypttab")>>), o, q, "copy")
  <2>1. Step("create_crypttab", "crypttab") \in StepType
    BY StepTyped DEF Ops, Args
  <2>2. Leads(Step("create_crypttab", "crypttab"), o, "crypttab", "copy")
    BY DEF Leads, Step, StepOK, Needs, Reads, Uses, Sets, Upsets, Bound, UnitNamed,
           StoreOfImage, Names, ImageNames
  <2>3. o.fde => Piece(<<Step("create_crypttab", "crypttab")>>, o, q, "copy")
    BY <2>1, <2>2, OneStep
  <2>4. ~o.fde => \A kind, of : Needs("copy", o, kind, of) => Needs(q, o, kind, of)
    OBVIOUS
  <2>5. o.fde \in BOOLEAN
    BY DEF Options
  <2> HIDE DEF q
  <2> QED  BY <2>3, <2>4, <2>5, Either
<1> HIDE DEF q
<1> QED  BY <1>1, <1>2, Then DEF FstabSteps

LEMMA FormatPiece ==
    ASSUME NEW o \in Options, Accepted(o), Sane(o)
    PROVE  Piece(FormatSteps(o), o, "bound", "fstab")
<1> DEFINE device == IF o.fde THEN "pm_crypt" ELSE RootName(o)
           q == IF o.fde THEN "root" ELSE "bound"
<1>1. RootName(o) \in Names /\ BootName(o) \in Names /\ device \in Devices
  BY DEF RootName, BootName, Names, Devices
<1>2. Piece(When(o.fde, <<Step("luks", RootName(o))>>), o, "bound", "root")
  <2>1. Step("luks", RootName(o)) \in StepType
    BY <1>1, StepTyped DEF Ops, Args, Devices
  <2>2. Leads(Step("luks", RootName(o)), o, "bound", "root")
    BY DEF Leads, Step, StepOK, Needs, Reads, Uses, Sets, Upsets, Sane,
           Partitioned, HasBoot, BootName, RootName, Bound, UnitNamed, StoreOfImage, PartOf,
           Names, ImageNames
  <2>3. o.fde => Piece(<<Step("luks", RootName(o))>>, o, "bound", "root")
    BY <2>1, <2>2, OneStep
  <2>4. ~o.fde => \A kind, of : Needs("root", o, kind, of) => Needs("bound", o, kind, of)
    BY DEF Needs
  <2>5. o.fde \in BOOLEAN
    BY DEF Options
  <2> QED  BY <2>3, <2>4, <2>5, Either
<1>3. Piece(FormatAndMountRoot(o), o, "root", "boot")
  <2>1. Step("format", device) \in StepType /\ Step("mount_root", device) \in StepType
    BY <1>1, StepTyped DEF Ops, Args
  <2>2. Leads(Step("format", device), o, "root", "root")
    BY DEF Leads, Step, StepOK, Needs, Reads, Uses, Sets, Upsets, Sane,
           Partitioned, HasBoot, BootName, RootName, Bound, UnitNamed, StoreOfImage, PartOf,
           Names, ImageNames
  <2>3. Leads(Step("mount_root", device), o, "root", "boot")
    BY DEF Leads, Step, StepOK, Needs, Reads, Uses, Sets, Upsets, Sane,
           Partitioned, HasBoot, BootName, RootName, Bound, UnitNamed, StoreOfImage, PartOf,
           Names, ImageNames
  <2>4. FormatAndMountRoot(o) = <<Step("format", device)>> \o <<Step("mount_root", device)>>
    BY <2>1, Two DEF FormatAndMountRoot
  <2> HIDE DEF device
  <2>5. /\ Piece(<<Step("format", device)>>, o, "root", "root")
        /\ Piece(<<Step("mount_root", device)>>, o, "root", "boot")
    BY <2>1, <2>2, <2>3, OneStep
  <2> QED  BY <2>4, <2>5, Then
<1>4. Piece(When(HasBoot(o), FormatAndMountBoot(o)), o, "boot", "fstab")
  <2>1. Step("format", BootName(o)) \in StepType /\ Step("mount_boot", BootName(o)) \in StepType
    BY <1>1, StepTyped DEF Ops, Args, Devices
  <2>2. ASSUME HasBoot(o)
        PROVE  Leads(Step("format", BootName(o)), o, "boot", "boot")
    BY <2>2 DEF Leads, Step, StepOK, Needs, Reads, Uses, Sets, Upsets, Sane,
           Partitioned, HasBoot, BootName, RootName, Bound, UnitNamed, StoreOfImage, PartOf,
           Names, ImageNames
  <2>3. ASSUME HasBoot(o)
        PROVE  Leads(Step("mount_boot", BootName(o)), o, "boot", "fstab")
    BY <2>3 DEF Leads, Step, StepOK, Needs, Reads, Uses, Sets, Upsets, Sane,
           Partitioned, HasBoot, BootName, RootName, Bound, UnitNamed, StoreOfImage, PartOf,
           Names, ImageNames
  <2>4. FormatAndMountBoot(o) = <<Step("format", BootName(o))>> \o <<Step("mount_boot", BootName(o))>>
    BY <2>1, Two DEF FormatAndMountBoot
  <2>5. HasBoot(o) => /\ Piece(<<Step("format", BootName(o))>>, o, "boot", "boot")
                      /\ Piece(<<Step("mount_boot", BootName(o))>>, o, "boot", "fstab")
    BY <2>1, <2>2, <2>3, OneStep
  <2>6. HasBoot(o) => Piece(FormatAndMountBoot(o), o, "boot", "fstab")
    BY <2>4, <2>5, Then
  <2>7. ~HasBoot(o) => \A kind, of : Needs("fstab", o, kind, of) => Needs("boot", o, kind, of)
    BY DEF Needs
  <2>8. HasBoot(o) \in BOOLEAN
    BY DEF HasBoot
  <2> QED  BY <2>6, <2>7, <2>8, Either
<1> HIDE DEF device
<1>5. Piece(When(o.fde, <<Step("luks", RootName(o))>>) \o FormatAndMountRoot(o), o, "bound", "boot")
  BY <1>2, <1>3, Then
<1> QED  BY <1>4, <1>5, Then DEF FormatSteps

LEMMA BindPartsPiece ==
    ASSUME NEW o \in Options, Accepted(o), Sane(o), Partitioned(o)
    PROVE  Piece(BindParts(o), o, "parts", "bound")
<1> DEFINE r == Step("bind_part", RootName(o))
           b == Step("bind_part", BootName(o))
           k == Step("bind_part", "p1")
           w == When(o.layout = "cgpt", <<k>>)
<1>1. RootName(o) \in Names /\ BootName(o) \in Names /\ "p1" \in Names
  BY DEF RootName, BootName, Names
<1>2. r \in StepType /\ b \in StepType /\ k \in StepType
  BY <1>1, StepTyped DEF Ops, Args, Devices
<1>3. Leads(r, o, "parts", "bind boot")
  BY DEF Leads, Step, StepOK, Needs, Reads, Uses, Sets, Upsets,
         Partitioned, HasBoot, BootName, RootName, Bound, UnitNamed, StoreOfImage, PartOf, Names,
         ImageNames
<1>4. Leads(b, o, "bind boot", "bind last")
  BY DEF Leads, Step, StepOK, Needs, Reads, Uses, Sets, Upsets,
         Partitioned, HasBoot, BootName, RootName, Bound, UnitNamed, StoreOfImage, PartOf, Names,
         ImageNames
<1>5. o.layout = "cgpt" => Leads(k, o, "bind last", "bound")
  BY DEF Leads, Step, StepOK, Needs, Reads, Uses, Sets, Upsets,
         Partitioned, HasBoot, BootName, RootName, Bound, UnitNamed, StoreOfImage, PartOf, Names,
         ImageNames
<1>6. o.layout # "cgpt" =>
         \A kind, of : Needs("bound", o, kind, of) => Needs("bind last", o, kind, of)
  BY DEF Needs, Bound, HasBoot, RootName, BootName, Partitioned
<1>7. BindParts(o) = (<<r>> \o <<b>>) \o w
  BY <1>2, Two DEF BindParts
<1> HIDE DEF r, b, k
<1>8. /\ Piece(<<r>>, o, "parts", "bind boot") /\ Piece(<<b>>, o, "bind boot", "bind last")
      /\ o.layout = "cgpt" => Piece(<<k>>, o, "bind last", "bound")
  BY <1>2, <1>3, <1>4, <1>5, OneStep
<1>9. Piece(w, o, "bind last", "bound")
  <2>1. (o.layout = "cgpt") \in BOOLEAN
    OBVIOUS
  <2> QED  BY <1>6, <1>8, <2>1, Either
<1>10. Piece(<<r>> \o <<b>>, o, "parts", "bind last")
  BY <1>8, Then
<1> HIDE DEF w
<1> QED  BY <1>7, <1>9, <1>10, Then

LEMMA NamedImages ==
    ASSUME NEW o \in Options, Accepted(o), NEW image \in Named(o)
    PROVE  /\ o.split => image = "boot" \/ image = "root"
           /\ ~o.split => image = "full"
           /\ o.disk = None \/ o.split
  BY DEF Named, Options, Accepted

LEMMA RemovePiece ==
    ASSUME NEW o \in Options, Accepted(o), Sane(o), NEW image \in ImageNames, NEW p, NEW q,
           Leads(Step("remove_image", image), o, p, q), Leads(Step("umount_mnt", image), o, p, p)
    PROVE  Piece(RemoveSteps(image), o, p, q)
<1> DEFINE a == Step("umount_mnt", image)
           b == Step("remove_image", image)
<1>1. a \in StepType /\ b \in StepType
  BY StepTyped DEF Ops, Args
<1>2. RemoveSteps(image) = <<a>> \o <<b>>
  BY <1>1, Two DEF RemoveSteps
<1>3. Piece(<<a>>, o, p, p) /\ Piece(<<b>>, o, p, q)
  BY <1>1, OneStep
<1> HIDE DEF a, b
<1> QED  BY <1>2, <1>3, Then

LEMMA ImagePiece ==
    ASSUME NEW o \in Options, NEW image \in ImageNames, NEW name \in Names, NEW p, NEW q, NEW r,
           Leads(Step("losetup", image), o, p, q), Leads(Step("bind_image", <<image, name>>), o, q, r)
    PROVE  Piece(ImageSteps(image, name), o, p, r)
<1> DEFINE a == Step("losetup", image)
           b == Step("bind_image", <<image, name>>)
<1>1. a \in StepType /\ b \in StepType
  BY StepTyped DEF Ops, Args
<1>2. ImageSteps(image, name) = <<a>> \o <<b>>
  BY <1>1, Two DEF ImageSteps
<1>3. Piece(<<a>>, o, p, q) /\ Piece(<<b>>, o, q, r)
  BY <1>1, OneStep
<1> HIDE DEF a, b
<1> QED  BY <1>2, <1>3, Then

LEMMA CreatePiece ==
    ASSUME NEW o \in Options, Accepted(o), Sane(o), o.disk = None
    PROVE  Piece(CreateSteps(o), o, "nothing", "parts")
<1> DEFINE a == <<Step("unbind", "install")>>
           b == RemoveSteps("full")
           c == RemoveSteps("boot")
           d == RemoveSteps("root")
           e == <<Step("check", "free space")>>
           f == <<Step("truncate", "boot"), Step("truncate", "root")>>
           g == ImageSteps("boot", "p1")
           h == ImageSteps("root", "p2")
           i == <<Step("truncate", "full")>>
           j == ImageSteps("full", "install")
           k == IF o.split THEN (f \o g) \o h ELSE i \o j
<1>1. Piece(a, o, "nothing", "remove")
  <2>1. Step("unbind", "install") \in StepType
    BY StepTyped DEF Ops, Args, Devices, Names
  <2>2. Leads(Step("unbind", "install"), o, "nothing", "remove")
    BY DEF Leads, Step, StepOK, Needs, Reads, Uses, Sets, Upsets, ImageNames
  <2> QED  BY <2>1, <2>2, OneStep
<1>2. Piece(b, o, "remove", "remove boot")
  <2>1. Leads(Step("remove_image", "full"), o, "remove", "remove boot")
    BY DEF Leads, Step, StepOK, Needs, Reads, Uses, Sets, Upsets, ImageNames
  <2>2. Leads(Step("umount_mnt", "full"), o, "remove", "remove")
    BY DEF Leads, Step, StepOK, Needs, Reads, Uses, Sets, Upsets, ImageNames
  <2> QED  BY <2>1, <2>2, RemovePiece DEF ImageNames
<1>3. Piece(c, o, "remove boot", "remove root")
  <2>1. Leads(Step("remove_image", "boot"), o, "remove boot", "remove root")
    BY DEF Leads, Step, StepOK, Needs, Reads, Uses, Sets, Upsets, ImageNames
  <2>2. Leads(Step("umount_mnt", "boot"), o, "remove boot", "remove boot")
    BY DEF Leads, Step, StepOK, Needs, Reads, Uses, Sets, Upsets, ImageNames
  <2> QED  BY <2>1, <2>2, RemovePiece DEF ImageNames
<1>4. Piece(d, o, "remove root", "truncate")
  <2>1. Leads(Step("remove_image", "root"), o, "remove root", "truncate")
    BY DEF Leads, Step, StepOK, Needs, Reads, Uses, Sets, Upsets, ImageNames
  <2>2. Leads(Step("umount_mnt", "root"), o, "remove root", "remove root")
    BY DEF Leads, Step, StepOK, Needs, Reads, Uses, Sets, Upsets, ImageNames
  <2> QED  BY <2>1, <2>2, RemovePiece DEF ImageNames
<1>5. Piece(e, o, "truncate", "truncate")
  <2>1. Step("check", "free space") \in StepType
    BY StepTyped DEF Ops, Args
  <2>2. Leads(Step("check", "free space"), o, "truncate", "truncate")
    BY DEF Leads, Step, StepOK, Needs, Reads, Uses, Sets, Upsets, ImageNames
  <2> QED  BY <2>1, <2>2, OneStep
<1>6. ASSUME o.split
      PROVE  Piece((f \o g) \o h, o, "truncate", "parts")
  <2>1. Step("truncate", "boot") \in StepType /\ Step("truncate", "root") \in StepType
    BY StepTyped DEF Ops, Args, ImageNames
  <2>2. ~o.single
    BY <1>6 DEF Sane
  <2>3. /\ Leads(Step("truncate", "boot"), o, "truncate", "truncate root")
        /\ Leads(Step("truncate", "root"), o, "truncate root", "losetup")
    BY <1>6, NamedImages DEF Leads, Step, StepOK, Needs, Reads, Uses, Sets, Upsets, ImageNames
  <2>4. f = <<Step("truncate", "boot")>> \o <<Step("truncate", "root")>>
    BY <2>1, Two
  <2>5. Piece(f, o, "truncate", "losetup")
    <3>1. /\ Piece(<<Step("truncate", "boot")>>, o, "truncate", "truncate root")
          /\ Piece(<<Step("truncate", "root")>>, o, "truncate root", "losetup")
      BY <2>1, <2>3, OneStep
    <3> HIDE DEF f
    <3> QED  BY <2>4, <3>1, Then
  <2>6. Piece(g, o, "losetup", "losetup root")
    <3>1. Leads(Step("losetup", "boot"), o, "losetup", "bind")
      BY <1>6, NamedImages DEF Leads, Step, StepOK, Needs, Reads, Uses, Sets, Upsets, ImageNames
    <3>2. Leads(Step("bind_image", <<"boot", "p1">>), o, "bind", "losetup root")
      BY <1>6, NamedImages DEF Leads, Step, StepOK, Needs, Reads, Uses, Sets, Upsets, ImageNames,
          UnitNamed, Names
    <3> QED  BY <3>1, <3>2, ImagePiece DEF ImageNames, Names
  <2>7. Piece(h, o, "losetup root", "parts")
    <3>1. Leads(Step("losetup", "root"), o, "losetup root", "bind root")
      BY <1>6, NamedImages DEF Leads, Step, StepOK, Needs, Reads, Uses, Sets, Upsets, ImageNames
    <3>2. Leads(Step("bind_image", <<"root", "p2">>), o, "bind root", "parts")
      BY <1>6, <2>2, NamedImages DEF Leads, Step, StepOK, Needs, Reads, Uses, Sets, Upsets,
          ImageNames, UnitNamed, Names, Bound, RootName, BootName,
                        HasBoot, Partitioned
    <3> QED  BY <3>1, <3>2, ImagePiece DEF ImageNames, Names
  <2> HIDE DEF f, g, h
  <2>8. Piece(f \o g, o, "truncate", "losetup root")
    BY <2>5, <2>6, Then
  <2> QED  BY <2>7, <2>8, Then
<1>7. ASSUME ~o.split
      PROVE  Piece(i \o j, o, "truncate", "parts")
  <2>1. Step("truncate", "full") \in StepType
    BY StepTyped DEF Ops, Args, ImageNames
  <2>2. Leads(Step("truncate", "full"), o, "truncate", "losetup")
    BY <1>7, NamedImages DEF Leads, Step, StepOK, Needs, Reads, Uses, Sets, Upsets, ImageNames
  <2>3. Piece(i, o, "truncate", "losetup")
    BY <2>1, <2>2, OneStep
  <2>4. Piece(j, o, "losetup", "parts")
    <3>1. Leads(Step("losetup", "full"), o, "losetup", "bind")
      BY <1>7, NamedImages DEF Leads, Step, StepOK, Needs, Reads, Uses, Sets, Upsets, ImageNames
    <3>2. Leads(Step("bind_image", <<"full", "install">>), o, "bind", "parts")
      BY <1>7, NamedImages DEF Leads, Step, StepOK, Needs, Reads, Uses, Sets, Upsets, ImageNames,
          UnitNamed, StoreOfImage, Names
    <3> QED  BY <3>1, <3>2, ImagePiece DEF ImageNames, Names
  <2> HIDE DEF i, j
  <2> QED  BY <2>3, <2>4, Then
<1>8. Piece(k, o, "truncate", "parts")
  <2> HIDE DEF f, g, h, i, j
  <2> QED  BY <1>6, <1>7
<1>9. CreateSteps(o) = ((((a \o b) \o c) \o d) \o e) \o k
  BY DEF CreateSteps
<1> HIDE DEF a, b, c, d, e, k
<1>10. Piece(a \o b, o, "nothing", "remove boot")
  BY <1>1, <1>2, Then
<1>11. Piece((a \o b) \o c, o, "nothing", "remove root")
  BY <1>3, <1>10, Then
<1>12. Piece(((a \o b) \o c) \o d, o, "nothing", "truncate")
  BY <1>4, <1>11, Then
<1>13. Piece((((a \o b) \o c) \o d) \o e, o, "nothing", "truncate")
  BY <1>5, <1>12, Then
<1> QED  BY <1>8, <1>9, <1>13, Then

LEMMA PreparePiece ==
    ASSUME NEW o \in Options, Accepted(o), Sane(o)
    PROVE  Piece(PrepareSteps(o), o, "disk", "bound")
<1> DEFINE a == When(~o.rsync /\ o.disk = None, CreateSteps(o))
           b == When(~o.rsync /\ Partitioned(o), <<Step("partition", o.layout)>>)
           c == When(Partitioned(o), BindParts(o))
<1>1. Piece(a, o, "disk", "parts")
  <2>1. CASE o.disk = None
    <3>1. ~o.rsync
      BY <2>1 DEF Sane
    <3>2. Piece(CreateSteps(o), o, "nothing", "parts")
      BY <2>1, CreatePiece
    <3>3. \A kind, of : Needs("nothing", o, kind, of) => Needs("disk", o, kind, of)
      BY DEF Needs
    <3>4. Piece(CreateSteps(o), o, "disk", "parts")
      BY <3>2, <3>3 DEF Piece, Runs
    <3> QED  BY <2>1, <3>1, <3>4 DEF When
  <2>2. CASE o.disk # None
    <3>1. ~o.split
      BY <2>2 DEF Accepted
    <3>2. \A kind, of : Needs("parts", o, kind, of) => Needs("disk", o, kind, of)
      BY <2>2, <3>1, NamedImages DEF Needs
    <3>3. Piece(<<>>, o, "disk", "parts")
      BY <3>2, NoStep
    <3> QED  BY <2>2, <3>3 DEF When
  <2> QED  BY <2>1, <2>2
<1>2. Piece(b, o, "parts", "parts")
  <2>1. Step("partition", o.layout) \in StepType
    BY StepTyped DEF Ops, Args, Options
  <2>2. ASSUME Partitioned(o)
        PROVE  Leads(Step("partition", o.layout), o, "parts", "parts")
    BY <2>2 DEF Leads, Step, StepOK, Needs, Reads, Uses, Sets, Upsets,
                Partitioned, HasBoot, BootName, RootName, Bound, UnitNamed, StoreOfImage, PartOf,
                Names, ImageNames
  <2>3. Partitioned(o) => Piece(<<Step("partition", o.layout)>>, o, "parts", "parts")
    BY <2>1, <2>2, OneStep
  <2>4. Piece(<<>>, o, "parts", "parts")
    BY NoStep
  <2> QED  BY <2>3, <2>4 DEF When
<1>3. Piece(c, o, "parts", "bound")
  <2>1. Partitioned(o) => Piece(BindParts(o), o, "parts", "bound")
    BY BindPartsPiece
  <2>2. ~Partitioned(o) =>
           \A kind, of : Needs("bound", o, kind, of) => Needs("parts", o, kind, of)
    BY DEF Needs, Bound, HasBoot, RootName, Partitioned
  <2>3. ~Partitioned(o) => Piece(<<>>, o, "parts", "bound")
    BY <2>2, NoStep
  <2> QED  BY <2>1, <2>3 DEF When
<1>4. PrepareSteps(o) = (a \o b) \o c
  BY DEF PrepareSteps
<1> HIDE DEF a, b, c
<1>5. Piece(a \o b, o, "disk", "parts")
  BY <1>1, <1>2, Then
<1> QED  BY <1>3, <1>4, <1>5, Then

LEMMA SystemImagePiece ==
    ASSUME NEW o \in Options, Accepted(o), Sane(o)
    PROVE  Piece(SystemImageSteps(o), o, "disk", "flash")
<1> DEFINE a == PrepareSteps(o)
           b == FormatSteps(o)
           c == FstabSteps(o)
           d == FillSteps(o)
<1>1. /\ Piece(a, o, "disk", "bound") /\ Piece(b, o, "bound", "fstab")
      /\ Piece(c, o, "fstab", "copy") /\ Piece(d, o, "copy", "flash")
  BY PreparePiece, FormatPiece, FstabPiece, FillPiece
<1>2. Piece(ReleaseSteps, o, "flash", "flash")
  <2>1. ASSUME NEW t, Runs(t, o, "flash")
        PROVE  Runs(ReleaseSteps \o t, o, "flash")
    <3>1. /\ t \in Seq(StepType) /\ Proper(t, o)
          /\ \A kind, of : Relies(t, o, kind, of) => Needs("flash", o, kind, of)
      BY <2>1 DEF Runs
    <3>2. /\ \A of : /\ ~Needs("flash", o, "node", of) /\ ~Needs("flash", o, "fresh", of)
                     /\ ~Needs("flash", o, "attached", of)
          /\ ~Needs("flash", o, "is", "rootmount") /\ ~Needs("flash", o, "is", "bootmount")
          /\ ~Needs("flash", o, "is", "kept")
      BY DEF Needs
    <3>3. /\ \A of : /\ ~Relies(t, o, "node", of) /\ ~Relies(t, o, "fresh", of)
                     /\ ~Relies(t, o, "attached", of)
          /\ ~Relies(t, o, "is", "rootmount") /\ ~Relies(t, o, "is", "bootmount")
          /\ ~Relies(t, o, "is", "kept")
      BY <3>1, <3>2
    <3>4. /\ ReleaseSteps \o t \in Seq(StepType) /\ Proper(ReleaseSteps \o t, o)
          /\ \A kind, of : Relies(ReleaseSteps \o t, o, kind, of) => Relies(t, o, kind, of)
      BY <3>1, <3>3, Release
    <3> QED  BY <3>1, <3>4 DEF Runs
  <2>2. ReleaseSteps \in Seq(StepType)
    BY NothingLeft, Release
  <2> QED  BY <2>1, <2>2 DEF Piece
<1>3. SystemImageSteps(o) = (((a \o b) \o c) \o d) \o ReleaseSteps
  BY DEF SystemImageSteps
<1> HIDE DEF a, b, c, d
<1>4. Piece(a \o b, o, "disk", "fstab")
  BY <1>1, Then
<1>5. Piece((a \o b) \o c, o, "disk", "copy")
  BY <1>1, <1>4, Then
<1>6. Piece(((a \o b) \o c) \o d, o, "disk", "flash")
  BY <1>1, <1>5, Then
<1> QED  BY <1>2, <1>3, <1>6, Then

(* ShutdownSteps in front of steps t that rely on nothing shutdown takes.  *)
LEMMA Shutdown ==
    ASSUME NEW t \in Seq(StepType), NEW o, Proper(t, o),
           \A of : /\ ~Relies(t, o, "node", of) /\ ~Relies(t, o, "fresh", of)
                   /\ ~Relies(t, o, "attached", of),
           ~Relies(t, o, "is", "rootmount"), ~Relies(t, o, "is", "bootmount"),
           ~Relies(t, o, "is", "kept")
    PROVE  /\ ShutdownSteps \in Seq(StepType)
           /\ ShutdownSteps \o t \in Seq(StepType) /\ Proper(ShutdownSteps \o t, o)
           /\ \A kind, of : Relies(ShutdownSteps \o t, o, kind, of) =>
                 Relies(t, o, kind, of) /\ ~(kind = "is" /\ of \in {"empty", "crypt"})
<1> DEFINE a == Step("umount_work", "all")
           b == Step("shutdown_complete", "all")
           t1 == <<b>> \o t
           t2 == <<a>> \o t1
<1>1. a \in StepType /\ b \in StepType
  BY StepTyped DEF Ops, Args
<1>2. a.op = "umount_work" /\ b.op = "shutdown_complete"
  BY StepFacts
<1>3. ReleaseSteps \in Seq(StepType)
  BY NothingLeft, Release
<1>4. ShutdownSteps \o t = ReleaseSteps \o t2 /\ ShutdownSteps \in Seq(StepType)
  <2>1. ShutdownSteps = ReleaseSteps \o (<<a>> \o <<b>>)
    BY <1>1, Two DEF ShutdownSteps
  <2>2. <<a>> \in Seq(StepType) /\ <<b>> \in Seq(StepType)
    BY <1>1
  <2> HIDE DEF a, b
  <2> QED  BY <1>3, <2>1, <2>2
<1> HIDE DEF a, b
<1>5. StepOK(a, o) /\ StepOK(b, o)
  BY <1>2 DEF StepOK
<1>6. /\ t1 \in Seq(StepType) /\ Proper(t1, o)
      /\ \A kind, of : Relies(t1, o, kind, of) =>
            \/ Relies(t, o, kind, of)
            \/ kind = "is" /\ of \in {"mnt", "crypt", "loops", "work"}
  <2>1. \A kind, of : ~Upsets(b, o, kind, of)
    BY <1>2 DEF Upsets
  <2>2. \A kind, of : Reads(b, o, kind, of) =>
           kind = "is" /\ of \in {"mnt", "crypt", "loops", "work"}
    BY <1>2 DEF Reads, Uses
  <2> QED  BY <1>1, <1>5, <2>1, <2>2, Prepend
<1> HIDE DEF t1
<1>7. /\ t2 \in Seq(StepType) /\ Proper(t2, o)
      /\ \A kind, of : Relies(t2, o, kind, of) =>
            /\ \/ Relies(t, o, kind, of)
               \/ kind = "is" /\ of \in {"mnt", "crypt", "loops"}
            /\ ~(kind = "is" /\ of \in {"work", "empty"})
  <2>1. \A kind, of : Relies(t1, o, kind, of) => ~Upsets(a, o, kind, of)
    BY <1>2, <1>6 DEF Upsets
  <2>2. \A kind, of : Reads(a, o, kind, of) => kind = "is" /\ of = "crypt"
    BY <1>2 DEF Reads, Uses
  <2>3. Sets(a, o, "is", "work") /\ Sets(a, o, "is", "empty")
    BY <1>2 DEF Sets
  <2> QED  BY <1>1, <1>5, <1>6, <2>1, <2>2, <2>3, Prepend
<1> HIDE DEF t2
<1>8. /\ \A of : /\ ~Relies(t2, o, "node", of) /\ ~Relies(t2, o, "fresh", of)
                 /\ ~Relies(t2, o, "attached", of)
      /\ ~Relies(t2, o, "is", "rootmount") /\ ~Relies(t2, o, "is", "bootmount")
      /\ ~Relies(t2, o, "is", "kept")
  BY <1>7
<1>9. /\ ReleaseSteps \o t2 \in Seq(StepType) /\ Proper(ReleaseSteps \o t2, o)
      /\ \A kind, of : Relies(ReleaseSteps \o t2, o, kind, of) =>
            Relies(t2, o, kind, of) /\ ~(kind = "is" /\ of \in {"mnt", "crypt", "loops"})
  BY <1>7, <1>8, Release
<1> QED  BY <1>4, <1>7, <1>9

LEMMA ShutdownPiece ==
    ASSUME NEW o, NEW p, NEW q,
           \A kind, of : Needs(q, o, kind, of) =>
              \/ kind = "is" /\ of \in {"empty", "crypt"}
              \/ kind = "there" /\ Needs(p, o, kind, of)
    PROVE  Piece(ShutdownSteps, o, p, q)
<1>1. ShutdownSteps \in Seq(StepType)
  BY NothingLeft, Shutdown
<1>2. ASSUME NEW t, Runs(t, o, q)
      PROVE  Runs(ShutdownSteps \o t, o, p)
  <2>1. /\ t \in Seq(StepType) /\ Proper(t, o)
        /\ \A kind, of : Relies(t, o, kind, of) => Needs(q, o, kind, of)
    BY <1>2 DEF Runs
  <2>2. /\ \A of : /\ ~Relies(t, o, "node", of) /\ ~Relies(t, o, "fresh", of)
                   /\ ~Relies(t, o, "attached", of)
        /\ ~Relies(t, o, "is", "rootmount") /\ ~Relies(t, o, "is", "bootmount")
        /\ ~Relies(t, o, "is", "kept")
    BY <2>1
  <2>3. /\ ShutdownSteps \o t \in Seq(StepType) /\ Proper(ShutdownSteps \o t, o)
        /\ \A kind, of : Relies(ShutdownSteps \o t, o, kind, of) =>
              Relies(t, o, kind, of) /\ ~(kind = "is" /\ of \in {"empty", "crypt"})
    BY <2>1, <2>2, Shutdown
  <2>4. \A kind, of : Relies(ShutdownSteps \o t, o, kind, of) => Needs(p, o, kind, of)
    BY <2>1, <2>3
  <2> QED  BY <2>3, <2>4 DEF Runs
<1> QED  BY <1>1, <1>2 DEF Piece

LEMMA NothingToPiece ==
    ASSUME NEW s, NEW o, NEW p, Piece(s, o, p, "nothing")
    PROVE  s \in Seq(StepType) /\ Proper(s, o) /\ \A kind, of : Relies(s, o, kind, of) => Needs(p, o, kind, of)
<1>1. Runs(<<>>, o, "nothing")
  BY NothingLeft DEF Runs
<1>2. s \in Seq(StepType) /\ Runs(s \o <<>>, o, p)
  BY <1>1 DEF Piece
<1>3. s \o <<>> = s
  BY <1>2
<1> QED  BY <1>2, <1>3 DEF Runs

LEMMA HandlePiece ==
    ASSUME NEW o \in Options, Accepted(o), Sane(o)
    PROVE  Piece(HandleDiskMount(o), o, "nothing", "kept")
<1> DEFINE a == Step("unbind", "install")
           b == Step("bind_disk", "install")
           c == Step("confirm", "disk")
<1>1. a \in StepType /\ b \in StepType /\ c \in StepType
  BY StepTyped DEF Ops, Args, Devices, Names
<1>2. Leads(a, o, "nothing", "disk empty")
  BY DEF Leads, Step, StepOK, Needs, Reads, Uses, Sets, Upsets, Named
<1>3. o.disk # None => Leads(b, o, "disk empty", "kept")
  BY DEF Leads, Step, StepOK, Needs, Reads, Uses, Sets, Upsets, Named, Accepted
<1>4. o.disk # None => Leads(c, o, "kept", "kept")
  BY DEF Leads, Step, StepOK, Needs, Reads, Uses, Sets, Upsets, Named, Accepted
<1>5. <<a, b, c>> = (<<a>> \o <<b>>) \o <<c>>
  BY <1>1, Two, Three
<1>6. HandleDiskMount(o) = When(o.disk # None, <<a, b, c>>)
  BY DEF HandleDiskMount
<1> HIDE DEF a, b, c
<1>7. /\ Piece(<<a>>, o, "nothing", "disk empty")
      /\ o.disk # None => /\ Piece(<<b>>, o, "disk empty", "kept")
                            /\ Piece(<<c>>, o, "kept", "kept")
  BY <1>1, <1>2, <1>3, <1>4, OneStep
<1>8. o.disk # None => Piece(<<a>> \o <<b>>, o, "nothing", "kept")
  BY <1>7, Then
<1>9. o.disk # None => Piece(<<a, b, c>>, o, "nothing", "kept")
  BY <1>5, <1>7, <1>8, Then
<1>10. o.disk = None => Piece(<<>>, o, "nothing", "kept")
  <2>1. o.disk = None => \A kind, of : Needs("kept", o, kind, of) => Needs("nothing", o, kind, of)
    BY DEF Needs
  <2> QED  BY <2>1, NoStep
<1> QED  BY <1>6, <1>9, <1>10 DEF When

LEMMA InstallRuns ==
    ASSUME NEW o \in Options, Accepted(o), Sane(o)
    PROVE  /\ InstallSteps(o) \in Seq(StepType) /\ Proper(InstallSteps(o), o)
           /\ \A kind, of : ~Relies(InstallSteps(o), o, kind, of)
<1> DEFINE a == SanityChecks(o)
           b == When(o.zap, ZapSteps)
           c == <<Step("init_native", "native")>>
           d == HandleDiskMount(o)
           e == <<Step("create_rootfs", "rootfs")>>
           f == (<<Step("ensure_native", "native")>> \o SystemImageSteps(o))
                   \o <<Step("flash_info", "done")>>
           g == When(o.image = "image", f)
           h == When(o.image = "zip", <<Step("recovery_zip", "zip")>>)
           q == IF o.image = "image" THEN "kept" ELSE "nothing"
<1>1. Piece(a, o, "nothing", "nothing")
  <2>1. Step("check", "boot size") \in StepType /\ Step("check", "disk") \in StepType
    BY StepTyped DEF Ops, Args
  <2>2. Leads(Step("check", "boot size"), o, "nothing", "nothing")
    BY DEF Leads, Step, StepOK, Needs, Reads, Uses, Sets, Upsets, Named
  <2>3. Leads(Step("check", "disk"), o, "nothing", "nothing")
    BY DEF Leads, Step, StepOK, Needs, Reads, Uses, Sets, Upsets, Named
  <2>4. /\ Piece(<<Step("check", "boot size")>>, o, "nothing", "nothing")
        /\ Piece(<<Step("check", "disk")>>, o, "nothing", "nothing")
    BY <2>1, <2>2, <2>3, OneStep
  <2>5. Piece(<<>>, o, "nothing", "nothing")
    BY NoStep
  <2>6. Piece(When(o.disk # None, <<Step("check", "disk")>>), o, "nothing", "nothing")
    BY <2>4, <2>5 DEF When
  <2> QED  BY <2>4, <2>6, Then DEF SanityChecks
<1>2. Piece(b, o, "nothing", "nothing")
  <2>1. \A kind, of : Needs("delete", o, kind, of) => kind = "is" /\ of = "crypt"
    BY DEF Needs
  <2>2. Piece(ShutdownSteps, o, "nothing", "delete")
    BY <2>1, ShutdownPiece
  <2>3. Step("delete_native", "native") \in StepType
    BY StepTyped DEF Ops, Args
  <2>4. Leads(Step("delete_native", "native"), o, "delete", "nothing")
    BY DEF Leads, Step, StepOK, Needs, Reads, Uses, Sets, Upsets, Named
  <2>5. Piece(<<Step("delete_native", "native")>>, o, "delete", "nothing")
    BY <2>3, <2>4, OneStep
  <2>6. Piece(ZapSteps, o, "nothing", "nothing")
    BY <2>2, <2>5, Then DEF ZapSteps
  <2>7. Piece(<<>>, o, "nothing", "nothing")
    BY NoStep
  <2> QED  BY <2>6, <2>7 DEF When
<1>3. Piece(c, o, "nothing", "nothing")
  <2>1. Step("init_native", "native") \in StepType
    BY StepTyped DEF Ops, Args
  <2>2. Leads(Step("init_native", "native"), o, "nothing", "nothing")
    BY DEF Leads, Step, StepOK, Needs, Reads, Uses, Sets, Upsets, Named
  <2> QED  BY <2>1, <2>2, OneStep
<1>4. Piece(d, o, "nothing", "kept")
  BY HandlePiece
<1>5. Piece(e, o, "kept", "kept")
  <2>1. Step("create_rootfs", "rootfs") \in StepType
    BY StepTyped DEF Ops, Args
  <2>2. Leads(Step("create_rootfs", "rootfs"), o, "kept", "kept")
    BY DEF Leads, Step, StepOK, Needs, Reads, Uses, Sets, Upsets, Named
  <2> QED  BY <2>1, <2>2, OneStep
<1>6. Piece(f, o, "kept", "nothing")
  <2>1. /\ Step("ensure_native", "native") \in StepType
        /\ Step("flash_info", "done") \in StepType
    BY StepTyped DEF Ops, Args
  <2>2. Leads(Step("ensure_native", "native"), o, "kept", "disk")
    BY DEF Leads, Step, StepOK, Needs, Reads, Uses, Sets, Upsets, Named, Accepted
  <2>3. Leads(Step("flash_info", "done"), o, "flash", "nothing")
    BY DEF Leads, Step, StepOK, Needs, Reads, Uses, Sets, Upsets, Named
  <2>4. /\ Piece(<<Step("ensure_native", "native")>>, o, "kept", "disk")
        /\ Piece(<<Step("flash_info", "done")>>, o, "flash", "nothing")
    BY <2>1, <2>2, <2>3, OneStep
  <2>5. Piece(<<Step("ensure_native", "native")>> \o SystemImageSteps(o), o, "kept", "flash")
    BY <2>4, SystemImagePiece, Then
  <2> QED  BY <2>4, <2>5, Then
<1>7. Piece(g, o, "kept", "nothing")
  <2>1. \A kind, of : ~Needs("nothing", o, kind, of)
    BY DEF Needs
  <2>2. Piece(<<>>, o, "kept", "nothing")
    BY <2>1, NoStep
  <2> HIDE DEF f
  <2> QED  BY <1>6, <2>2 DEF When
<1>8. Piece(h, o, "nothing", "nothing")
  <2>1. Step("recovery_zip", "zip") \in StepType
    BY StepTyped DEF Ops, Args
  <2>2. Leads(Step("recovery_zip", "zip"), o, "nothing", "nothing")
    BY DEF Leads, Step, StepOK, Needs, Reads, Uses, Sets, Upsets, Named
  <2>3. Piece(<<Step("recovery_zip", "zip")>>, o, "nothing", "nothing")
    BY <2>1, <2>2, OneStep
  <2>4. Piece(<<>>, o, "nothing", "nothing")
    BY NoStep
  <2> QED  BY <2>3, <2>4 DEF When
<1>9. InstallSteps(o) = (((((a \o b) \o c) \o d) \o e) \o g) \o h
  BY DEF InstallSteps
<1> HIDE DEF a, b, c, d, e, f, g, h, q
<1>10. Piece(a \o b, o, "nothing", "nothing")
  BY <1>1, <1>2, Then
<1>11. Piece((a \o b) \o c, o, "nothing", "nothing")
  BY <1>3, <1>10, Then
<1>12. Piece(((a \o b) \o c) \o d, o, "nothing", "kept")
  BY <1>4, <1>11, Then
<1>13. Piece((((a \o b) \o c) \o d) \o e, o, "nothing", "kept")
  BY <1>5, <1>12, Then
<1>14. Piece(((((a \o b) \o c) \o d) \o e) \o g, o, "nothing", "nothing")
  BY <1>7, <1>13, Then
<1>15. Piece(InstallSteps(o), o, "nothing", "nothing")
  BY <1>8, <1>9, <1>14, Then
<1>16. \A kind, of : ~Needs("nothing", o, kind, of)
  BY DEF Needs
<1> QED  BY <1>15, <1>16, NothingToPiece

LEMMA ShutdownRuns ==
    ASSUME NEW o
    PROVE  /\ ShutdownSteps \in Seq(StepType) /\ Proper(ShutdownSteps, o)
           /\ \A kind, of : ~Relies(ShutdownSteps, o, kind, of)
<1>1. \A kind, of : ~Needs("nothing", o, kind, of)
  BY DEF Needs
<1> QED  BY <1>1, ShutdownPiece, NothingToPiece

LEMMA QemuRuns ==
    ASSUME NEW o
    PROVE  /\ QemuSteps \in Seq(StepType) /\ Proper(QemuSteps, o)
           /\ \A kind, of : ~Relies(QemuSteps, o, kind, of)
<1> DEFINE a == Step("umount_image", "image")
           b == Step("detach_all", "loops")
           c == Step("run_qemu", "full")
<1>1. a \in StepType /\ b \in StepType /\ c \in StepType
  BY StepTyped DEF Ops, Args, ImageNames
<1>2. /\ Leads(a, o, "nothing", "nothing") /\ Leads(b, o, "nothing", "nothing")
      /\ Leads(c, o, "nothing", "nothing")
  BY DEF Leads, Step, StepOK, Needs, Reads, Uses, Sets, Upsets
<1>3. QemuSteps = (<<a>> \o <<b>>) \o <<c>>
  BY <1>1, Two, Three DEF QemuSteps
<1> HIDE DEF a, b, c
<1>4. /\ Piece(<<a>>, o, "nothing", "nothing") /\ Piece(<<b>>, o, "nothing", "nothing")
      /\ Piece(<<c>>, o, "nothing", "nothing")
  BY <1>1, <1>2, OneStep
<1>5. Piece(<<a>> \o <<b>>, o, "nothing", "nothing")
  BY <1>4, Then
<1>6. Piece(QemuSteps, o, "nothing", "nothing")
  BY <1>3, <1>4, <1>5, Then
<1>7. \A kind, of : ~Needs("nothing", o, kind, of)
  BY DEF Needs
<1> QED  BY <1>6, <1>7, NothingToPiece

LEMMA ImageChrootRuns ==
    /\ ImageChrootSteps \in Seq(StepType) /\ Proper(ImageChrootSteps, NoOptions)
    /\ \A kind, of : Relies(ImageChrootSteps, NoOptions, kind, of) =>
          kind = "there" /\ of = "full"
<1> DEFINE o == NoOptions
           a == Step("detach_all", "loops")
           b == Step("init_native", "native")
           c == Step("losetup", "full")
           d == Step("bind_image", <<"full", "install">>)
           e == Step("mount_image", "full")
<1>1. a \in StepType /\ b \in StepType /\ c \in StepType /\ d \in StepType /\ e \in StepType
  BY StepTyped DEF Ops, Args, ImageNames, Names
<1>2. Leads(a, o, "loop", "loop") /\ Leads(b, o, "loop", "loop")
  BY DEF Leads, Step, StepOK, Needs, Reads, Uses, Sets, Upsets
<1>3. Leads(c, o, "loop", "image")
  BY DEF Leads, Step, StepOK, Needs, Reads, Uses, Sets, Upsets, ImageNames
<1>4. Leads(d, o, "image", "mount")
  BY DEF Leads, Step, StepOK, Needs, Reads, Uses, Sets, Upsets, ImageNames, Names, UnitNamed,
      NoOptions, StoreOfImage
<1>5. Leads(e, o, "mount", "nothing")
  BY DEF Leads, Step, StepOK, Needs, Reads, Uses, Sets, Upsets, ImageNames
<1>6. <<a, b, c, d, e>> = ((<<a>> \o <<b>>) \o <<c>>) \o (<<d>> \o <<e>>)
  BY <1>1, Two, Three, Five
<1>7. ImageChrootSteps = ShutdownSteps \o <<a, b, c, d, e>>
  BY DEF ImageChrootSteps
<1> HIDE DEF a, b, c, d, e, o
<1>8. /\ Piece(<<a>>, o, "loop", "loop") /\ Piece(<<b>>, o, "loop", "loop")
      /\ Piece(<<c>>, o, "loop", "image") /\ Piece(<<d>>, o, "image", "mount")
      /\ Piece(<<e>>, o, "mount", "nothing")
  BY <1>1, <1>2, <1>3, <1>4, <1>5, OneStep
<1>9. Piece(<<a>> \o <<b>>, o, "loop", "loop") /\ Piece(<<d>> \o <<e>>, o, "image", "nothing")
  BY <1>8, Then
<1>10. Piece((<<a>> \o <<b>>) \o <<c>>, o, "loop", "image")
  BY <1>8, <1>9, Then
<1>11. Piece(<<a, b, c, d, e>>, o, "loop", "nothing")
  BY <1>6, <1>9, <1>10, Then
<1>12. Piece(ShutdownSteps, o, "chroot", "loop")
  <2>1. \A kind, of : Needs("loop", o, kind, of) =>
           \/ kind = "is" /\ of = "empty"
           \/ kind = "there" /\ Needs("chroot", o, kind, of)
    BY DEF Needs
  <2> QED  BY <2>1, ShutdownPiece
<1>13. Piece(ImageChrootSteps, o, "chroot", "nothing")
  BY <1>7, <1>11, <1>12, Then
<1>14. \A kind, of : Needs("chroot", o, kind, of) => kind = "there" /\ of = "full"
  BY DEF Needs
<1> QED  BY <1>13, <1>14, NothingToPiece DEF o

-----------------------------------------------------------------------------
(* Lemmas about the state.                                                 *)

LEMMA MinLoop ==
    ASSUME NEW S \in SUBSET LoopDevices, S # {}
    PROVE  Min(S) \in S
<1> DEFINE R == {ss \in Nat \X Nat : ss[1] < ss[2]}
<1>1. IsWellFoundedOn(R, Nat)
  BY NatLessThanWellFounded DEF OpToRel
<1>2. \A x, y \in Nat : <<y, x>> \in R <=> y < x
  OBVIOUS
<1> HIDE DEF R
<1>3. S \subseteq Nat
  BY BoundsAssumption DEF LoopDevices
<1>4. PICK x \in S : \A y \in S : ~(<<y, x>> \in R)
  BY <1>1, <1>3, WFMin
<1>5. x \in Nat /\ \A y \in S : y \in Nat /\ ~(y < x)
  <2>1. x \in Nat /\ \A y \in S : y \in Nat
    BY <1>3
  <2> QED  BY <1>2, <1>4, <2>1
<1>6. \A y \in S : x =< y
  BY <1>5
<1> QED  BY <1>6 DEF Min

LEMMA AttachedTo ==
    ASSUME NEW image \in ImageNames, Attached(image) # {}
    PROVE  /\ Min(Attached(image)) \in LoopDevices
           /\ loops[Min(Attached(image))] = image /\ ~Free(Min(Attached(image)))
<1>1. Attached(image) \in SUBSET LoopDevices
  BY DEF Attached
<1>2. Min(Attached(image)) \in Attached(image)
  BY <1>1, MinLoop
<1> QED  BY <1>2 DEF Attached

LEMMA TargetsTyped ==
    ASSUME NEW o \in Options, NEW device \in Devices
    PROVE  /\ Target(o, device) \in Units
           /\ Target(o, device)[1] \in Disks \cup ImageNames /\ Target(o, device)[2] \in Parts
           /\ Target(o, device) = <<Target(o, device)[1], Target(o, device)[2]>>
  BY DEF Target, Devices, Names, Units, Stores, Parts, ImageNames, RootUnit, UnitNamed, RootName,
         StoreOfImage, PartOf, Options

LEMMA DeviceTyped ==
    ASSUME Sound, NEW device \in Devices
    PROVE  DeviceOf(device) \in Nodes \cup {None}
  BY DEF Sound, TypeOK, DeviceOf, Devices

LEMMA UnitTyped ==
    ASSUME Sound, NEW node \in Nodes \cup {None}
    PROVE  UnitOf(node) = Nowhere \/ UnitOf(node) \in Units
<1> SUFFICES ASSUME UnitOf(node) # Nowhere
             PROVE  UnitOf(node) \in Units
  OBVIOUS
<1>1. node \in Nodes /\ node.on \in LoopDevices \cup Disks /\ node.part \in Parts
  BY DEF UnitOf, Nodes
<1>2. UnitOf(node) = <<StoreOf(node), node.part>> /\ StoreOf(node) # "free"
  BY DEF UnitOf
<1>3. StoreOf(node) \in Stores
  BY <1>1, <1>2 DEF StoreOf, Stores, Sound, TypeOK
<1> QED  BY <1>1, <1>2, <1>3 DEF Units

LEMMA MountTyped ==
    ASSUME Sound
    PROVE  /\ Len(mnt) \in Nat /\ DOMAIN mnt = 1..Len(mnt)
           /\ \A j \in DOMAIN mnt : mnt[j].at \in {"root", "boot"} /\ mnt[j].dev \in Nodes \cup {None}
<1>1. mnt \in Seq([at : {"root", "boot"}, dev : Nodes \cup {None}])
  BY DEF Sound, TypeOK
<1>2. Len(mnt) \in Nat /\ DOMAIN mnt = 1..Len(mnt)
  BY <1>1, LenProperties
<1>3. \A j \in 1..Len(mnt) : mnt[j] \in [at : {"root", "boot"}, dev : Nodes \cup {None}]
  BY <1>1, ElementOfSeq
<1> QED  BY <1>2, <1>3

(* A firm node is the unit, and nothing in between.                        *)
LEMMA FirmIs ==
    ASSUME Sound, NEW node \in Nodes \cup {None}, NEW u \in Units,
           u[1] \in Disks \cup ImageNames, Firm(node, u)
    PROVE  UnitOf(node) = u /\ u # Nowhere
<1>1. u[1] # "free" /\ u[1] # "gone" /\ u = <<u[1], u[2]>>
  BY DisksAssumption DEF ImageNames, Units
<1>2. node # None /\ node \in Nodes /\ node.on \in LoopDevices \cup Disks /\ node.part = u[2]
  BY DEF Firm, Nodes
<1>3. StoreOf(node) = u[1]
  <2>1. CASE node.on \in Disks
    BY <2>1 DEF StoreOf, Firm
  <2>2. CASE node.on \notin Disks
    <3>1. loops[node.on] = u[1] /\ node.on \notin dying
      BY <2>2 DEF Firm
    <3>2. ~Free(node.on)
      BY <1>1, <3>1 DEF Free
    <3> QED  BY <2>2, <3>1, <3>2 DEF StoreOf
  <2> QED  BY <2>1, <2>2
<1>4. u[2] # 0 => u[1] \in table
  BY DEF Firm
<1> QED  BY <1>1, <1>2, <1>3, <1>4 DEF UnitOf, Nowhere

(* What a node is firm on is kept when its loop device and partition table *)
(* are.                                                                    *)
LEMMA FirmStays ==
    ASSUME Sound, NEW node \in Nodes \cup {None}, NEW u, Firm(node, u),
           u[1] \in Disks \cup ImageNames,
           \A n \in LoopDevices : loops[n] \in ImageNames /\ n \notin dying =>
              loops'[n] = loops[n] /\ n \notin dying',
           u[2] # 0 => table \subseteq table'
    PROVE  Firm(node, u)'
<1>1. node # None /\ node \in Nodes /\ node.on \in LoopDevices \cup Disks
  BY DEF Firm, Nodes
<1>2. CASE node.on \in Disks
  BY <1>2 DEF Firm
<1>3. CASE node.on \notin Disks
  <2>1. node.on \in LoopDevices /\ loops[node.on] = u[1] /\ node.on \notin dying
    BY <1>1, <1>3 DEF Firm
  <2>2. loops[node.on] \in ImageNames
    <3>1. loops[node.on] \in {"free", "gone"} \cup ImageNames
      BY <2>1 DEF Sound, TypeOK
    <3> QED  BY <2>1, <3>1, DisksAssumption
  <2> QED  BY <1>3, <2>1, <2>2 DEF Firm
<1> QED  BY <1>2, <1>3

-----------------------------------------------------------------------------
(* What steps leave as it is.                                              *)

(* The rest of the program relies on nothing that the step just taken may  *)
(* have destroyed, and on nothing new but what it has established.         *)
Carries ==
    /\ todo' \in Seq(StepType) /\ Proper(todo', options') /\ options' = options
    /\ \A kind, of : Relies(todo', options', kind, of) =>
          /\ ~Upsets(Head(todo), options, kind, of)
          /\ Sets(Head(todo), options, kind, of) \/ Relies(todo, options, kind, of)

LEMMA Carry ==
    ASSUME IInv, todo # <<>>
    PROVE  /\ Head(todo) \in StepType /\ StepOK(Head(todo), options)
           /\ \A kind, of : Reads(Head(todo), options, kind, of) => Relies(todo, options, kind, of)
           /\ Continue /\ options' = options => Carries
<1>1. todo \in Seq(StepType) /\ Proper(todo, options)
  BY DEF IInv
<1> QED  BY <1>1, Rest DEF Carries, Continue

(* Where the step just taken says so, loop devices in use stay.            *)
LoopsStay ==
    \A n \in LoopDevices : loops[n] \in ImageNames /\ n \notin dying =>
        loops'[n] = loops[n] /\ n \notin dying'

LEMMA NodeKept ==
    ASSUME IInv, Carries, NEW device \in Devices, Relies(todo', options', "node", device),
           ~Sets(Head(todo), options, "node", device),
           DeviceOf(device)' = DeviceOf(device), stale => stale', LoopsStay,
           Target(options, device)[2] # 0 => table \subseteq table'
    PROVE  (Excused(device) \/ Firm(DeviceOf(device), Target(options, device)))'
<1>1. Sound /\ options \in Options /\ options' = options
  BY DEF IInv, Sound, TypeOK, Carries
<1>2. Excused(device) \/ Firm(DeviceOf(device), Target(options, device))
  BY DEF Carries, IInv, HeldNodes
<1>3. Target(options, device)[1] \in Disks \cup ImageNames
  BY <1>1, TargetsTyped
<1>4. DeviceOf(device) \in Nodes \cup {None}
  BY <1>1, DeviceTyped
<1>5. Excused(device) => Excused(device)'
  BY <1>1 DEF Excused, Misbound
<1>6. PICK node, u : node = DeviceOf(device) /\ u = Target(options, device)
  OBVIOUS
<1>7. Firm(node, u) => Firm(node, u)'
  BY <1>1, <1>3, <1>4, <1>6, FirmStays DEF LoopsStay
<1>8. DeviceOf(device)' = node /\ Target(options, device)' = u
  BY <1>1, <1>6
<1> QED  BY <1>2, <1>5, <1>6, <1>7, <1>8 DEF Firm

LEMMA NodesKept ==
    ASSUME IInv, Carries, \A of : ~Sets(Head(todo), options, "node", of),
           UNCHANGED <<binds, crypt>>, stale => stale', LoopsStay, table \subseteq table'
    PROVE  HeldNodes'
<1> SUFFICES ASSUME NEW device \in Devices, Relies(todo', options', "node", device)
             PROVE  (Excused(device) \/ Firm(DeviceOf(device), Target(options, device)))'
  BY DEF HeldNodes
<1>1. DeviceOf(device)' = DeviceOf(device)
  BY DEF DeviceOf
<1> QED  BY <1>1, NodeKept

LEMMA ImagesKept ==
    ASSUME IInv, Carries,
           \A of : /\ ~Sets(Head(todo), options, "fresh", of)
                   /\ ~Sets(Head(todo), options, "attached", of)
                   /\ ~Sets(Head(todo), options, "there", of),
           UNCHANGED <<loops, dying, images>>
    PROVE  HeldImages'
<1>1. \A image \in ImageNames :
         /\ Relies(todo', options', "fresh", image) => Relies(todo, options, "fresh", image)
         /\ Relies(todo', options', "attached", image) => Relies(todo, options, "attached", image)
         /\ Relies(todo', options', "there", image) => Relies(todo, options, "there", image)
  BY DEF Carries
<1> QED  BY <1>1 DEF IInv, HeldImages

LEMMA InstallWhole ==
    ASSUME NEW o
    PROVE  Target(o, "install")[2] = 0
  BY DEF Target, UnitNamed

LEMMA ReleasedKept ==
    ASSUME IInv, Carries,
           \A of \in {"mnt", "crypt", "loops", "work", "empty", "kept"} :
              ~Sets(Head(todo), options, "is", of),
           UNCHANGED <<mnt, crypt, mapper, silent, loops, dying, imageMount, binds, native>>
    PROVE  HeldReleased'
<1>1. /\ Relies(todo', options', "is", "mnt") => Relies(todo, options, "is", "mnt")
      /\ Relies(todo', options', "is", "crypt") => Relies(todo, options, "is", "crypt")
      /\ Relies(todo', options', "is", "loops") => Relies(todo, options, "is", "loops")
      /\ Relies(todo', options', "is", "work") => Relies(todo, options, "is", "work")
      /\ Relies(todo', options', "is", "empty") => Relies(todo, options, "is", "empty")
      /\ Relies(todo', options', "is", "kept") => Relies(todo, options, "is", "kept")
  BY DEF Carries
<1>2. Target(options, "install")' = Target(options, "install") /\ Target(options, "install")[2] = 0
  BY InstallWhole DEF Carries
<1>3. Firm(binds["install"], Target(options, "install")) =>
         Firm(binds["install"], Target(options, "install"))'
  BY <1>2 DEF Firm
<1> QED  BY <1>1, <1>3 DEF IInv, HeldReleased

(* Whole images and disks need no partition table.                         *)
LEMMA MountsStay ==
    ASSUME IInv, Carries,
           ~Sets(Head(todo), options, "is", "rootmount"),
           ~Sets(Head(todo), options, "is", "bootmount"),
           UNCHANGED mnt, stale => stale', LoopsStay,
           Misbound \/ options.single \/ options.split \/ table \subseteq table'
    PROVE  HeldMounts'
<1>1. Sound /\ options \in Options /\ options' = options
  BY DEF IInv, Sound, TypeOK, Carries
<1>2. ASSUME NEW at, NEW u \in Units, u[1] \in Disks \cup ImageNames, MountedAt(at, u),
             u[2] # 0 => table \subseteq table'
      PROVE  MountedAt(at, u)'
  <2>1. PICK j \in DOMAIN mnt : mnt[j].at = at /\ Firm(mnt[j].dev, u) /\ \A r \in Roots : r <= j
    BY <1>2 DEF MountedAt
  <2>2. mnt[j].dev \in Nodes \cup {None}
    BY <1>1, MountTyped
  <2>3. PICK node : node = mnt[j].dev
    OBVIOUS
  <2>4. Firm(node, u)'
    BY <1>1, <1>2, <2>1, <2>2, <2>3, FirmStays DEF LoopsStay
  <2>5. mnt' = mnt /\ j \in DOMAIN mnt' /\ mnt'[j].dev = node /\ mnt'[j].at = at
    BY <2>1, <2>3
  <2>6. Firm(mnt[j].dev, u)'
    BY <2>4, <2>5 DEF Firm
  <2>7. \A r \in Roots' : r <= j
    BY <2>1 DEF Roots
  <2> QED  BY <2>5, <2>6, <2>7 DEF MountedAt
<1>3. /\ RootUnit(options) = Target(options, "pm_crypt")
      /\ BootUnit(options) = Target(options, BootName(options))
      /\ "pm_crypt" \in Devices /\ BootName(options) \in Devices
  BY DEF Target, BootUnit, BootName, Devices, Names
<1>4. /\ RootUnit(options) \in Units /\ RootUnit(options)[1] \in Disks \cup ImageNames
      /\ BootUnit(options) \in Units /\ BootUnit(options)[1] \in Disks \cup ImageNames
  BY <1>1, <1>3, TargetsTyped
<1>5. RootUnit(options)' = RootUnit(options) /\ BootUnit(options)' = BootUnit(options)
      /\ (Misbound => Misbound')
  BY <1>1 DEF Misbound
<1>6. /\ Misbound \/ (RootUnit(options)[2] # 0 => table \subseteq table')
      /\ Misbound \/ ~HasBoot(options) \/ (BootUnit(options)[2] # 0 => table \subseteq table')
  BY DEF RootUnit, BootUnit, UnitNamed, RootName, HasBoot
<1>7. Relies(todo', options', "is", "bootmount") => HasBoot(options)
  BY <1>1 DEF Relies, Reads
<1>8. /\ ~Misbound /\ MountedAt("root", RootUnit(options)) => MountedAt("root", RootUnit(options))'
      /\ ~Misbound /\ HasBoot(options) /\ MountedAt("boot", BootUnit(options)) =>
            MountedAt("boot", BootUnit(options))'
  <2>1. PICK u, v : u = RootUnit(options) /\ v = BootUnit(options)
    OBVIOUS
  <2>2. /\ ~Misbound /\ MountedAt("root", u) => MountedAt("root", u)'
        /\ ~Misbound /\ HasBoot(options) /\ MountedAt("boot", v) => MountedAt("boot", v)'
    BY <1>2, <1>4, <1>6, <2>1
  <2>3. RootUnit(options)' = u /\ BootUnit(options)' = v
    BY <1>5, <2>1
  <2> QED  BY <2>1, <2>2, <2>3 DEF MountedAt, Firm, Roots
<1>9. /\ Relies(todo', options', "is", "rootmount") => Relies(todo, options, "is", "rootmount")
      /\ Relies(todo', options', "is", "bootmount") => Relies(todo, options, "is", "bootmount")
  BY DEF Carries
<1> QED  BY <1>5, <1>8, <1>9, <1>7 DEF IInv, HeldMounts

LEMMA MountsKept ==
    ASSUME IInv, Carries,
           ~Sets(Head(todo), options, "is", "rootmount"),
           ~Sets(Head(todo), options, "is", "bootmount"),
           UNCHANGED mnt, stale => stale', LoopsStay, table \subseteq table'
    PROVE  HeldMounts'
<1>1. Misbound \/ options.single \/ options.split \/ table \subseteq table'
  OBVIOUS
<1> QED  BY <1>1, MountsStay

LEMMA DataKept ==
    ASSUME IInv, Carries,
           \A of \in {"rootfiles", "bootfiles", "kernel", "rootid", "bootid"} :
              ~Sets(Head(todo), options, "is", of),
           UNCHANGED <<uuid, fstab, runs>>, stale => stale',
           \A u \in Units : files[u] = runs => files'[u] = runs
    PROVE  HeldData'
<1>1. Sound /\ options \in Options /\ options' = options /\ (Misbound => Misbound')
  BY DEF IInv, Sound, TypeOK, Carries, Misbound
<1>2. /\ RootUnit(options) \in Units /\ BootUnit(options) \in Units
      /\ UnitNamed(options, "p1") \in Units
  <2>1. /\ RootUnit(options) = Target(options, "pm_crypt")
        /\ BootUnit(options) = Target(options, BootName(options))
        /\ UnitNamed(options, "p1") = Target(options, "p1")
        /\ "pm_crypt" \in Devices /\ BootName(options) \in Devices /\ "p1" \in Devices
    BY DEF Target, BootUnit, BootName, Devices, Names
  <2> QED  BY <1>1, <2>1, TargetsTyped
<1>3. /\ Relies(todo', options', "is", "rootfiles") => Relies(todo, options, "is", "rootfiles")
      /\ Relies(todo', options', "is", "bootfiles") => Relies(todo, options, "is", "bootfiles")
      /\ Relies(todo', options', "is", "kernel") => Relies(todo, options, "is", "kernel")
      /\ Relies(todo', options', "is", "rootid") => Relies(todo, options, "is", "rootid")
      /\ Relies(todo', options', "is", "bootid") => Relies(todo, options, "is", "bootid")
  BY DEF Carries
<1> QED  BY <1>1, <1>2, <1>3 DEF IInv, HeldData

(* A program that ends relies on nothing.                                  *)
LEMMA Ends ==
    ASSUME Sound', LoopsBacked', todo' = <<>>
    PROVE  IInv'
<1>1. <<>> \in Seq(StepType) /\ Proper(<<>>, options')
      /\ \A kind, of : ~Relies(<<>>, options', kind, of)
  BY NothingLeft
<1>2. todo' \in Seq(StepType) /\ Proper(todo', options')
      /\ \A kind, of : ~Relies(todo', options', kind, of)
  BY <1>1
<1>3. HeldNodes' /\ HeldImages'
  BY <1>2 DEF HeldNodes, HeldImages
<1>4. HeldReleased' /\ HeldMounts' /\ HeldData'
  BY <1>2 DEF HeldReleased, HeldMounts, HeldData
<1> QED  BY <1>2, <1>3, <1>4 DEF IInv

LEMMA Assemble ==
    ASSUME Sound', Carries, LoopsBacked', HeldNodes', HeldImages', HeldReleased', HeldMounts',
           HeldData'
    PROVE  IInv'
  BY DEF IInv, Carries

(* A step that changes none of what is relied on.                          *)
LEMMA Still ==
    ASSUME IInv, Carries, \A kind, of : ~Sets(Head(todo), options, kind, of),
           Sound', UNCHANGED <<storage, kernel, fstab, stale, runs, native>>
    PROVE  IInv'
<1>1. UNCHANGED <<images, table, uuid, files, loops, dying, binds, mnt, crypt, mapper, silent, imageMount>>
  BY DEF storage, kernel
<1>2. LoopsStay /\ table \subseteq table'
  BY <1>1 DEF LoopsStay
<1>3. LoopsBacked'
  BY <1>1 DEF IInv, LoopsBacked
<1>4. HeldNodes'
  BY <1>1, <1>2, NodesKept
<1>5. HeldImages'
  BY <1>1, ImagesKept
<1>6. HeldReleased'
  BY <1>1, ReleasedKept
<1>7. HeldMounts'
  BY <1>1, <1>2, MountsKept
<1>8. HeldData'
  BY <1>1, DataKept
<1> QED  BY <1>3, <1>4, <1>5, <1>6, <1>7, <1>8, Assemble

-----------------------------------------------------------------------------
(* The invariant is kept by steps that change little.                      *)

LEMMA Typed ==
    ASSUME IInv
    PROVE  Sound
  BY DEF IInv

LEMMA Backed ==
    ASSUME IInv, UNCHANGED <<loops, images>>
    PROVE  LoopsBacked'
  BY DEF IInv, LoopsBacked

LEMMA Aborts ==
    ASSUME IInv, Sound', todo' = <<>>, UNCHANGED <<loops, images>>
    PROVE  IInv'
  BY Backed, Ends

LEMMA Quiet ==
    ASSUME IInv, todo # <<>>, options' = options, Continue \/ Abort, Sound',
           UNCHANGED <<storage, kernel, fstab, stale, runs, native>>,
           \A kind, of : ~Sets(Head(todo), options, kind, of)
    PROVE  IInv'
<1>1. CASE Abort
  BY <1>1, Aborts DEF Abort, storage, kernel
<1>2. CASE Continue
  BY <1>2, Carry, Still
<1> QED  BY <1>1, <1>2

LEMMA QuietSteps ==
    ASSUME IInv, Confirm \/ EmbedFirmware \/ Check \/ RecoveryZip \/ Report
    PROVE  IInv'
<1>1. /\ todo # <<>> /\ options' = options /\ (Continue \/ Abort)
      /\ UNCHANGED <<storage, kernel, fstab, stale, runs, native>>
  BY DEF Confirm, EmbedFirmware, Check, RecoveryZip, Report, At, memory
<1>2. Head(todo).op \in {"confirm", "embed_firmware", "check", "recovery_zip", "shutdown_complete",
                         "flash_info", "run_qemu"}
  BY DEF Confirm, EmbedFirmware, Check, RecoveryZip, Report, At
<1>3. Sound'
  <2>1. Sound /\ StepOK(Head(todo), options)
    BY <1>1, Carry, Typed
  <2>2. confirmed' \subseteq Disks
    <3>1. CASE Confirm
      <4>1. confirmed' = confirmed \/ confirmed' = confirmed \cup {options.disk}
        BY <3>1 DEF Confirm
      <4>2. options.disk \in Disks
        BY <2>1, <3>1 DEF Confirm, At, StepOK, Sound, TypeOK, Options
      <4> QED  BY <2>1, <4>1, <4>2 DEF Sound, TypeOK
    <3>2. CASE EmbedFirmware \/ Check \/ RecoveryZip \/ Report
      BY <2>1, <3>2 DEF EmbedFirmware, Check, RecoveryZip, Report, memory, Sound, TypeOK
    <3> QED  BY <3>1, <3>2
  <2>3. UNCHANGED <<native, images, table, uuid, files, loops, dying, binds, mnt, crypt, mapper, silent, mapped,
                    imageMount, fstab, options, stale, runs>>
    BY <1>1 DEF storage, kernel
  <2> QED  BY <2>1, <2>2, <2>3 DEF Sound, TypeOK
<1>4. \A kind, of : ~Sets(Head(todo), options, kind, of)
  BY <1>2 DEF Sets
<1> QED  BY <1>1, <1>3, <1>4, Quiet

LEMMA InitNativeStep ==
    ASSUME IInv, InitNative
    PROVE  IInv'
<1>1. /\ todo # <<>> /\ Head(todo).op = "init_native" /\ options' = options /\ Continue
      /\ native' = TRUE
      /\ UNCHANGED <<images, table, uuid, files, loops, dying, binds, mnt, crypt, mapper, silent, mapped, imageMount,
                     fstab, options, confirmed, stale, runs>>
  BY DEF InitNative, At, memory, storage, kernel
<1>2. Carries
  BY <1>1, Carry
<1>3. /\ \A kind, of : ~Sets(Head(todo), options, kind, of)
      /\ Upsets(Head(todo), options, "is", "kept")
  BY <1>1 DEF Sets, Upsets
<1>4. Sound'
  BY <1>1 DEF IInv, Sound, TypeOK
<1>5. LoopsStay /\ table \subseteq table'
  BY <1>1 DEF LoopsStay
<1>6. LoopsBacked' /\ HeldNodes' /\ HeldImages' /\ HeldMounts' /\ HeldData'
  BY <1>1, <1>2, <1>3, <1>5, Backed, NodesKept, ImagesKept, MountsKept, DataKept
<1>7. HeldReleased'
  <2>1. /\ Relies(todo', options', "is", "mnt") => Relies(todo, options, "is", "mnt")
        /\ Relies(todo', options', "is", "crypt") => Relies(todo, options, "is", "crypt")
        /\ Relies(todo', options', "is", "loops") => Relies(todo, options, "is", "loops")
        /\ Relies(todo', options', "is", "work") => Relies(todo, options, "is", "work")
        /\ Relies(todo', options', "is", "empty") => Relies(todo, options, "is", "empty")
        /\ ~Relies(todo', options', "is", "kept")
    BY <1>2, <1>3 DEF Carries
  <2> QED  BY <1>1, <2>1 DEF IInv, HeldReleased
<1> QED  BY <1>2, <1>4, <1>6, <1>7, Assemble

-----------------------------------------------------------------------------
(* ... and by those that release.                                          *)

LEMMA UnbindStep ==
    ASSUME IInv, Unbind
    PROVE  IInv'
<1>1. /\ todo # <<>> /\ Head(todo).op = "unbind" /\ options' = options /\ Continue
      /\ binds' = [binds EXCEPT ![Head(todo).arg] = None]
      /\ UNCHANGED <<native, images, table, uuid, files, loops, dying, mnt, crypt, mapper, silent, mapped, imageMount,
                     fstab, options, confirmed, stale, runs>>
  BY DEF Unbind, At, X, memory, storage
<1>2. Carries /\ Head(todo).arg = "install"
  BY <1>1, Carry DEF StepOK
<1>3. /\ \A kind, of : Sets(Head(todo), options, kind, of) => kind = "is" /\ of = "empty"
      /\ Upsets(Head(todo), options, "node", "install") /\ Upsets(Head(todo), options, "is", "kept")
  BY <1>1 DEF Sets, Upsets
<1>4. Sound'
  BY <1>1, <1>2, Typed DEF Sound, TypeOK, Names
<1>5. LoopsStay /\ table \subseteq table'
  BY <1>1 DEF LoopsStay
<1>6. LoopsBacked' /\ HeldImages' /\ HeldMounts' /\ HeldData'
  BY <1>1, <1>2, <1>3, <1>5, Backed, ImagesKept, MountsKept, DataKept
<1>7. HeldNodes'
  <2> SUFFICES ASSUME NEW device \in Devices, Relies(todo', options', "node", device)
               PROVE  (Excused(device) \/ Firm(DeviceOf(device), Target(options, device)))'
    BY DEF HeldNodes
  <2>1. device # "install"
    BY <1>2, <1>3 DEF Carries
  <2>2. DeviceOf(device)' = DeviceOf(device)
    BY <1>1, <1>2, <2>1, Typed DEF DeviceOf, Sound, TypeOK, Devices
  <2> QED  BY <1>1, <1>2, <1>3, <1>5, <2>2, NodeKept
<1>8. HeldReleased'
  <2>1. /\ Relies(todo', options', "is", "mnt") => Relies(todo, options, "is", "mnt")
        /\ Relies(todo', options', "is", "crypt") => Relies(todo, options, "is", "crypt")
        /\ Relies(todo', options', "is", "loops") => Relies(todo, options, "is", "loops")
        /\ Relies(todo', options', "is", "work") => Relies(todo, options, "is", "work")
        /\ ~Relies(todo', options', "is", "kept")
    BY <1>2, <1>3 DEF Carries
  <2>2. \A n \in Names : binds[n] = None => binds'[n] = None
    BY <1>1, <1>2, Typed DEF Sound, TypeOK
  <2>3. binds'["install"] = None
    BY <1>1, <1>2, Typed DEF Sound, TypeOK, Names
  <2> QED  BY <1>1, <2>1, <2>2, <2>3 DEF IInv, HeldReleased
<1> QED  BY <1>2, <1>4, <1>6, <1>7, <1>8, Assemble

LEMMA CloseCryptStep ==
    ASSUME IInv, CloseCrypt
    PROVE  IInv'
<1>1. /\ todo # <<>> /\ Head(todo).op = "close_crypt" /\ options' = options /\ Continue
      /\ \/ crypt' = None /\ mapper' = FALSE /\ silent' = FALSE
         \/ silent' = TRUE /\ UNCHANGED <<crypt, mapper>>
         \/ ~mapper /\ UNCHANGED <<crypt, mapper, silent>>
      /\ UNCHANGED <<native, images, table, uuid, files, loops, dying, binds, mnt, mapped, imageMount,
                     fstab, options, confirmed, stale, runs>>
  BY DEF CloseCrypt, At, memory, storage
<1>2. Carries
  BY <1>1, Carry
<1>3. /\ \A kind, of : Sets(Head(todo), options, kind, of) => kind = "is" /\ of = "crypt"
      /\ Upsets(Head(todo), options, "node", "pm_crypt")
  BY <1>1 DEF Sets, Upsets
<1>4. Sound'
  <2>1. TypeOK /\ (crypt # None => mapper \/ silent)
    BY Typed DEF Sound
  <2>2. crypt' \in {crypt, None} /\ mapper' \in BOOLEAN /\ silent' \in BOOLEAN
    BY <1>1, <2>1 DEF TypeOK
  <2>3. (crypt # None => mapper \/ silent)'
    BY <1>1, <2>1, Zenon
  <2>4. TypeOK'
    BY <1>1, <2>1, <2>2 DEF TypeOK
  <2> QED  BY <2>3, <2>4 DEF Sound
<1>5. LoopsStay /\ table \subseteq table'
  BY <1>1 DEF LoopsStay
<1>6. LoopsBacked' /\ HeldImages' /\ HeldMounts' /\ HeldData'
  BY <1>1, <1>2, <1>3, <1>5, Backed, ImagesKept, MountsKept, DataKept
<1>7. HeldNodes'
  <2> SUFFICES ASSUME NEW device \in Devices, Relies(todo', options', "node", device)
               PROVE  (Excused(device) \/ Firm(DeviceOf(device), Target(options, device)))'
    BY DEF HeldNodes
  <2>1. device # "pm_crypt"
    BY <1>2, <1>3 DEF Carries
  <2>2. DeviceOf(device)' = DeviceOf(device)
    BY <1>1, <2>1 DEF DeviceOf
  <2> QED  BY <1>1, <1>2, <1>3, <1>5, <2>2, NodeKept
<1>8. HeldReleased'
  <2>1. /\ Relies(todo', options', "is", "mnt") => Relies(todo, options, "is", "mnt")
        /\ Relies(todo', options', "is", "loops") => Relies(todo, options, "is", "loops")
        /\ Relies(todo', options', "is", "work") => Relies(todo, options, "is", "work")
        /\ Relies(todo', options', "is", "empty") => Relies(todo, options, "is", "empty")
        /\ Relies(todo', options', "is", "kept") => Relies(todo, options, "is", "kept")
    BY <1>2, <1>3 DEF Carries
  <2>2. crypt' = None \/ silent'
    BY <1>1, Typed DEF Sound
  <2> QED  BY <1>1, <2>1, <2>2 DEF IInv, HeldReleased, Firm
<1> QED  BY <1>2, <1>4, <1>6, <1>7, <1>8, Assemble

LEMMA DetachAllStep ==
    ASSUME IInv, DetachAll
    PROVE  IInv'
<1>1. /\ todo # <<>> /\ Head(todo).op = "detach_all" /\ options' = options /\ Continue
      /\ mapped' \subseteq mapped
      /\ dying' = {n \in LoopDevices : loops[n] # "free"}
      /\ UNCHANGED <<native, images, table, uuid, files, loops, binds, mnt, crypt, mapper, silent, imageMount,
                     fstab, options, confirmed, stale, runs>>
  BY DEF DetachAll, At, memory, storage
<1>2. Carries
  BY <1>1, Carry
<1>3. /\ \A kind, of : Sets(Head(todo), options, kind, of) => kind = "is" /\ of = "loops"
      /\ \A of : /\ Upsets(Head(todo), options, "node", of)
                 /\ Upsets(Head(todo), options, "fresh", of)
                 /\ Upsets(Head(todo), options, "attached", of)
      /\ Upsets(Head(todo), options, "is", "rootmount")
      /\ Upsets(Head(todo), options, "is", "bootmount")
      /\ Upsets(Head(todo), options, "is", "kept")
  BY <1>1 DEF Sets, Upsets
<1>4. Sound'
  BY <1>1, Typed DEF Sound, TypeOK
<1>5. LoopsBacked' /\ HeldData'
  BY <1>1, <1>2, <1>3, Backed, DataKept
<1>6. HeldNodes' /\ HeldMounts'
  BY <1>2, <1>3 DEF HeldNodes, HeldMounts, Carries
<1>7. HeldImages'
  <2>1. \A image \in ImageNames :
           /\ ~Relies(todo', options', "fresh", image)
           /\ ~Relies(todo', options', "attached", image)
           /\ Relies(todo', options', "there", image) => Relies(todo, options, "there", image)
    BY <1>2, <1>3 DEF Carries
  <2> QED  BY <1>1, <2>1 DEF IInv, HeldImages
<1>8. HeldReleased'
  <2>1. /\ Relies(todo', options', "is", "mnt") => Relies(todo, options, "is", "mnt")
        /\ Relies(todo', options', "is", "crypt") => Relies(todo, options, "is", "crypt")
        /\ Relies(todo', options', "is", "work") => Relies(todo, options, "is", "work")
        /\ Relies(todo', options', "is", "empty") => Relies(todo, options, "is", "empty")
        /\ ~Relies(todo', options', "is", "kept")
    BY <1>2, <1>3 DEF Carries
  <2>2. \A n \in LoopDevices : loops'[n] = "free" \/ n \in dying'
    BY <1>1
  <2> QED  BY <1>1, <2>1, <2>2 DEF IInv, HeldReleased
<1> QED  BY <1>2, <1>4, <1>5, <1>6, <1>7, <1>8, Assemble

LEMMA UmountWorkStep ==
    ASSUME IInv, UmountWork
    PROVE  IInv'
<1>1. /\ todo # <<>> /\ Head(todo).op = "umount_work" /\ options' = options /\ Continue
      /\ binds' = [n \in Names |-> None] /\ imageMount' = None /\ mapper' = FALSE
      /\ UNCHANGED <<native, images, table, uuid, files, loops, dying, mnt, crypt, silent, mapped,
                     fstab, options, confirmed, stale, runs>>
  BY DEF UmountWork, At, memory, storage
<1>2. Carries
  BY <1>1, Carry
<1>3. /\ \A kind, of : Sets(Head(todo), options, kind, of) => kind = "is" /\ of \in {"work", "empty"}
      /\ \A of \in Names : Upsets(Head(todo), options, "node", of)
      /\ Upsets(Head(todo), options, "is", "kept")
  BY <1>1 DEF Sets, Upsets
<1>4. Sound'
  <2>1. Relies(todo, options, "is", "crypt")
    BY <1>1, Carry DEF Reads
  <2> QED  BY <1>1, <2>1, Typed DEF IInv, HeldReleased, Sound, TypeOK
<1>5. LoopsStay /\ table \subseteq table'
  BY <1>1 DEF LoopsStay
<1>6. LoopsBacked' /\ HeldImages' /\ HeldMounts' /\ HeldData'
  BY <1>1, <1>2, <1>3, <1>5, Backed, ImagesKept, MountsKept, DataKept
<1>7. HeldNodes'
  <2> SUFFICES ASSUME NEW device \in Devices, Relies(todo', options', "node", device)
               PROVE  (Excused(device) \/ Firm(DeviceOf(device), Target(options, device)))'
    BY DEF HeldNodes
  <2>1. device = "pm_crypt"
    BY <1>2, <1>3 DEF Carries, Devices
  <2>2. DeviceOf(device)' = DeviceOf(device)
    BY <1>1, <2>1 DEF DeviceOf
  <2> QED  BY <1>1, <1>2, <1>3, <1>5, <2>2, NodeKept
<1>8. HeldReleased'
  <2>1. /\ Relies(todo', options', "is", "mnt") => Relies(todo, options, "is", "mnt")
        /\ Relies(todo', options', "is", "crypt") => Relies(todo, options, "is", "crypt")
        /\ Relies(todo', options', "is", "loops") => Relies(todo, options, "is", "loops")
        /\ ~Relies(todo', options', "is", "kept")
    BY <1>2, <1>3 DEF Carries
  <2>2. (\A n \in Names : binds'[n] = None) /\ binds'["install"] = None
    BY <1>1 DEF Names
  <2> QED  BY <1>1, <2>1, <2>2 DEF IInv, HeldReleased
<1> QED  BY <1>2, <1>4, <1>6, <1>7, <1>8, Assemble

-----------------------------------------------------------------------------
(* ... and by those that work on images.                                   *)

LEMMA UmountImageStep ==
    ASSUME IInv, UmountImage
    PROVE  IInv'
<1>1. /\ todo # <<>> /\ Head(todo).op = "umount_image" /\ options' = options /\ Continue
      /\ imageMount' = None
      /\ UNCHANGED <<native, images, table, uuid, files, loops, dying, binds, mnt, crypt, mapper, silent, mapped,
                     fstab, options, confirmed, stale, runs>>
  BY DEF UmountImage, At, memory, storage
<1>2. Carries
  BY <1>1, Carry
<1>3. \A kind, of : ~Sets(Head(todo), options, kind, of)
  BY <1>1 DEF Sets
<1>4. Sound'
  BY <1>1, Typed DEF Sound, TypeOK
<1>5. LoopsStay /\ table \subseteq table'
  BY <1>1 DEF LoopsStay
<1>6. LoopsBacked' /\ HeldNodes' /\ HeldImages' /\ HeldMounts' /\ HeldData'
  BY <1>1, <1>2, <1>3, <1>5, Backed, NodesKept, ImagesKept, MountsKept, DataKept
<1>7. HeldReleased'
  <2>1. /\ Relies(todo', options', "is", "mnt") => Relies(todo, options, "is", "mnt")
        /\ Relies(todo', options', "is", "crypt") => Relies(todo, options, "is", "crypt")
        /\ Relies(todo', options', "is", "loops") => Relies(todo, options, "is", "loops")
        /\ Relies(todo', options', "is", "work") => Relies(todo, options, "is", "work")
        /\ Relies(todo', options', "is", "empty") => Relies(todo, options, "is", "empty")
        /\ Relies(todo', options', "is", "kept") => Relies(todo, options, "is", "kept")
    BY <1>2, <1>3 DEF Carries
  <2> QED  BY <1>1, <2>1 DEF IInv, HeldReleased, Firm
<1> QED  BY <1>2, <1>4, <1>6, <1>7, Assemble

LEMMA MountImageStep ==
    ASSUME IInv, MountImage
    PROVE  IInv'
<1> DEFINE image == Head(todo).arg
           n == Min(Attached(image))
<1>1. /\ todo # <<>> /\ Head(todo).op = "mount_image" /\ options' = options
      /\ (Continue /\ imageMount' = n) \/ (Abort /\ imageMount' = imageMount)
  BY DEF MountImage, At, X, memory
<1>2. /\ mapped' = mapped \cup (IF image \in table THEN {n} ELSE {})
      /\ UNCHANGED <<native, images, table, uuid, files, loops, dying, binds, mnt, crypt, mapper, silent,
                     fstab, options, confirmed, stale, runs>>
  BY DEF MountImage, X, memory, storage
<1>3. n \in LoopDevices
  <2>1. image \in ImageNames /\ Relies(todo, options, "attached", image)
    BY <1>1, Carry DEF StepOK, Reads
  <2>2. \E m \in LoopDevices : loops[m] = image /\ m \notin dying
    BY <2>1 DEF IInv, HeldImages
  <2>3. \A m \in LoopDevices : loops[m] = image /\ m \notin dying => ~Free(m)
    BY <2>1 DEF Free, ImageNames
  <2>4. Attached(image) # {}
    BY <2>2, <2>3 DEF Attached
  <2> QED  BY <2>1, <2>4, AttachedTo
<1> HIDE DEF n
<1>4. Sound'
  BY <1>1, <1>2, <1>3, Typed DEF Sound, TypeOK
<1>5. CASE Abort
  BY <1>2, <1>4, <1>5, Aborts DEF Abort
<1>6. CASE Continue
  <2>1. Carries
    BY <1>1, <1>6, Carry
  <2>2. /\ \A kind, of : ~Sets(Head(todo), options, kind, of)
        /\ Upsets(Head(todo), options, "is", "work")
    BY <1>1 DEF Sets, Upsets
  <2>3. LoopsStay /\ table \subseteq table'
    BY <1>2 DEF LoopsStay
  <2>4. LoopsBacked' /\ HeldNodes' /\ HeldImages' /\ HeldMounts' /\ HeldData'
    BY <1>2, <2>1, <2>2, <2>3, Backed, NodesKept, ImagesKept, MountsKept, DataKept
  <2>5. HeldReleased'
    <3>1. /\ Relies(todo', options', "is", "mnt") => Relies(todo, options, "is", "mnt")
          /\ Relies(todo', options', "is", "crypt") => Relies(todo, options, "is", "crypt")
          /\ Relies(todo', options', "is", "loops") => Relies(todo, options, "is", "loops")
          /\ ~Relies(todo', options', "is", "work")
          /\ Relies(todo', options', "is", "empty") => Relies(todo, options, "is", "empty")
          /\ Relies(todo', options', "is", "kept") => Relies(todo, options, "is", "kept")
      BY <2>1, <2>2 DEF Carries
    <3> QED  BY <1>1, <1>2, <3>1 DEF IInv, HeldReleased, Firm
  <2> QED  BY <1>4, <2>1, <2>4, <2>5, Assemble
<1> QED  BY <1>1, <1>5, <1>6

LEMMA TruncateStep ==
    ASSUME IInv, Truncate
    PROVE  IInv'
<1>1. /\ todo # <<>> /\ Head(todo).op = "truncate" /\ options' = options /\ Continue
      /\ images' = images \cup {Head(todo).arg}
      /\ UNCHANGED <<native, table, loops, dying, binds, mnt, crypt, mapper, silent, mapped, imageMount,
                     fstab, options, confirmed, stale, runs>>
  BY DEF Truncate, At, X, memory, kernel
<1>2. Carries /\ Head(todo).arg \in ImageNames
  BY <1>1, Carry DEF StepOK
<1>3. /\ \A kind, of : Sets(Head(todo), options, kind, of) =>
            kind = "there" /\ of = Head(todo).arg
      /\ \A of \in {"rootfiles", "bootfiles", "kernel", "rootid", "bootid"} :
            Upsets(Head(todo), options, "is", of)
  BY <1>1 DEF Sets, Upsets
<1>4. Sound'
  <2>1. /\ uuid' = [u \in Units |-> IF u[1] = Head(todo).arg THEN 0 ELSE uuid[u]]
        /\ files' = [u \in Units |-> IF u[1] = Head(todo).arg THEN 0 ELSE files[u]]
    BY DEF Truncate, X
  <2>2. 0 \in 0..MaxRuns
    BY BoundsAssumption
  <2>3. uuid' \in [Units -> 0..MaxRuns] /\ files' \in [Units -> 0..MaxRuns]
    BY <2>1, <2>2, Typed DEF Sound, TypeOK
  <2> QED  BY <1>1, <1>2, <2>3, Typed DEF Sound, TypeOK
<1>5. LoopsStay /\ table \subseteq table'
  BY <1>1 DEF LoopsStay
<1>6. HeldNodes' /\ HeldReleased' /\ HeldMounts'
  BY <1>1, <1>2, <1>3, <1>5, NodesKept, ReleasedKept, MountsKept
<1>7. LoopsBacked' /\ HeldImages'
  <2>1. \A image \in ImageNames :
           /\ Relies(todo', options', "fresh", image) => Relies(todo, options, "fresh", image)
           /\ Relies(todo', options', "attached", image) => Relies(todo, options, "attached", image)
           /\ Relies(todo', options', "there", image) =>
                 image = Head(todo).arg \/ Relies(todo, options, "there", image)
    BY <1>2, <1>3 DEF Carries
  <2> QED  BY <1>1, <2>1 DEF IInv, HeldImages, LoopsBacked
<1>8. HeldData'
  BY <1>2, <1>3 DEF HeldData, Carries
<1> QED  BY <1>2, <1>4, <1>6, <1>7, <1>8, Assemble

LEMMA LosetupStep ==
    ASSUME IInv, Losetup
    PROVE  IInv'
<1> DEFINE free == {n \in LoopDevices : Free(n)}
           m == Min(free)
<1>1. /\ todo # <<>> /\ Head(todo).op = "losetup" /\ options' = options
      /\ UNCHANGED <<native, images, table, uuid, files, binds, mnt, crypt, mapper, silent, mapped, imageMount,
                     fstab, options, confirmed, stale, runs>>
  BY DEF Losetup, At, X, memory, storage
<1>2. CASE free = {}
  <2>1. todo' = <<>> /\ UNCHANGED <<loops, dying>>
    BY <1>2 DEF Losetup, Abort
  <2>2. Sound'
    BY <1>1, <2>1, Typed DEF Sound, TypeOK
  <2> QED  BY <1>1, <2>1, <2>2, Aborts
<1>3. CASE free # {}
  <2>1. /\ loops' = [loops EXCEPT ![m] = Head(todo).arg] /\ dying' = dying \ {m} /\ Continue
    BY <1>3 DEF Losetup, X
  <2>2. m \in LoopDevices /\ Free(m)
    <3>1. free \in SUBSET LoopDevices
      OBVIOUS
    <3>2. m \in free
      BY <1>3, <3>1, MinLoop
    <3> QED  BY <3>2
  <2> HIDE DEF free, m
  <2>3. Carries /\ Head(todo).arg \in ImageNames /\ Head(todo).arg \in images
    <3>1. Carries /\ Head(todo).arg \in ImageNames /\ Relies(todo, options, "there", Head(todo).arg)
      BY <1>1, <2>1, Carry DEF StepOK, Reads
    <3> QED  BY <3>1 DEF IInv, HeldImages
  <2>4. /\ \A kind, of : Sets(Head(todo), options, kind, of) =>
              kind = "attached" /\ of = Head(todo).arg
        /\ Upsets(Head(todo), options, "is", "loops")
    BY <1>1 DEF Sets, Upsets
  <2>5. Sound'
    BY <1>1, <2>1, <2>3, Typed DEF Sound, TypeOK
  <2>6. loops[m] \in ImageNames => m \in dying
    BY <2>2 DEF Free, ImageNames
  <2>7. /\ loops'[m] = Head(todo).arg /\ m \notin dying'
        /\ \A n \in LoopDevices : n # m => loops'[n] = loops[n] /\ (n \in dying' <=> n \in dying)
    BY <2>1, <2>2, Typed DEF Sound, TypeOK
  <2>8. LoopsStay /\ table \subseteq table'
    BY <1>1, <2>6, <2>7 DEF LoopsStay
  <2>9. LoopsBacked'
    BY <1>1, <2>3, <2>7 DEF LoopsBacked, IInv
  <2>10. HeldNodes' /\ HeldMounts' /\ HeldData'
    BY <1>1, <2>3, <2>4, <2>8, NodesKept, MountsKept, DataKept
  <2>11. HeldImages'
    <3>1. \A image \in ImageNames :
             /\ Relies(todo', options', "fresh", image) => Relies(todo, options, "fresh", image)
             /\ Relies(todo', options', "attached", image) =>
                   image = Head(todo).arg \/ Relies(todo, options, "attached", image)
             /\ Relies(todo', options', "there", image) => Relies(todo, options, "there", image)
      BY <2>3, <2>4 DEF Carries
    <3> SUFFICES ASSUME NEW image \in ImageNames
                 PROVE  /\ Relies(todo', options', "fresh", image) =>
                              \A n \in LoopDevices : loops'[n] = image => n \notin dying'
                        /\ Relies(todo', options', "attached", image) =>
                              \E n \in LoopDevices : loops'[n] = image /\ n \notin dying'
                        /\ Relies(todo', options', "there", image) => image \in images'
      BY DEF HeldImages
    <3>2. Relies(todo', options', "fresh", image) =>
             \A n \in LoopDevices : loops'[n] = image => n \notin dying'
      BY <2>7, <3>1 DEF IInv, HeldImages
    <3>3. Relies(todo', options', "attached", image) =>
             \E n \in LoopDevices : loops'[n] = image /\ n \notin dying'
      <4>1. CASE image = Head(todo).arg
        BY <2>2, <2>7, <4>1
      <4>2. CASE image # Head(todo).arg
        <5> SUFFICES ASSUME Relies(todo', options', "attached", image)
                     PROVE  \E n \in LoopDevices : loops'[n] = image /\ n \notin dying'
          OBVIOUS
        <5>1. PICK n \in LoopDevices : loops[n] = image /\ n \notin dying
          BY <3>1, <4>2 DEF IInv, HeldImages
        <5> QED  BY <5>1, <2>6, <2>7
      <4> QED  BY <4>1, <4>2
    <3>4. Relies(todo', options', "there", image) => image \in images'
      BY <1>1, <3>1 DEF IInv, HeldImages
    <3> QED  BY <3>2, <3>3, <3>4
  <2>12. HeldReleased'
    <3>1. /\ Relies(todo', options', "is", "mnt") => Relies(todo, options, "is", "mnt")
          /\ Relies(todo', options', "is", "crypt") => Relies(todo, options, "is", "crypt")
          /\ ~Relies(todo', options', "is", "loops")
          /\ Relies(todo', options', "is", "work") => Relies(todo, options, "is", "work")
          /\ Relies(todo', options', "is", "empty") => Relies(todo, options, "is", "empty")
          /\ Relies(todo', options', "is", "kept") => Relies(todo, options, "is", "kept")
      BY <2>3, <2>4 DEF Carries
    <3>2. PICK node, u : node = binds["install"] /\ u = Target(options, "install")
      OBVIOUS
    <3>3. Firm(node, u) => Firm(node, u)'
      <4>1. Sound /\ node \in Nodes \cup {None} /\ u[1] \in Disks \cup ImageNames
        BY <3>2, Typed, TargetsTyped DEF Sound, TypeOK, Devices, Names
      <4> QED  BY <2>8, <4>1, FirmStays DEF LoopsStay
    <3>4. Firm(binds["install"], Target(options, "install")) =>
             Firm(binds["install"], Target(options, "install"))'
      BY <1>1, <3>2, <3>3 DEF Firm
    <3> QED  BY <1>1, <3>1, <3>4 DEF IInv, HeldReleased
  <2> QED  BY <2>3, <2>5, <2>9, <2>10, <2>11, <2>12, Assemble
<1> QED  BY <1>2, <1>3

LEMMA RemoveImageStep ==
    ASSUME IInv, RemoveImage
    PROVE  IInv'
<1> DEFINE image == Head(todo).arg
<1>1. /\ todo # <<>> /\ Head(todo).op = "remove_image" /\ options' = options /\ Continue
      /\ UNCHANGED <<native, uuid, files, binds, mnt, crypt, mapper, silent, mapped, imageMount,
                     fstab, options, confirmed, stale, runs>>
  BY DEF RemoveImage, At, memory
<1>2. Carries /\ image \in ImageNames
  BY <1>1, Carry DEF StepOK
<1>3. /\ \A kind, of : Sets(Head(todo), options, kind, of) => kind = "fresh" /\ of = image
      /\ \A of : Upsets(Head(todo), options, "node", of)
      /\ Upsets(Head(todo), options, "attached", image)
      /\ Upsets(Head(todo), options, "there", image)
      /\ Upsets(Head(todo), options, "is", "rootmount")
      /\ Upsets(Head(todo), options, "is", "bootmount")
      /\ Upsets(Head(todo), options, "is", "kept")
  BY <1>1 DEF Sets, Upsets
<1>4. HeldNodes' /\ HeldMounts' /\ HeldData'
  <2>1. HeldNodes' /\ HeldMounts'
    BY <1>2, <1>3 DEF HeldNodes, HeldMounts, Carries
  <2> QED  BY <1>1, <1>2, <1>3, <2>1, DataKept
<1>5. /\ Relies(todo', options', "is", "mnt") => Relies(todo, options, "is", "mnt")
      /\ Relies(todo', options', "is", "crypt") => Relies(todo, options, "is", "crypt")
      /\ Relies(todo', options', "is", "loops") => Relies(todo, options, "is", "loops")
      /\ Relies(todo', options', "is", "work") => Relies(todo, options, "is", "work")
      /\ Relies(todo', options', "is", "empty") => Relies(todo, options, "is", "empty")
      /\ ~Relies(todo', options', "is", "kept")
      /\ \A other \in ImageNames :
           /\ Relies(todo', options', "fresh", other) =>
                 other = image \/ Relies(todo, options, "fresh", other)
           /\ Relies(todo', options', "attached", other) =>
                 other # image /\ Relies(todo, options, "attached", other)
           /\ Relies(todo', options', "there", other) =>
                 other # image /\ Relies(todo, options, "there", other)
  BY <1>2, <1>3 DEF Carries
<1>6. CASE image \notin images
  <2>1. UNCHANGED <<images, table, loops, dying>>
    BY <1>6 DEF RemoveImage, X
  <2>2. Sound'
    BY <1>1, <2>1, Typed DEF Sound, TypeOK
  <2>3. \A n \in LoopDevices : loops[n] # image
    BY <1>2, <1>6 DEF IInv, LoopsBacked
  <2>4. HeldImages'
    BY <2>1, <2>3, <1>5 DEF IInv, HeldImages
  <2>5. HeldReleased'
    BY <1>1, <1>5, <2>1 DEF IInv, HeldReleased
  <2>6. LoopsBacked'
    BY <2>1, Backed
  <2> QED  BY <1>2, <1>4, <2>2, <2>4, <2>5, <2>6, Assemble
<1>7. CASE image \in images
  <2> DEFINE m == Min(Attached(image))
  <2>1. /\ images' = images \ {image}
        /\ table' = (table \ {image}) \cup (IF image \in table THEN {"gone"} ELSE {})
        /\ loops' = [n \in LoopDevices |-> IF loops[n] = image THEN "gone" ELSE loops[n]]
        /\ dying' = dying \cup (IF Attached(image) = {} THEN {} ELSE {m})
    BY <1>7 DEF RemoveImage, X
  <2>2. Attached(image) # {} => m \in LoopDevices /\ loops[m] = image
    BY <1>2, AttachedTo
  <2>3. /\ dying \subseteq dying' /\ dying' \subseteq LoopDevices
        /\ \A n \in dying' : n \in dying \/ loops[n] = image
    BY <2>1, <2>2, Typed DEF Sound, TypeOK
  <2> HIDE DEF m
  <2>4. /\ \A n \in LoopDevices : loops'[n] = IF loops[n] = image THEN "gone" ELSE loops[n]
        /\ loops' \in [LoopDevices -> {"free", "gone"} \cup ImageNames]
    BY <2>1, Typed DEF Sound, TypeOK
  <2>5. Sound'
    <3>1. images' \subseteq ImageNames /\ table' \subseteq Stores
      BY <2>1, Typed DEF Sound, TypeOK, Stores
    <3> QED  BY <1>1, <2>3, <2>4, <3>1, Typed DEF Sound, TypeOK
  <2>6. LoopsBacked'
    BY <1>2, <2>1, <2>4 DEF IInv, LoopsBacked, ImageNames
  <2>7. image # "gone" /\ image # "free"
    BY <1>2 DEF ImageNames
  <2>8. HeldImages'
    <3> SUFFICES ASSUME NEW other \in ImageNames
                 PROVE  /\ Relies(todo', options', "fresh", other) =>
                              \A n \in LoopDevices : loops'[n] = other => n \notin dying'
                        /\ Relies(todo', options', "attached", other) =>
                              \E n \in LoopDevices : loops'[n] = other /\ n \notin dying'
                        /\ Relies(todo', options', "there", other) => other \in images'
      BY DEF HeldImages
    <3>1. other # "gone"
      BY DEF ImageNames
    <3>2. Relies(todo', options', "fresh", other) =>
             \A n \in LoopDevices : loops'[n] = other => n \notin dying'
      BY <1>5, <2>3, <2>4, <3>1 DEF IInv, HeldImages
    <3>3. ASSUME Relies(todo', options', "attached", other)
          PROVE  \E n \in LoopDevices : loops'[n] = other /\ n \notin dying'
      <4>1. PICK n \in LoopDevices : loops[n] = other /\ n \notin dying
        BY <1>5, <3>3 DEF IInv, HeldImages
      <4>2. other # image
        BY <1>5, <3>3
      <4> QED  BY <2>3, <2>4, <4>1, <4>2
    <3>4. Relies(todo', options', "there", other) => other \in images'
      BY <1>5, <2>1 DEF IInv, HeldImages
    <3> QED  BY <3>2, <3>3, <3>4
  <2>9. HeldReleased'
    <3>1. Relies(todo, options, "is", "loops") =>
             \A n \in LoopDevices : loops'[n] = "free" \/ n \in dying'
      BY <2>3, <2>4, <2>7 DEF IInv, HeldReleased
    <3> QED  BY <1>1, <1>5, <3>1 DEF IInv, HeldReleased
  <2> QED  BY <1>2, <1>4, <2>5, <2>6, <2>8, <2>9, Assemble
<1> QED  BY <1>6, <1>7

-----------------------------------------------------------------------------
(* ... and by those of the native chroot.                                  *)

LEMMA DeleteNativeStep ==
    ASSUME IInv, DeleteNative
    PROVE  IInv'
<1>1. /\ todo # <<>> /\ Head(todo).op = "delete_native" /\ options' = options /\ Continue
      /\ native' = FALSE /\ images' = {}
      /\ loops' = [n \in LoopDevices |-> IF loops[n] \in ImageNames THEN "gone" ELSE loops[n]]
      /\ table' = (table \ ImageNames) \cup (IF "full" \in table THEN {"gone"} ELSE {})
      /\ binds' = [n \in Names |-> None]
      /\ mnt' = <<>> /\ mapper' = FALSE
      /\ UNCHANGED <<uuid, files, dying, crypt, silent, mapped, imageMount,
                     fstab, options, confirmed, stale, runs>>
  BY DEF DeleteNative, At, memory
<1>2. Carries
  BY <1>1, Carry
<1>3. /\ \A kind, of : Sets(Head(todo), options, kind, of) => kind = "is" /\ of \in {"empty", "kept"}
      /\ \A of : /\ Upsets(Head(todo), options, "node", of)
                 /\ Upsets(Head(todo), options, "attached", of)
                 /\ Upsets(Head(todo), options, "there", of)
      /\ Upsets(Head(todo), options, "is", "rootmount")
      /\ Upsets(Head(todo), options, "is", "bootmount")
  BY <1>1 DEF Sets, Upsets
<1>4. \A n \in LoopDevices : loops'[n] \notin ImageNames /\ (loops[n] = "free" => loops'[n] = "free")
  BY <1>1 DEF ImageNames
<1>5. Sound'
  <2>1. loops' \in [LoopDevices -> {"free", "gone"} \cup ImageNames]
    BY <1>1, Typed DEF Sound, TypeOK
  <2>2. table' \subseteq Stores /\ binds' \in [Names -> Nodes \cup {None}]
    BY <1>1, Typed DEF Sound, TypeOK, Stores
  <2>3. mnt' \in Seq([at : {"root", "boot"}, dev : Nodes \cup {None}])
    BY <1>1
  <2>4. Relies(todo, options, "is", "crypt")
    BY <1>1, Carry DEF Reads
  <2>5. crypt = None \/ silent
    BY <2>4 DEF IInv, HeldReleased
  <2> QED  BY <1>1, <2>1, <2>2, <2>3, <2>5, Typed DEF Sound, TypeOK
<1>6. LoopsBacked'
  BY <1>4 DEF LoopsBacked
<1>7. HeldNodes' /\ HeldMounts'
  BY <1>2, <1>3 DEF HeldNodes, HeldMounts, Carries
<1>8. HeldData'
  BY <1>1, <1>2, <1>3, DataKept
<1>9. HeldImages'
  BY <1>2, <1>3, <1>4 DEF HeldImages, Carries
<1>10. HeldReleased'
  <2>1. /\ Relies(todo', options', "is", "crypt") => Relies(todo, options, "is", "crypt")
        /\ Relies(todo', options', "is", "loops") => Relies(todo, options, "is", "loops")
        /\ Relies(todo', options', "is", "work") => Relies(todo, options, "is", "work")
    BY <1>2, <1>3 DEF Carries
  <2>2. (\A n \in Names : binds'[n] = None) /\ binds'["install"] = None
    BY <1>1 DEF Names
  <2> QED  BY <1>1, <1>4, <2>1, <2>2 DEF IInv, HeldReleased
<1> QED  BY <1>2, <1>5, <1>6, <1>7, <1>8, <1>9, <1>10, Assemble

LEMMA Cut ==
    ASSUME NEW S, NEW s \in Seq(S), NEW k \in 0..Len(s)
    PROVE  SubSeq(s, 1, k) \in Seq(S)
<1>1. Len(s) \in Nat
  BY LenProperties
<1>2. 1 \in 1..(Len(s) + 1) /\ k \in (1 - 1)..Len(s)
  BY <1>1
<1> QED  BY <1>1, <1>2, SubSeqProperties

LEMMA UmountMntStep ==
    ASSUME IInv, UmountMnt
    PROVE  IInv'
<1>1. /\ todo # <<>> /\ Head(todo).op = "umount_mnt" /\ options' = options
      /\ UNCHANGED <<native, images, table, uuid, files, loops, dying, binds, crypt, mapper, silent, mapped,
                     imageMount, fstab, options, confirmed, stale, runs>>
  BY DEF UmountMnt, At, memory, storage
<1>2. \/ Continue /\ mnt' = mnt /\ Head(todo).arg \in ImageNames
      \/ Continue /\ mnt' = <<>>
      \/ Abort /\ ~AtMostOne(Roots) /\ mnt' = SubSeq(mnt, 1, Len(mnt) - Unmounted)
  BY DEF UmountMnt, X
<1>3. Sound'
  <2>1. /\ mnt \in Seq([at : {"root", "boot"}, dev : Nodes \cup {None}])
        /\ Len(mnt) \in Nat /\ DOMAIN mnt = 1..Len(mnt)
    BY Typed, MountTyped DEF Sound, TypeOK
  <2>2. mnt' \in Seq([at : {"root", "boot"}, dev : Nodes \cup {None}])
    <3>1. CASE mnt' = mnt
      BY <2>1, <3>1
    <3>3. CASE mnt' = <<>>
      BY <3>3
    <3>2. CASE ~AtMostOne(Roots) /\ mnt' = SubSeq(mnt, 1, Len(mnt) - Unmounted)
      <4>1. PICK j \in Roots, k \in Roots : j # k
        BY <3>2 DEF AtMostOne
      <4>2. j \in 1..Len(mnt) /\ k \in 1..Len(mnt)
        BY <2>1, <4>1 DEF Roots
      <4>3. Unmounted = 0 \/ Unmounted = 1 \/ Unmounted = 2
        BY DEF Unmounted
      <4>4. Len(mnt) - Unmounted \in 0..Len(mnt)
        BY <2>1, <4>1, <4>2, <4>3
      <4> HIDE DEF Unmounted
      <4> QED  BY <2>1, <3>2, <4>4, Cut
    <3> QED  BY <1>2, <3>1, <3>2, <3>3
  <2> QED  BY <1>1, <2>2, Typed DEF Sound, TypeOK
<1>4. CASE Abort
  BY <1>1, <1>3, <1>4, Aborts DEF Abort
<1>5. CASE Continue /\ ((mnt' = mnt /\ Head(todo).arg \in ImageNames) \/ mnt' = <<>>)
  <2>1. Carries
    BY <1>1, <1>5, Carry
  <2>2. /\ \A kind, of : Sets(Head(todo), options, kind, of) =>
              kind = "is" /\ of = "mnt" /\ Head(todo).arg = "install"
        /\ Upsets(Head(todo), options, "is", "rootmount")
        /\ Upsets(Head(todo), options, "is", "bootmount")
    BY <1>1 DEF Sets, Upsets
  <2>3. LoopsStay /\ table \subseteq table'
    BY <1>1 DEF LoopsStay
  <2>4. LoopsBacked' /\ HeldNodes' /\ HeldImages' /\ HeldData'
    BY <1>1, <2>1, <2>2, <2>3, Backed, NodesKept, ImagesKept, DataKept
  <2>5. HeldMounts'
    BY <2>1, <2>2 DEF HeldMounts, Carries
  <2>6. HeldReleased'
    <3>1. /\ Relies(todo', options', "is", "mnt") =>
                Head(todo).arg = "install" \/ Relies(todo, options, "is", "mnt")
          /\ Relies(todo', options', "is", "crypt") => Relies(todo, options, "is", "crypt")
          /\ Relies(todo', options', "is", "loops") => Relies(todo, options, "is", "loops")
          /\ Relies(todo', options', "is", "work") => Relies(todo, options, "is", "work")
          /\ Relies(todo', options', "is", "empty") => Relies(todo, options, "is", "empty")
          /\ Relies(todo', options', "is", "kept") => Relies(todo, options, "is", "kept")
      BY <2>1, <2>2 DEF Carries
    <3>2. Relies(todo', options', "is", "mnt") => mnt' = <<>>
      BY <1>5, <3>1 DEF IInv, HeldReleased, ImageNames
    <3> QED  BY <1>1, <3>1, <3>2 DEF IInv, HeldReleased, Firm
  <2> QED  BY <1>3, <2>1, <2>4, <2>5, <2>6, Assemble
<1> QED  BY <1>2, <1>4, <1>5

(* Steps that create_rootfs puts in front of the rest, t.                  *)
LEMMA ReleaseAndDelete ==
    ASSUME NEW t \in Seq(StepType), NEW o, Proper(t, o),
           \A of : /\ ~Relies(t, o, "node", of) /\ ~Relies(t, o, "fresh", of)
                   /\ ~Relies(t, o, "attached", of) /\ ~Relies(t, o, "there", of),
           ~Relies(t, o, "is", "rootmount"), ~Relies(t, o, "is", "bootmount")
    PROVE  LET s == (ReleaseSteps \o <<Step("delete_native", "native")>>) \o t
           IN  /\ s \in Seq(StepType) /\ Proper(s, o)
               /\ \A kind, of : Relies(s, o, kind, of) => Relies(t, o, kind, of)
<1> DEFINE a == Step("delete_native", "native")
           t1 == <<a>> \o t
<1>1. a \in StepType /\ a.op = "delete_native" /\ StepOK(a, o)
  BY StepTyped DEF Ops, Args, Step, StepOK
<1> HIDE DEF a
<1>2. /\ t1 \in Seq(StepType) /\ Proper(t1, o)
      /\ \A kind, of : Relies(t1, o, kind, of) =>
            \/ Relies(t, o, kind, of) /\ ~(kind = "is" /\ of = "kept")
            \/ kind = "is" /\ of = "crypt"
  <2>1. \A kind, of : Relies(t, o, kind, of) => ~Upsets(a, o, kind, of)
    BY <1>1 DEF Upsets
  <2>2. \A kind, of : Reads(a, o, kind, of) => kind = "is" /\ of = "crypt"
    BY <1>1 DEF Reads, Uses
  <2>3. Sets(a, o, "is", "kept")
    BY <1>1 DEF Sets
  <2> QED  BY <1>1, <2>1, <2>2, <2>3, Prepend
<1>3. ReleaseSteps \in Seq(StepType) /\ (ReleaseSteps \o <<a>>) \o t = ReleaseSteps \o t1
  <2>1. ReleaseSteps \in Seq(StepType)
    BY NothingLeft, Release
  <2>2. <<a>> \in Seq(StepType)
    BY <1>1
  <2> QED  BY <2>1, <2>2 DEF t1
<1> HIDE DEF t1
<1>4. /\ \A of : /\ ~Relies(t1, o, "node", of) /\ ~Relies(t1, o, "fresh", of)
                 /\ ~Relies(t1, o, "attached", of)
      /\ ~Relies(t1, o, "is", "rootmount") /\ ~Relies(t1, o, "is", "bootmount")
      /\ ~Relies(t1, o, "is", "kept")
  BY <1>2
<1>5. /\ ReleaseSteps \o t1 \in Seq(StepType) /\ Proper(ReleaseSteps \o t1, o)
      /\ \A kind, of : Relies(ReleaseSteps \o t1, o, kind, of) =>
            Relies(t1, o, kind, of) /\ ~(kind = "is" /\ of = "crypt")
  BY <1>2, <1>4, Release
<1> QED  BY <1>2, <1>3, <1>5 DEF a

LEMMA CreateRootfsStep ==
    ASSUME IInv, CreateRootfs
    PROVE  IInv'
<1> DEFINE t == Tail(todo)
           s == (ReleaseSteps \o <<Step("delete_native", "native")>>) \o t
<1>1. /\ todo # <<>> /\ Head(todo).op = "create_rootfs" /\ options' = options
      /\ UNCHANGED <<storage, kernel, fstab, options, confirmed, stale, runs, native>>
      /\ todo' = t \/ todo' = s
  BY DEF CreateRootfs, At, memory, Continue, Replace
<1>2. /\ t \in Seq(StepType) /\ Proper(t, options)
      /\ \A kind, of : Relies(t, options, kind, of) =>
            /\ Sets(Head(todo), options, kind, of) \/ Relies(todo, options, kind, of)
            /\ ~Upsets(Head(todo), options, kind, of)
  <2>1. todo \in Seq(StepType) /\ Proper(todo, options)
    BY DEF IInv
  <2> QED  BY <1>1, <2>1, Rest
<1>3. /\ \A kind, of : ~Sets(Head(todo), options, kind, of)
      /\ \A of : /\ Upsets(Head(todo), options, "node", of)
                 /\ Upsets(Head(todo), options, "fresh", of)
                 /\ Upsets(Head(todo), options, "attached", of)
                 /\ Upsets(Head(todo), options, "there", of)
      /\ Upsets(Head(todo), options, "is", "rootmount")
      /\ Upsets(Head(todo), options, "is", "bootmount")
  BY <1>1 DEF Sets, Upsets
<1> HIDE DEF t
<1>4. /\ s \in Seq(StepType) /\ Proper(s, options)
      /\ \A kind, of : Relies(s, options, kind, of) => Relies(t, options, kind, of)
  <2>1. /\ \A of : /\ ~Relies(t, options, "node", of) /\ ~Relies(t, options, "fresh", of)
                   /\ ~Relies(t, options, "attached", of) /\ ~Relies(t, options, "there", of)
        /\ ~Relies(t, options, "is", "rootmount") /\ ~Relies(t, options, "is", "bootmount")
    BY <1>2, <1>3
  <2> QED  BY <1>2, <2>1, ReleaseAndDelete
<1> HIDE DEF s
<1>5. Carries
  BY <1>1, <1>2, <1>3, <1>4 DEF Carries
<1>6. Sound'
  <2>1. UNCHANGED <<native, images, table, uuid, files, loops, dying, binds, mnt, crypt, mapper, silent, mapped,
                    imageMount, fstab, options, confirmed, stale, runs>>
    BY <1>1 DEF storage, kernel
  <2> QED  BY <2>1, Typed DEF Sound, TypeOK
<1> QED  BY <1>1, <1>3, <1>5, <1>6, Still

(* Steps that ensure_native puts in front of the rest.                     *)
LEMMA InitAndBind ==
    ASSUME NEW t \in Seq(StepType), NEW o, o.disk # None => ~o.split, Proper(t, o),
           ~Relies(t, o, "is", "kept"), ~Relies(t, o, "is", "work"), ~Relies(t, o, "is", "empty")
    PROVE  LET s == (<<Step("init_native", "native")>> \o HandleDiskMount(o)) \o t
           IN  /\ s \in Seq(StepType) /\ Proper(s, o)
               /\ \A kind, of : Relies(s, o, kind, of) =>
                     Relies(t, o, kind, of) /\ ~(o.disk # None /\ kind = "node" /\ of = "install")
<1> DEFINE i == Step("init_native", "native")
           a == Step("unbind", "install")
           b == Step("bind_disk", "install")
           c == Step("confirm", "disk")
           t1 == <<c>> \o t
           t2 == <<b>> \o t1
           t3 == <<a>> \o t2
           r == HandleDiskMount(o) \o t
           s == (<<i>> \o HandleDiskMount(o)) \o t
<1>1. i \in StepType /\ a \in StepType /\ b \in StepType /\ c \in StepType
  BY StepTyped DEF Ops, Args, Devices, Names
<1>2. /\ i.op = "init_native" /\ a.op = "unbind" /\ b.op = "bind_disk" /\ c.op = "confirm"
      /\ a.arg = "install"
  BY StepFacts
<1>3. HandleDiskMount(o) = IF o.disk # None THEN <<a, b, c>> ELSE <<>>
  BY DEF HandleDiskMount, When
<1>4. <<a, b, c>> = (<<a>> \o <<b>>) \o <<c>>
  BY <1>1, Two, Three
<1> HIDE DEF i, a, b, c
<1>5. /\ <<i>> \in Seq(StepType) /\ <<a>> \in Seq(StepType) /\ <<b>> \in Seq(StepType)
      /\ <<c>> \in Seq(StepType) /\ HandleDiskMount(o) \in Seq(StepType)
  BY <1>1, <1>3
<1>6. s = <<i>> \o r
  <2> HIDE DEF HandleDiskMount
  <2> QED  BY <1>5
<1>7. StepOK(i, o) /\ StepOK(a, o) /\ (o.disk # None => StepOK(b, o) /\ StepOK(c, o))
  BY <1>2 DEF StepOK
<1>8. /\ r \in Seq(StepType) /\ Proper(r, o)
      /\ \A kind, of : Relies(r, o, kind, of) =>
            Relies(t, o, kind, of) /\ ~(o.disk # None /\ kind = "node" /\ of = "install")
  <2>1. CASE o.disk = None
    <3>1. r = t
      BY <1>3, <2>1
    <3> QED  BY <2>1, <3>1
  <2>2. CASE o.disk # None
    <3>1. r = t3
      <4>1. r = ((<<a>> \o <<b>>) \o <<c>>) \o t
        BY <1>3, <1>4, <2>2
      <4>2. ((<<a>> \o <<b>>) \o <<c>>) \o t = (<<a>> \o <<b>>) \o (<<c>> \o t)
        BY <1>5
      <4>3. <<c>> \o t \in Seq(StepType)
        BY <1>5
      <4> HIDE DEF t1
      <4>4. (<<a>> \o <<b>>) \o t1 = <<a>> \o (<<b>> \o t1)
        BY <1>5, <4>3 DEF t1
      <4> QED  BY <4>1, <4>2, <4>4 DEF t1
    <3>2. /\ t1 \in Seq(StepType) /\ Proper(t1, o)
          /\ \A kind, of : Relies(t1, o, kind, of) => Relies(t, o, kind, of)
      <4>1. \A kind, of : ~Upsets(c, o, kind, of) /\ ~Reads(c, o, kind, of)
        BY <1>2 DEF Upsets, Reads, Uses
      <4> QED  BY <1>1, <1>7, <2>2, <4>1, Prepend
    <3> HIDE DEF t1
    <3>3. /\ t2 \in Seq(StepType) /\ Proper(t2, o)
          /\ \A kind, of : Relies(t2, o, kind, of) =>
                /\ (kind = "is" /\ of = "empty") \/ Relies(t1, o, kind, of)
                /\ ~(kind = "node" /\ of = "install") /\ ~(kind = "is" /\ of = "kept")
      <4>1. \A kind, of : Relies(t1, o, kind, of) => ~Upsets(b, o, kind, of)
        BY <1>2, <3>2 DEF Upsets
      <4>2. \A kind, of : Reads(b, o, kind, of) => kind = "is" /\ of = "empty"
        BY <1>2 DEF Reads, Uses
      <4>3. Sets(b, o, "node", "install") /\ Sets(b, o, "is", "kept")
        BY <1>2 DEF Sets
      <4> QED  BY <1>1, <1>7, <2>2, <3>2, <4>1, <4>2, <4>3, Prepend
    <3> HIDE DEF t2
    <3>4. /\ t3 \in Seq(StepType) /\ Proper(t3, o)
          /\ \A kind, of : Relies(t3, o, kind, of) =>
                Relies(t2, o, kind, of) /\ ~(kind = "is" /\ of = "empty")
      <4>1. \A kind, of : Upsets(a, o, kind, of) => \/ kind = "node" /\ of = "install"
                                                    \/ kind = "is" /\ of = "kept"
        BY <1>2 DEF Upsets
      <4>2. \A kind, of : Relies(t2, o, kind, of) => ~Upsets(a, o, kind, of)
        BY <3>3, <4>1
      <4>3. (\A kind, of : ~Reads(a, o, kind, of)) /\ Sets(a, o, "is", "empty")
        BY <1>2 DEF Reads, Uses, Sets
      <4> QED  BY <1>1, <1>7, <3>3, <4>2, <4>3, Prepend
    <3> HIDE DEF t3
    <3> QED  BY <3>1, <3>2, <3>3, <3>4
  <2> QED  BY <2>1, <2>2
<1> HIDE DEF r, s
<1>9. /\ <<i>> \o r \in Seq(StepType) /\ Proper(<<i>> \o r, o)
      /\ \A kind, of : Relies(<<i>> \o r, o, kind, of) => Relies(r, o, kind, of)
  <2>1. \A kind, of : Upsets(i, o, kind, of) => kind = "is" /\ of = "kept"
    BY <1>2 DEF Upsets
  <2>2. \A kind, of : Relies(r, o, kind, of) => ~Upsets(i, o, kind, of)
    BY <1>8, <2>1
  <2>3. \A kind, of : ~Reads(i, o, kind, of)
    BY <1>2 DEF Reads, Uses
  <2> QED  BY <1>1, <1>7, <1>8, <2>2, <2>3, Prepend
<1> QED  BY <1>6, <1>8, <1>9 DEF s, i

LEMMA EnsureNativeStep ==
    ASSUME IInv, EnsureNative
    PROVE  IInv'
<1> DEFINE t == Tail(todo)
           s == (<<Step("init_native", "native")>> \o HandleDiskMount(options)) \o t
<1>1. /\ todo # <<>> /\ Head(todo).op = "ensure_native" /\ options' = options
      /\ UNCHANGED <<native, images, table, uuid, files, loops, dying, binds, mnt, crypt, mapper, silent, mapped,
                     imageMount, fstab, options, confirmed, stale, runs>>
  BY DEF EnsureNative, At, memory, storage, kernel
<1>2. /\ t \in Seq(StepType) /\ Proper(t, options)
      /\ \A kind, of : Relies(t, options, kind, of) =>
            /\ Sets(Head(todo), options, kind, of) \/ Relies(todo, options, kind, of)
            /\ ~Upsets(Head(todo), options, kind, of)
  <2>1. todo \in Seq(StepType) /\ Proper(todo, options)
    BY DEF IInv
  <2> QED  BY <1>1, <2>1, Rest
<1>3. IF native THEN todo' = t ELSE todo' = s
  <2>1. <<>> \o t = t
    BY <1>2
  <2> QED  BY <2>1 DEF EnsureNative, Replace, When
<1>4. /\ \A kind, of : Sets(Head(todo), options, kind, of) =>
            kind = "node" /\ of = "install" /\ options.disk # None
      /\ Upsets(Head(todo), options, "is", "kept") /\ Upsets(Head(todo), options, "is", "work")
      /\ Upsets(Head(todo), options, "is", "empty")
      /\ options.disk # None => Reads(Head(todo), options, "is", "kept")
  BY <1>1 DEF Sets, Upsets, Reads
<1> HIDE DEF t
<1>5. ~native =>
         /\ s \in Seq(StepType) /\ Proper(s, options)
         /\ \A kind, of : Relies(s, options, kind, of) =>
               /\ Relies(t, options, kind, of)
               /\ ~(options.disk # None /\ kind = "node" /\ of = "install")
  <2>1. options.disk # None => ~options.split
    BY <1>1, Carry DEF StepOK
  <2>2. /\ ~Relies(t, options, "is", "kept") /\ ~Relies(t, options, "is", "work")
        /\ ~Relies(t, options, "is", "empty")
    BY <1>2, <1>4
  <2> QED  BY <1>2, <2>1, <2>2, InitAndBind
<1> HIDE DEF s
<1>6. Carries
  BY <1>1, <1>2, <1>3, <1>5 DEF Carries
<1>7. Sound'
  BY <1>1, Typed DEF Sound, TypeOK
<1>8. LoopsStay /\ table \subseteq table'
  BY <1>1 DEF LoopsStay
<1>9. LoopsBacked' /\ HeldImages' /\ HeldReleased' /\ HeldMounts' /\ HeldData'
  BY <1>1, <1>4, <1>6, <1>8, Backed, ImagesKept, ReleasedKept, MountsKept, DataKept
<1>10. HeldNodes'
  <2> SUFFICES ASSUME NEW device \in Devices, Relies(todo', options', "node", device)
               PROVE  (Excused(device) \/ Firm(DeviceOf(device), Target(options, device)))'
    BY DEF HeldNodes
  <2>1. CASE options.disk # None /\ device = "install"
    <3>1. native /\ Relies(todo, options, "is", "kept")
      BY <1>1, <1>3, <1>4, <1>5, <2>1, Carry
    <3>2. Firm(binds["install"], Target(options, "install"))
      BY <3>1 DEF IInv, HeldReleased
    <3> QED  BY <1>1, <2>1, <3>2 DEF Firm, DeviceOf
  <2>2. CASE ~(options.disk # None /\ device = "install")
    <3>1. DeviceOf(device)' = DeviceOf(device)
      BY <1>1 DEF DeviceOf
    <3>2. ~Sets(Head(todo), options, "node", device)
      BY <1>4, <2>2
    <3> QED  BY <1>1, <1>6, <1>8, <3>1, <3>2, NodeKept
  <2> QED  BY <2>1, <2>2
<1> QED  BY <1>6, <1>7, <1>9, <1>10, Assemble

-----------------------------------------------------------------------------
(* ... and by those that bind devices to /dev/install and its partitions.  *)

(* What is to write to an image is only relied on while the loop devices   *)
(* of that image are fresh: remove_image comes before what binds.          *)
LEMMA FreshFor ==
    ASSUME NEW s \in Seq(StepType), NEW o, Proper(s, o), o.disk = None, NEW name \in Names,
           Relies(s, o, "node", name)
    PROVE  Relies(s, o, "fresh", UnitNamed(o, name)[1])
<1> DEFINE image == UnitNamed(o, name)[1]
<1>1. PICK k \in 1..Len(s) :
           Reads(s[k], o, "node", name) /\ \A i \in 1..k-1 : ~Sets(s[i], o, "node", name)
  BY DEF Relies
<1>2. Reads(s[k], o, "fresh", image)
  <2>1. Uses(s[k], o, name)
    BY <1>1 DEF Reads
  <2> QED  BY <2>1 DEF Reads
<1> HIDE DEF image
<1>3. ASSUME NEW i \in 1..k-1, Sets(s[i], o, "fresh", image)
      PROVE  FALSE
  <2>1. Len(s) \in Nat /\ i \in 1..Len(s) /\ i < k
    BY SeqFacts
  <2>2. Upsets(s[i], o, "node", name)
    BY <1>3 DEF Sets, Upsets
  <2>3. PICK j \in i+1..k-1 : Sets(s[j], o, "node", name)
    BY <1>1, <2>1, <2>2 DEF Proper, Calm
  <2>4. j \in 1..k-1
    BY <2>1, <2>3
  <2> QED  BY <1>1, <2>3, <2>4
<1> QED  BY <1>1, <1>2, <1>3 DEF Relies, image

LEMMA Binding ==
    ASSUME IInv, Carries, NEW name \in Names, NEW node \in Nodes, Bind(name, node),
           UNCHANGED <<native, images, table, uuid, files, loops, dying, mnt, crypt, mapper, silent, mapped,
                       imageMount, fstab, options, confirmed, runs>>,
           \A kind, of : Sets(Head(todo), options, kind, of) =>
              (kind = "node" /\ of = name) \/ (kind = "is" /\ of = "kept"),
           Upsets(Head(todo), options, "is", "work"),
           name = "install" => binds["install"] = None /\ Upsets(Head(todo), options, "is", "empty"),
           Relies(todo', options', "node", name) /\ binds[name] \in {None, node} =>
              Firm(node, Target(options, name)),
           Relies(todo', options', "is", "kept") /\ native =>
              Firm(binds["install"], Target(options, "install"))'
    PROVE  IInv'
<1>1. /\ binds' = IF binds[name] = None THEN [binds EXCEPT ![name] = node] ELSE binds
      /\ stale' = (stale \/ (name # "install" /\ binds[name] \notin {None, node}))
  BY DEF Bind
<1>2. /\ \A other \in Names : other # name => binds'[other] = binds[other]
      /\ binds[name] \in {None, node} => binds'[name] = node
      /\ stale => stale'
      /\ name # "install" /\ binds[name] \notin {None, node} => stale'
  BY <1>1, Typed DEF Sound, TypeOK
<1>3. Sound'
  <2>1. binds' \in [Names -> Nodes \cup {None}]
    BY <1>1, Typed DEF Sound, TypeOK
  <2>2. stale' \in BOOLEAN
    BY <1>1
  <2> QED  BY <2>1, <2>2, Typed DEF Sound, TypeOK
<1>4. LoopsStay /\ table \subseteq table'
  BY DEF LoopsStay
<1>5. LoopsBacked' /\ HeldImages' /\ HeldMounts' /\ HeldData'
  BY <1>2, <1>4, Backed, ImagesKept, MountsKept, DataKept
<1>6. HeldNodes'
  <2> SUFFICES ASSUME NEW device \in Devices, Relies(todo', options', "node", device)
               PROVE  (Excused(device) \/ Firm(DeviceOf(device), Target(options, device)))'
    BY DEF HeldNodes
  <2>1. CASE device # name
    <3>1. DeviceOf(device)' = DeviceOf(device)
      BY <1>2, <2>1 DEF DeviceOf, Devices
    <3> QED  BY <1>2, <1>4, <2>1, <3>1, NodeKept
  <2>2. CASE device = name /\ binds[name] \in {None, node}
    <3>1. Firm(node, Target(options, name))
      BY <2>2
    <3>2. DeviceOf(device)' = node
      BY <1>2, <2>2 DEF DeviceOf, Names
    <3> QED  BY <2>2, <3>1, <3>2 DEF Firm
  <2>3. CASE device = name /\ binds[name] \notin {None, node}
    BY <1>2, <2>3 DEF Excused, Misbound
  <2> QED  BY <2>1, <2>2, <2>3
<1>7. HeldReleased'
  <2>1. /\ Relies(todo', options', "is", "mnt") => Relies(todo, options, "is", "mnt")
        /\ Relies(todo', options', "is", "crypt") => Relies(todo, options, "is", "crypt")
        /\ Relies(todo', options', "is", "loops") => Relies(todo, options, "is", "loops")
        /\ ~Relies(todo', options', "is", "work")
        /\ Relies(todo', options', "is", "empty") =>
              name # "install" /\ Relies(todo, options, "is", "empty")
    BY DEF Carries
  <2>2. Relies(todo', options', "is", "empty") => binds'["install"] = None
    BY <1>2, <2>1 DEF IInv, HeldReleased, Names
  <2>3. Relies(todo', options', "is", "kept") =>
           (native => Firm(binds["install"], Target(options, "install")))'
    OBVIOUS
  <2> QED  BY <2>1, <2>2, <2>3 DEF IInv, HeldReleased
<1> QED  BY <1>3, <1>5, <1>6, <1>7, Assemble

(* Whether /dev/install is kept, when the step does not say so itself.     *)
LEMMA StillKept ==
    ASSUME IInv, Carries, ~Sets(Head(todo), options, "is", "kept"),
           UNCHANGED <<native, loops, dying, options>>,
           binds["install"] = None \/ binds'["install"] = binds["install"]
    PROVE  Relies(todo', options', "is", "kept") /\ native =>
              Firm(binds["install"], Target(options, "install"))'
<1> SUFFICES ASSUME Relies(todo', options', "is", "kept"), native
             PROVE  Firm(binds["install"], Target(options, "install"))'
  OBVIOUS
<1>1. Firm(binds["install"], Target(options, "install"))
  BY DEF Carries, IInv, HeldReleased
<1>2. binds["install"] # None /\ Target(options, "install")[2] = 0
  BY <1>1, InstallWhole DEF Firm
<1> QED  BY <1>1, <1>2 DEF Firm

LEMMA BindDiskStep ==
    ASSUME IInv, BindDisk
    PROVE  IInv'
<1> DEFINE node == [on |-> options.disk, part |-> 0]
<1>1. /\ todo # <<>> /\ Head(todo).op = "bind_disk" /\ options' = options /\ Continue
      /\ Bind("install", node)
      /\ UNCHANGED <<native, images, table, uuid, files, loops, dying, mnt, crypt, mapper, silent, mapped,
                     imageMount, fstab, options, confirmed, runs>>
  BY DEF BindDisk, At, memory, storage
<1>2. /\ Carries /\ options.disk # None /\ ~options.split
      /\ Relies(todo, options, "is", "empty")
  BY <1>1, Carry DEF StepOK, Reads
<1>3. /\ \A kind, of : Sets(Head(todo), options, kind, of) =>
            (kind = "node" /\ of = "install") \/ (kind = "is" /\ of = "kept")
      /\ Upsets(Head(todo), options, "is", "work") /\ Upsets(Head(todo), options, "is", "empty")
  BY <1>1 DEF Sets, Upsets
<1>4. binds["install"] = None
  BY <1>2 DEF IInv, HeldReleased
<1>5. options.disk \in Disks
  BY <1>2, Typed DEF Sound, TypeOK, Options
<1>6. node \in Nodes /\ node # None /\ node.on = options.disk /\ node.part = 0
  BY <1>5, NoneAssumption DEF Nodes, Parts
<1>7. Target(options, "install") = <<options.disk, 0>>
  BY <1>2 DEF Target, UnitNamed, StoreOfImage
<1>8. Firm(node, Target(options, "install"))
  BY <1>5, <1>6, <1>7 DEF Firm
<1>9. Firm(binds["install"], Target(options, "install"))'
  <2>1. binds'["install"] = node
    BY <1>1, <1>4, Typed DEF Bind, Sound, TypeOK, Names
  <2> QED  BY <1>1, <1>8, <2>1 DEF Firm
<1>10. "install" \in Names
  BY DEF Names
<1> HIDE DEF node
<1> QED  BY <1>1, <1>2, <1>3, <1>4, <1>6, <1>8, <1>9, <1>10, Binding

LEMMA BindImageStep ==
    ASSUME IInv, BindImage
    PROVE  IInv'
<1> DEFINE image == Head(todo).arg[1]
           name == Head(todo).arg[2]
           n == Min(Attached(image))
           node == [on |-> n, part |-> 0]
<1>1. /\ todo # <<>> /\ Head(todo).op = "bind_image" /\ options' = options /\ Continue
      /\ Bind(name, node)
      /\ UNCHANGED <<native, images, table, uuid, files, loops, dying, mnt, crypt, mapper, silent, mapped,
                     imageMount, fstab, options, confirmed, runs>>
  BY DEF BindImage, At, X, memory, storage
<1>2. /\ Carries /\ image \in ImageNames /\ name \in Names /\ options.disk = None
      /\ UnitNamed(options, name) = <<image, 0>>
      /\ Relies(todo, options, "attached", image)
      /\ name = "install" => Relies(todo, options, "is", "empty")
  BY <1>1, Carry DEF StepOK, Reads
<1>3. /\ \A kind, of : Sets(Head(todo), options, kind, of) => kind = "node" /\ of = name
      /\ Upsets(Head(todo), options, "is", "work")
      /\ name = "install" => Upsets(Head(todo), options, "is", "empty")
  BY <1>1 DEF Sets, Upsets
<1>4. name = "install" => binds["install"] = None
  BY <1>2 DEF IInv, HeldReleased
<1>5. n \in LoopDevices /\ loops[n] = image
  <2>1. \E m \in LoopDevices : loops[m] = image /\ m \notin dying
    BY <1>2 DEF IInv, HeldImages
  <2>2. \A m \in LoopDevices : loops[m] = image /\ m \notin dying => ~Free(m)
    BY <1>2 DEF Free, ImageNames
  <2>3. Attached(image) # {}
    BY <2>1, <2>2 DEF Attached
  <2> QED  BY <1>2, <2>3, AttachedTo
<1> HIDE DEF n
<1>6. node \in Nodes /\ node # None /\ node.on = n /\ node.part = 0
  BY <1>5, NoneAssumption DEF Nodes, Parts
<1> HIDE DEF node
<1>7. Relies(todo', options', "node", name) => Firm(node, Target(options, name))
  <2> SUFFICES ASSUME Relies(todo', options', "node", name)
               PROVE  Firm(node, Target(options, name))
    OBVIOUS
  <2>1. Relies(todo', options', "fresh", UnitNamed(options', name)[1])
    BY <1>1, <1>2, FreshFor DEF Carries
  <2>2. UnitNamed(options', name)[1] = image
    BY <1>1, <1>2
  <2>3. Relies(todo, options, "fresh", image)
    BY <1>2, <1>3, <2>1, <2>2 DEF Carries
  <2>4. n \notin dying
    BY <1>2, <1>5, <2>3 DEF IInv, HeldImages
  <2>5. Target(options, name) = <<image, 0>>
    BY <1>2 DEF Target, Names
  <2>6. n \notin Disks
    BY <1>5, LoopsAssumption
  <2> QED  BY <1>5, <1>6, <2>4, <2>5, <2>6 DEF Firm
<1>8. Relies(todo', options', "is", "kept") /\ native =>
         Firm(binds["install"], Target(options, "install"))'
  <2>1. binds["install"] = None \/ binds'["install"] = binds["install"]
    BY <1>1, <1>2, <1>4, Typed DEF Bind, Sound, TypeOK, Names
  <2>2. ~Sets(Head(todo), options, "is", "kept")
    BY <1>3
  <2> QED  BY <1>1, <1>2, <2>1, <2>2, StillKept
<1>9. \A kind, of : Sets(Head(todo), options, kind, of) =>
          (kind = "node" /\ of = name) \/ (kind = "is" /\ of = "kept")
  BY <1>3
<1>10. name = "install" =>
          binds["install"] = None /\ Upsets(Head(todo), options, "is", "empty")
  BY <1>3, <1>4
<1>11. Relies(todo', options', "node", name) /\ binds[name] \in {None, node} =>
          Firm(node, Target(options, name))
  BY <1>7
<1> HIDE DEF name, image
<1> QED  BY <1>1, <1>2, <1>3, <1>6, <1>8, <1>9, <1>10, <1>11, Binding

LEMMA BindPartStep ==
    ASSUME IInv, BindPart
    PROVE  IInv'
<1> DEFINE name == Head(todo).arg
           node == [on |-> Wanted(options), part |-> PartOf(name)]
<1>1. /\ todo # <<>> /\ Head(todo).op = "bind_part" /\ options' = options
      /\ UNCHANGED <<native, images, table, uuid, files, loops, dying, mnt, crypt, mapper, silent, mapped,
                     imageMount, fstab, options, confirmed, runs>>
  BY DEF BindPart, At, memory, storage
<1>2. \/ Abort /\ UNCHANGED <<binds, stale>>
      \/ /\ ~(options.disk = None /\ Attached("full") = {})
         /\ UnitOf(node) # Nowhere /\ Bind(name, node) /\ Continue
  BY DEF BindPart, X
<1>3. CASE Abort /\ UNCHANGED <<binds, stale>>
  <2>1. Sound'
    BY <1>1, <1>3, Typed DEF Sound, TypeOK
  <2> QED  BY <1>1, <1>3, <2>1, Aborts DEF Abort
<1>4. CASE /\ ~(options.disk = None /\ Attached("full") = {})
           /\ UnitOf(node) # Nowhere /\ Bind(name, node) /\ Continue
  <2>1. /\ Carries /\ name \in {"p1", "p2", "p3"} /\ Partitioned(options)
        /\ options.disk = None => Relies(todo, options, "fresh", "full")
    BY <1>1, <1>4, Carry DEF StepOK, Reads
  <2>2. name \in Names /\ name # "install" /\ name # "pm_crypt"
    BY <2>1 DEF Names
  <2>3. /\ \A kind, of : Sets(Head(todo), options, kind, of) => kind = "node" /\ of = name
        /\ Upsets(Head(todo), options, "is", "work")
    BY <1>1 DEF Sets, Upsets
  <2>4. options \in Options /\ "full" \in ImageNames
    BY Typed DEF Sound, TypeOK, ImageNames
  <2>5. /\ Wanted(options) \in LoopDevices \cup Disks
        /\ IF Wanted(options) \in Disks
           THEN Wanted(options) = StoreOfImage(options)
           ELSE /\ loops[Wanted(options)] = StoreOfImage(options)
                /\ Wanted(options) \notin dying
    <3>1. CASE options.disk # None
      BY <2>4, <3>1 DEF Wanted, StoreOfImage, Options
    <3>2. CASE options.disk = None
      <4>1. Wanted(options) \in LoopDevices /\ loops[Wanted(options)] = "full"
        BY <1>4, <2>4, <3>2, AttachedTo DEF Wanted
      <4>2. Wanted(options) \notin dying
        BY <2>1, <2>4, <3>2, <4>1 DEF IInv, HeldImages
      <4>3. Wanted(options) \notin Disks
        BY <4>1, LoopsAssumption
      <4> QED  BY <3>2, <4>1, <4>2, <4>3 DEF StoreOfImage
    <3> QED  BY <3>1, <3>2
  <2>6. PartOf(name) \in Parts /\ PartOf(name) # 0
    BY DEF PartOf, Parts
  <2>7. node \in Nodes /\ node # None /\ node.on = Wanted(options) /\ node.part = PartOf(name)
    BY <2>5, <2>6, NoneAssumption DEF Nodes
  <2>8. Target(options, name) = <<StoreOfImage(options), PartOf(name)>>
    BY <2>1, <2>2 DEF Target, UnitNamed, Partitioned
  <2>9. StoreOfImage(options) \in table
    <3>1. StoreOf(node) \in table
      BY <1>4, <2>6, <2>7 DEF UnitOf
    <3>2. StoreOf(node) # "free"
      BY <1>4 DEF UnitOf
    <3> HIDE DEF node
    <3> QED  BY <2>5, <2>7, <3>1, <3>2 DEF StoreOf
  <2> HIDE DEF node
  <2>10. Firm(node, Target(options, name))
    BY <2>5, <2>7, <2>8, <2>9 DEF Firm
  <2>11. Relies(todo', options', "is", "kept") /\ native =>
            Firm(binds["install"], Target(options, "install"))'
    <3>1. binds'["install"] = binds["install"]
      BY <1>4, <2>2, Typed DEF Bind, Sound, TypeOK, Names
    <3>2. ~Sets(Head(todo), options, "is", "kept")
      BY <2>3
    <3> QED  BY <1>1, <2>1, <3>1, <3>2, StillKept
  <2>12. \A kind, of : Sets(Head(todo), options, kind, of) =>
             (kind = "node" /\ of = name) \/ (kind = "is" /\ of = "kept")
    BY <2>3
  <2>13. name = "install" =>
             binds["install"] = None /\ Upsets(Head(todo), options, "is", "empty")
    BY <2>2
  <2>14. Relies(todo', options', "node", name) /\ binds[name] \in {None, node} =>
             Firm(node, Target(options, name))
    BY <2>10
  <2> HIDE DEF name
  <2> QED  BY <1>1, <1>4, <2>1, <2>2, <2>3, <2>7, <2>11, <2>12, <2>13, <2>14, Binding
<1> QED  BY <1>2, <1>3, <1>4

-----------------------------------------------------------------------------
(* ... by the steps that write partition tables and format.                *)

LEMMA TableMade ==
    ASSUME IInv, Carries, Head(todo).op = "partition", MakeTable,
           UNCHANGED <<native, images, uuid, loops, dying, binds, mnt, crypt, mapper, silent, mapped, imageMount,
                       fstab, options, confirmed, stale, runs>>
    PROVE  IInv'
<1>1. /\ \A kind, of : ~Sets(Head(todo), options, kind, of)
      /\ \A of \in {"rootfiles", "bootfiles", "kernel"} : Upsets(Head(todo), options, "is", of)
  BY DEF Sets, Upsets
<1>2. table \subseteq table' /\ table' \subseteq Stores /\ files' \in [Units -> 0..MaxRuns]
  <2>1. PICK u : u = UnitOf(binds["install"])
    OBVIOUS
  <2>2. binds["install"] \in Nodes \cup {None}
    BY Typed DEF Sound, TypeOK, Names
  <2>3. u = Nowhere \/ (u \in Units /\ u[1] \in Stores)
    BY <2>1, <2>2, Typed, UnitTyped DEF Units
  <2>4. 0 \in 0..MaxRuns
    BY BoundsAssumption
  <2>5. CASE UNCHANGED <<table, files>>
    BY <2>5, Typed DEF Sound, TypeOK
  <2>6. CASE /\ u # Nowhere /\ table' = table \cup {u[1]}
             /\ files' = [v \in Units |-> IF v[1] = u[1] THEN 0 ELSE files[v]]
    <3>1. files' \in [Units -> 0..MaxRuns]
      BY <2>4, <2>6, Typed DEF Sound, TypeOK
    <3>2. table' \subseteq Stores
      BY <2>3, <2>6, Typed DEF Sound, TypeOK
    <3> QED  BY <2>6, <3>1, <3>2
  <2> QED  BY <2>1, <2>5, <2>6 DEF MakeTable
<1>3. Sound'
  BY <1>2, Typed DEF Sound, TypeOK
<1>4. LoopsStay
  BY DEF LoopsStay
<1>5. LoopsBacked' /\ HeldNodes' /\ HeldImages' /\ HeldReleased' /\ HeldMounts'
  BY <1>1, <1>2, <1>4, Backed, NodesKept, ImagesKept, ReleasedKept, MountsKept
<1>6. HeldData'
  <2>1. /\ ~Relies(todo', options', "is", "rootfiles") /\ ~Relies(todo', options', "is", "bootfiles")
        /\ ~Relies(todo', options', "is", "kernel")
        /\ Relies(todo', options', "is", "rootid") => Relies(todo, options, "is", "rootid")
        /\ Relies(todo', options', "is", "bootid") => Relies(todo, options, "is", "bootid")
    BY <1>1 DEF Carries
  <2> QED  BY <2>1 DEF IInv, HeldData, Misbound
<1> QED  BY <1>3, <1>5, <1>6, Assemble

LEMMA PartitionStep ==
    ASSUME IInv, Partition \/ PartitionCgpt \/ PartitionPrep
    PROVE  IInv'
<1>1. /\ todo # <<>> /\ Head(todo).op = "partition" /\ options' = options
      /\ UNCHANGED <<native, images, uuid, loops, dying, binds, mnt, crypt, mapper, silent, mapped, imageMount,
                     fstab, options, confirmed, stale, runs>>
      /\ (MakeTable /\ Continue) \/ (Abort /\ UNCHANGED <<table, files>>)
  BY DEF Partition, PartitionCgpt, PartitionPrep, At, memory, kernel
<1>2. CASE Abort /\ UNCHANGED <<table, files>>
  <2>1. Sound'
    BY <1>1, <1>2, Typed DEF Sound, TypeOK
  <2> QED  BY <1>1, <1>2, <2>1, Aborts DEF Abort
<1>3. CASE MakeTable /\ Continue
  BY <1>1, <1>3, Carry, TableMade
<1> QED  BY <1>1, <1>2, <1>3

(* What is formatted is what the run is to format.                         *)
LEMMA FormatsUnit ==
    ASSUME IInv, todo # <<>>, Head(todo).op \in {"luks", "format"}
    PROVE  /\ Head(todo).arg \in Devices
           /\ Misbound \/ /\ UnitOf(DeviceOf(Head(todo).arg)) = Target(options, Head(todo).arg)
                          /\ Firm(DeviceOf(Head(todo).arg), Target(options, Head(todo).arg))
                          /\ Target(options, Head(todo).arg) \in {RootUnit(options), BootUnit(options)}
                          /\ Target(options, Head(todo).arg)[2] = 0 => options.split \/ options.single
<1>1. PICK device : device = Head(todo).arg
  OBVIOUS
<1>2. \/ device = RootName(options) \/ device = "pm_crypt"
      \/ device = BootName(options) /\ HasBoot(options)
  BY <1>1, Carry DEF StepOK
<1>3. device \in Devices
  BY <1>2 DEF RootName, BootName, Devices, Names
<1>4. SUFFICES ASSUME ~Misbound
               PROVE  /\ UnitOf(DeviceOf(device)) = Target(options, device)
                      /\ Firm(DeviceOf(device), Target(options, device))
                      /\ Target(options, device) \in {RootUnit(options), BootUnit(options)}
                      /\ Target(options, device)[2] = 0 => options.split \/ options.single
  BY <1>1, <1>3
<1>5. ~(device = "p3" /\ options.split)
  BY <1>2, <1>4 DEF Misbound, RootName, BootName
<1>6. Relies(todo, options, "node", device)
  <2>1. Reads(Head(todo), options, "node", device)
    BY <1>1, <1>5 DEF Reads, Uses
  <2> QED  BY <2>1, Carry
<1>7. Firm(DeviceOf(device), Target(options, device))
  BY <1>3, <1>4, <1>6 DEF IInv, HeldNodes, Excused
<1>8. /\ Target(options, device) \in Units
      /\ Target(options, device)[1] \in Disks \cup ImageNames
      /\ DeviceOf(device) \in Nodes \cup {None}
  BY <1>3, Typed, TargetsTyped, DeviceTyped DEF Sound, TypeOK
<1>9. PICK node, u : node = DeviceOf(device) /\ u = Target(options, device)
  OBVIOUS
<1>10. UnitOf(node) = u
  BY <1>7, <1>8, <1>9, Typed, FirmIs
<1>11. Target(options, device) \in {RootUnit(options), BootUnit(options)}
  BY <1>2 DEF Target, RootUnit, BootUnit, RootName
<1>12. Target(options, device)[2] = 0 => options.split \/ options.single
  BY <1>2 DEF Target, RootUnit, UnitNamed, RootName, BootName, PartOf
<1> QED  BY <1>7, <1>9, <1>10, <1>11, <1>12

(* mkfs and luksFormat leave what is on other units; of a whole disk or    *)
(* image there is no other unit that is used.                              *)
LEMMA Formatted ==
    ASSUME IInv, Carries, todo # <<>>, Head(todo).op \in {"luks", "format"},
           UnitOf(DeviceOf(Head(todo).arg)) # Nowhere, Write(UnitOf(DeviceOf(Head(todo).arg))),
           UNCHANGED <<native, images, loops, dying, binds, mnt, mapped, imageMount, fstab, options,
                       confirmed, stale, runs>>,
           \/ UNCHANGED <<crypt, mapper, silent>>
           \/ crypt' = DeviceOf(Head(todo).arg) /\ mapper' = TRUE /\ silent' = FALSE
    PROVE  /\ Sound' /\ LoopsBacked' /\ HeldImages' /\ HeldMounts' /\ HeldData'
           /\ Misbound \/ options.single \/ options.split \/ table' = table
           /\ \A device \in Devices :
                 /\ Relies(todo', options', "node", device)
                 /\ ~Sets(Head(todo), options, "node", device)
                 /\ DeviceOf(device)' = DeviceOf(device)
                 => (Excused(device) \/ Firm(DeviceOf(device), Target(options, device)))'
<1>1. PICK node, u : node = DeviceOf(Head(todo).arg) /\ u = UnitOf(node)
  OBVIOUS
<1>2. Head(todo).arg \in Devices
  BY FormatsUnit
<1>3. node \in Nodes \cup {None} /\ u \in Units
  <2>1. node \in Nodes \cup {None}
    BY <1>1, <1>2, Typed, DeviceTyped
  <2> QED  BY <1>1, <2>1, Typed, UnitTyped
<1>4. /\ uuid' = [uuid EXCEPT ![u] = runs]
      /\ files' = [v \in Units |-> IF v \in Erased(u) THEN 0 ELSE files[v]]
      /\ table' = IF u[2] = 0 THEN table \ {u[1]} ELSE table
  BY <1>1 DEF Write
<1>5. Sound'
  <2>1. 0 \in 0..MaxRuns
    BY BoundsAssumption
  <2>2. files' \in [Units -> 0..MaxRuns] /\ uuid' \in [Units -> 0..MaxRuns]
    BY <1>3, <1>4, <2>1, Typed DEF Sound, TypeOK
  <2>3. table' \subseteq Stores
    BY <1>4, Typed DEF Sound, TypeOK
  <2>4. crypt' \in Nodes \cup {None}
    BY <1>1, <1>3, Typed DEF Sound, TypeOK
  <2>5. TypeOK /\ (crypt # None => mapper \/ silent)
    BY Typed DEF Sound
  <2>6. mapper' \in BOOLEAN /\ silent' \in BOOLEAN
    BY <2>5 DEF TypeOK
  <2>7. (crypt # None => mapper \/ silent)'
    BY <2>5, Zenon
  <2>8. TypeOK'
    BY <2>2, <2>3, <2>4, <2>5, <2>6 DEF TypeOK
  <2> QED  BY <2>7, <2>8 DEF Sound
<1>6. /\ \A kind, of : Sets(Head(todo), options, kind, of) => kind = "node"
      /\ \A of \in {"rootfiles", "bootfiles", "kernel", "rootid", "bootid"} :
            Upsets(Head(todo), options, "is", of)
      /\ options.single => \A of \in {"p1", "p2", "p3"} : Upsets(Head(todo), options, "node", of)
  BY DEF Sets, Upsets
<1>7. LoopsStay
  BY DEF LoopsStay
<1>8. Misbound \/ options.single \/ options.split \/ table' = table
  BY <1>1, <1>4, FormatsUnit
<1>9. Misbound \/ options.single \/ options.split \/ table \subseteq table'
  BY <1>8
<1>10. LoopsBacked' /\ HeldImages'
  BY <1>6, Backed, ImagesKept
<1>11. HeldMounts'
  BY <1>6, <1>7, <1>9, MountsStay
<1>12. HeldData'
  BY <1>6 DEF HeldData, Carries
<1>13. ASSUME NEW device \in Devices, Relies(todo', options', "node", device),
              ~Sets(Head(todo), options, "node", device), DeviceOf(device)' = DeviceOf(device)
       PROVE  (Excused(device) \/ Firm(DeviceOf(device), Target(options, device)))'
  <2>1. CASE Misbound /\ device # "install"
    BY <2>1 DEF Excused, Misbound
  <2>2. CASE device = "install" \/ ~Misbound
    <3>1. Target(options, device)[2] # 0 => table \subseteq table'
      <4>1. CASE device = "install"
        BY <4>1, InstallWhole
      <4>2. CASE device # "install" /\ ~Misbound /\ options.single
        <5>1. device \notin {"p1", "p2", "p3"}
          BY <1>6, <1>13, <4>2 DEF Carries
        <5>2. device = "pm_crypt"
          BY <4>2, <5>1 DEF Devices, Names
        <5> QED  BY <4>2, <5>2 DEF Target, RootUnit, RootName, UnitNamed
      <4>3. CASE ~Misbound /\ options.split
        BY <4>3 DEF Target, RootUnit, UnitNamed
      <4>4. CASE ~Misbound /\ ~options.single /\ ~options.split
        BY <1>9, <4>4
      <4> QED  BY <2>2, <4>1, <4>2, <4>3, <4>4
    <3> QED  BY <1>7, <1>13, <3>1, NodeKept
  <2> QED  BY <2>1, <2>2
<1> QED  BY <1>5, <1>8, <1>10, <1>11, <1>12, <1>13

LEMMA FormatStep ==
    ASSUME IInv, Format
    PROVE  IInv'
<1>1. /\ todo # <<>> /\ Head(todo).op = "format" /\ options' = options
      /\ UNCHANGED <<native, images, loops, dying, binds, mnt, crypt, mapper, silent, mapped, imageMount, fstab,
                     options, confirmed, stale, runs>>
  BY DEF Format, At, memory, kernel
<1>2. \/ Abort /\ UNCHANGED <<uuid, files, table>>
      \/ /\ UnitOf(DeviceOf(Head(todo).arg)) # Nowhere
         /\ Write(UnitOf(DeviceOf(Head(todo).arg))) /\ Continue
  BY DEF Format, X
<1>3. CASE Abort /\ UNCHANGED <<uuid, files, table>>
  <2>1. Sound'
    BY <1>1, <1>3, Typed DEF Sound, TypeOK
  <2> QED  BY <1>1, <1>3, <2>1, Aborts DEF Abort
<1>4. CASE /\ UnitOf(DeviceOf(Head(todo).arg)) # Nowhere
           /\ Write(UnitOf(DeviceOf(Head(todo).arg))) /\ Continue
  <2>1. Carries
    BY <1>1, <1>4, Carry
  <2>2. \A kind, of : ~Sets(Head(todo), options, kind, of)
    BY <1>1 DEF Sets
  <2>3. /\ Sound' /\ LoopsBacked' /\ HeldImages' /\ HeldMounts' /\ HeldData'
        /\ \A device \in Devices :
              /\ Relies(todo', options', "node", device)
              /\ ~Sets(Head(todo), options, "node", device)
              /\ DeviceOf(device)' = DeviceOf(device)
              => (Excused(device) \/ Firm(DeviceOf(device), Target(options, device)))'
    BY <1>1, <1>4, <2>1, Formatted
  <2>4. HeldNodes'
    <3> SUFFICES ASSUME NEW device \in Devices, Relies(todo', options', "node", device)
                 PROVE  (Excused(device) \/ Firm(DeviceOf(device), Target(options, device)))'
      BY DEF HeldNodes
    <3>1. DeviceOf(device)' = DeviceOf(device)
      BY <1>1 DEF DeviceOf
    <3> QED  BY <2>2, <2>3, <3>1
  <2>5. HeldReleased'
    BY <1>1, <2>1, <2>2, ReleasedKept
  <2> QED  BY <2>1, <2>3, <2>4, <2>5, Assemble
<1> QED  BY <1>2, <1>3, <1>4

LEMMA LuksStep ==
    ASSUME IInv, Luks
    PROVE  IInv'
<1> DEFINE name == Head(todo).arg
<1>1. /\ todo # <<>> /\ Head(todo).op = "luks" /\ options' = options
      /\ UNCHANGED <<native, images, loops, dying, binds, mnt, mapped, imageMount, fstab,
                     options, confirmed, stale, runs>>
  BY DEF Luks, At, memory
<1>2. name = RootName(options) /\ name \in Names /\ name # "pm_crypt" /\ DeviceOf(name) = binds[name]
  <2>1. name = RootName(options)
    BY <1>1, Carry DEF StepOK
  <2> QED  BY <2>1 DEF RootName, Names, DeviceOf
<1>3. \/ Abort /\ UNCHANGED <<uuid, files, table, crypt, mapper, silent>>
      \/ UnitOf(binds[name]) # Nowhere /\ Write(UnitOf(binds[name])) /\ Abort
            /\ UNCHANGED <<crypt, mapper, silent>>
      \/ /\ UnitOf(binds[name]) # Nowhere /\ Write(UnitOf(binds[name])) /\ Continue
         /\ crypt' = binds[name] /\ mapper' = TRUE /\ silent' = FALSE
  BY DEF Luks, X
<1>4. CASE Abort /\ UNCHANGED <<uuid, files, table, crypt, mapper, silent>>
  <2>1. Sound'
    BY <1>1, <1>4, Typed DEF Sound, TypeOK
  <2> QED  BY <1>1, <1>4, <2>1, Aborts DEF Abort
<1>5. CASE UnitOf(binds[name]) # Nowhere /\ Write(UnitOf(binds[name])) /\ Abort
            /\ UNCHANGED <<crypt, mapper, silent>>
  <2>1. PICK u : u = UnitOf(binds[name])
    OBVIOUS
  <2>2. u \in Units
    <3>1. binds[name] \in Nodes \cup {None}
      BY <1>2, Typed DEF Sound, TypeOK
    <3> QED  BY <1>5, <2>1, <3>1, Typed, UnitTyped
  <2>3. 0 \in 0..MaxRuns
    BY BoundsAssumption
  <2>4. files' \in [Units -> 0..MaxRuns] /\ uuid' \in [Units -> 0..MaxRuns] /\ table' \subseteq Stores
    BY <1>5, <2>1, <2>2, <2>3, Typed DEF Sound, TypeOK, Write
  <2>5. Sound'
    BY <1>1, <1>5, <2>4, Typed DEF Sound, TypeOK
  <2> QED  BY <1>1, <1>5, <2>5, Aborts DEF Abort
<1>6. CASE /\ UnitOf(binds[name]) # Nowhere /\ Write(UnitOf(binds[name])) /\ Continue
           /\ crypt' = binds[name] /\ mapper' = TRUE /\ silent' = FALSE
  <2>1. Carries
    BY <1>1, <1>6, Carry
  <2>2. /\ \A kind, of : Sets(Head(todo), options, kind, of) => kind = "node" /\ of = "pm_crypt"
        /\ Upsets(Head(todo), options, "is", "crypt")
    BY <1>1 DEF Sets, Upsets
  <2>3. /\ Sound' /\ LoopsBacked' /\ HeldImages' /\ HeldMounts' /\ HeldData'
        /\ Misbound \/ options.single \/ options.split \/ table' = table
        /\ \A device \in Devices :
              /\ Relies(todo', options', "node", device)
              /\ ~Sets(Head(todo), options, "node", device)
              /\ DeviceOf(device)' = DeviceOf(device)
              => (Excused(device) \/ Firm(DeviceOf(device), Target(options, device)))'
    BY <1>1, <1>2, <1>6, <2>1, Formatted
  <2>4. Misbound \/ Firm(crypt, RootUnit(options))'
    <3> SUFFICES ASSUME ~Misbound
                 PROVE  Firm(crypt, RootUnit(options))'
      OBVIOUS
    <3>1. Firm(binds[name], RootUnit(options))
      <4>1. Firm(DeviceOf(name), Target(options, name))
        BY <1>1, FormatsUnit
      <4>2. Target(options, name) = RootUnit(options)
        BY <1>2 DEF Target, RootUnit
      <4> QED  BY <1>2, <4>1, <4>2
    <3>2. RootUnit(options)[2] # 0 => table' = table
      BY <2>3 DEF RootUnit, RootName, UnitNamed
    <3> QED  BY <1>1, <1>6, <3>1, <3>2 DEF Firm
  <2>5. HeldNodes'
    <3> SUFFICES ASSUME NEW device \in Devices, Relies(todo', options', "node", device)
                 PROVE  (Excused(device) \/ Firm(DeviceOf(device), Target(options, device)))'
      BY DEF HeldNodes
    <3>1. CASE device = "pm_crypt"
      BY <1>1, <2>4, <3>1 DEF Excused, Misbound, DeviceOf, Target
    <3>2. CASE device # "pm_crypt"
      <4>1. DeviceOf(device)' = DeviceOf(device)
        BY <1>1, <3>2 DEF DeviceOf
      <4> QED  BY <2>2, <2>3, <3>2, <4>1
    <3> QED  BY <3>1, <3>2
  <2>6. HeldReleased'
    <3>1. /\ Relies(todo', options', "is", "mnt") => Relies(todo, options, "is", "mnt")
          /\ ~Relies(todo', options', "is", "crypt")
          /\ Relies(todo', options', "is", "loops") => Relies(todo, options, "is", "loops")
          /\ Relies(todo', options', "is", "work") => Relies(todo, options, "is", "work")
          /\ Relies(todo', options', "is", "empty") => Relies(todo, options, "is", "empty")
          /\ Relies(todo', options', "is", "kept") => Relies(todo, options, "is", "kept")
      BY <2>1, <2>2 DEF Carries
    <3>2. Firm(binds["install"], Target(options, "install")) =>
             Firm(binds["install"], Target(options, "install"))'
      BY <1>1, InstallWhole DEF Firm
    <3> QED  BY <1>1, <3>1, <3>2 DEF IInv, HeldReleased
  <2> QED  BY <2>1, <2>3, <2>5, <2>6, Assemble
<1> QED  BY <1>3, <1>4, <1>5, <1>6
-----------------------------------------------------------------------------
(* ... by the steps that mount and fill what was formatted.                *)

LEMMA UsedDevice ==
    ASSUME IInv, todo # <<>>, ~Misbound, NEW device \in Devices,
           Uses(Head(todo), options, device)
    PROVE  /\ Firm(DeviceOf(device), Target(options, device))
           /\ UnitOf(DeviceOf(device)) = Target(options, device)
           /\ Target(options, device) \in Units
<1>1. Relies(todo, options, "node", device)
  <2>1. Reads(Head(todo), options, "node", device)
    BY DEF Reads
  <2> QED  BY <2>1, Carry
<1>2. Firm(DeviceOf(device), Target(options, device))
  BY <1>1 DEF IInv, HeldNodes, Excused
<1>3. /\ Target(options, device) \in Units
      /\ Target(options, device)[1] \in Disks \cup ImageNames
      /\ DeviceOf(device) \in Nodes \cup {None}
  BY Typed, TargetsTyped, DeviceTyped DEF Sound, TypeOK
<1>4. PICK node, u : node = DeviceOf(device) /\ u = Target(options, device)
  OBVIOUS
<1>5. UnitOf(node) = u
  BY <1>2, <1>3, <1>4, Typed, FirmIs
<1> QED  BY <1>2, <1>3, <1>4, <1>5

LEMMA ExistingUuid ==
    ASSUME Sound, NEW name \in Names, Exists(name)
    PROVE  GetUuid(name) \in 0..MaxRuns
<1>1. PICK node : node = binds[name]
  OBVIOUS
<1>2. node \in Nodes \cup {None}
  BY <1>1 DEF Sound, TypeOK
<1>3. UnitOf(node) \in Units
  BY <1>1, <1>2, UnitTyped DEF Exists
<1> QED  BY <1>1, <1>3 DEF Sound, TypeOK, GetUuid

LEMMA MountStep ==
    ASSUME IInv, Mount
    PROVE  IInv'
<1> DEFINE device == Head(todo).arg
           at == IF Head(todo).op = "mount_root" THEN "root" ELSE "boot"
<1>1. /\ todo # <<>> /\ Head(todo).op \in {"mount_root", "mount_boot"} /\ options' = options
      /\ mnt' = Append(mnt, [at |-> at, dev |-> DeviceOf(device)]) /\ Continue
      /\ UNCHANGED <<native, images, table, uuid, files, loops, dying, binds, crypt, mapper, silent, mapped,
                     imageMount, fstab, options, confirmed, stale, runs>>
  BY DEF Mount, At, X, memory, storage
<1>2. Carries /\ StepOK(Head(todo), options)
  BY <1>1, Carry
<1>3. /\ Head(todo).op = "mount_root" => device \in {RootName(options), "pm_crypt"}
      /\ Head(todo).op = "mount_boot" => device = BootName(options)
      /\ device \in Devices
  BY <1>1, <1>2 DEF StepOK, RootName, BootName, Devices, Names
<1>4. /\ \A kind, of : Sets(Head(todo), options, kind, of) =>
            /\ kind = "is"
            /\ \/ Head(todo).op = "mount_root" /\ of = "rootmount"
               \/ Head(todo).op = "mount_boot" /\ of = "bootmount"
      /\ Upsets(Head(todo), options, "is", "mnt")
      /\ Head(todo).op = "mount_root" => Upsets(Head(todo), options, "is", "bootmount")
  BY <1>1 DEF Sets, Upsets
<1>5. PICK dev : dev = DeviceOf(device)
  OBVIOUS
<1>6. dev \in Nodes \cup {None}
  BY <1>3, <1>5, Typed, DeviceTyped
<1>7. PICK where : where = at
  OBVIOUS
<1>8. mnt' = Append(mnt, [at |-> where, dev |-> dev]) /\ where \in {"root", "boot"}
  BY <1>1, <1>5, <1>7
<1>9. /\ Len(mnt) \in Nat /\ DOMAIN mnt = 1..Len(mnt) /\ DOMAIN mnt' = 1..Len(mnt) + 1
      /\ mnt' \in Seq([at : {"root", "boot"}, dev : Nodes \cup {None}])
      /\ \A j \in 1..Len(mnt) : mnt'[j] = mnt[j]
      /\ mnt'[Len(mnt) + 1] = [at |-> where, dev |-> dev]
  <2>1. mnt \in Seq([at : {"root", "boot"}, dev : Nodes \cup {None}])
    BY Typed DEF Sound, TypeOK
  <2>2. [at |-> where, dev |-> dev] \in [at : {"root", "boot"}, dev : Nodes \cup {None}]
    BY <1>6, <1>8
  <2> QED  BY <1>8, <2>1, <2>2, AppendProperties, LenProperties
<1>10. Sound'
  BY <1>1, <1>9, Typed DEF Sound, TypeOK
<1>11. LoopsStay /\ table \subseteq table'
  BY <1>1 DEF LoopsStay
<1>12. LoopsBacked' /\ HeldNodes' /\ HeldImages' /\ HeldData'
  BY <1>1, <1>2, <1>4, <1>11, Backed, NodesKept, ImagesKept, DataKept
<1>13. HeldReleased'
  <2>1. /\ ~Relies(todo', options', "is", "mnt")
        /\ Relies(todo', options', "is", "crypt") => Relies(todo, options, "is", "crypt")
        /\ Relies(todo', options', "is", "loops") => Relies(todo, options, "is", "loops")
        /\ Relies(todo', options', "is", "work") => Relies(todo, options, "is", "work")
        /\ Relies(todo', options', "is", "empty") => Relies(todo, options, "is", "empty")
        /\ Relies(todo', options', "is", "kept") => Relies(todo, options, "is", "kept")
    BY <1>2, <1>4 DEF Carries
  <2> QED  BY <1>1, <2>1 DEF IInv, HeldReleased, Firm
<1>14. PICK last : last = Len(mnt) + 1
  OBVIOUS
<1>15. /\ last \in DOMAIN mnt' /\ mnt'[last].at = where /\ mnt'[last].dev = dev
       /\ \A r \in Roots' : r \in 1..Len(mnt) + 1 /\ r <= last
       /\ where = "boot" => Roots' = Roots
  <2>1. last \in DOMAIN mnt' /\ mnt'[last].at = where /\ mnt'[last].dev = dev
    BY <1>9, <1>14
  <2>2. \A r \in Roots' : r \in 1..Len(mnt) + 1 /\ r <= last
    BY <1>9, <1>14 DEF Roots
  <2>3. where = "boot" => Roots' = Roots
    BY <1>9 DEF Roots
  <2> QED  BY <2>1, <2>2, <2>3
<1>16. ASSUME ~Misbound
       PROVE  \E u : /\ u = IF Head(todo).op = "mount_root" THEN RootUnit(options) ELSE BootUnit(options)
                     /\ Firm(dev, u)
  <2>1. Uses(Head(todo), options, device)
    BY <1>1, <1>3, <1>16 DEF Uses, Misbound, RootName, BootName
  <2>2. Firm(dev, Target(options, device))
    BY <1>1, <1>3, <1>5, <1>16, <2>1, UsedDevice
  <2>3. /\ Head(todo).op = "mount_root" => Target(options, device) = RootUnit(options)
        /\ Head(todo).op = "mount_boot" => Target(options, device) = BootUnit(options)
    BY <1>3 DEF Target, RootUnit, BootUnit, BootName
  <2> QED  BY <1>1, <2>2, <2>3
<1>17. ASSUME Relies(todo', options', "is", "rootmount"), ~Misbound
       PROVE  MountedAt("root", RootUnit(options))'
  <2>1. CASE Head(todo).op = "mount_root"
    BY <1>1, <1>7, <1>15, <1>16, <1>17, <2>1 DEF MountedAt, Firm
  <2>2. CASE Head(todo).op = "mount_boot"
    <3>1. Relies(todo, options, "is", "rootmount") /\ where = "boot"
      BY <1>2, <1>4, <1>7, <1>17, <2>2 DEF Carries
    <3>2. PICK j \in DOMAIN mnt : /\ mnt[j].at = "root" /\ Firm(mnt[j].dev, RootUnit(options))
                                 /\ \A r \in Roots : r <= j
      BY <1>17, <3>1 DEF IInv, HeldMounts, MountedAt
    <3>3. j \in DOMAIN mnt' /\ mnt'[j] = mnt[j]
      BY <1>9, <3>2
    <3> QED  BY <1>1, <1>15, <3>1, <3>2, <3>3 DEF MountedAt, Firm
  <2> QED  BY <1>1, <2>1, <2>2
<1>18. ASSUME Relies(todo', options', "is", "bootmount"), ~Misbound
       PROVE  MountedAt("boot", BootUnit(options))'
  <2>1. Head(todo).op = "mount_boot" /\ where = "boot"
    BY <1>1, <1>2, <1>4, <1>7, <1>18 DEF Carries
  <2> QED  BY <1>1, <1>15, <1>16, <1>18, <2>1 DEF MountedAt, Firm
<1>19. HeldMounts'
  <2>1. Misbound' = Misbound
    BY <1>1 DEF Misbound
  <2> QED  BY <1>17, <1>18, <2>1 DEF HeldMounts
<1> QED  BY <1>2, <1>10, <1>12, <1>13, <1>19, Assemble

LEMMA CreateFstabStep ==
    ASSUME IInv, CreateFstab
    PROVE  IInv'
<1>1. /\ todo # <<>> /\ Head(todo).op = "create_fstab" /\ options' = options
      /\ UNCHANGED <<native, images, table, uuid, files, loops, dying, binds, mnt, crypt, mapper, silent, mapped,
                     imageMount, options, confirmed, stale, runs>>
  BY DEF CreateFstab, At, memory, storage, kernel
<1>2. \/ Abort /\ fstab' = fstab
      \/ /\ options.fde \/ Exists(RootName(options))
         /\ HasBoot(options) => Exists(BootName(options))
         /\ fstab' = [root |-> IF options.fde THEN fstab.root ELSE GetUuid(RootName(options)),
                      boot |-> IF HasBoot(options) THEN GetUuid(BootName(options)) ELSE 0]
         /\ Continue
  BY DEF CreateFstab
<1>3. CASE Abort /\ fstab' = fstab
  <2>1. Sound'
    BY <1>1, <1>3, Typed DEF Sound, TypeOK
  <2> QED  BY <1>1, <1>3, <2>1, Aborts DEF Abort
<1>4. CASE /\ options.fde \/ Exists(RootName(options))
           /\ HasBoot(options) => Exists(BootName(options))
           /\ fstab' = [root |-> IF options.fde THEN fstab.root ELSE GetUuid(RootName(options)),
                        boot |-> IF HasBoot(options) THEN GetUuid(BootName(options)) ELSE 0]
           /\ Continue
  <2>1. Carries
    BY <1>1, <1>4, Carry
  <2>2. /\ \A kind, of : Sets(Head(todo), options, kind, of) =>
              kind = "is" /\ (of = "bootid" \/ (of = "rootid" /\ ~options.fde))
    BY <1>1 DEF Sets
  <2>3. RootName(options) \in Names /\ BootName(options) \in Names
    BY DEF RootName, BootName, Names
  <2>4. Sound'
    <3>1. ASSUME NEW name \in Names, Exists(name)
          PROVE  GetUuid(name) \in 0..MaxRuns
      BY <3>1, ExistingUuid, Typed
    <3>2. 0 \in 0..MaxRuns /\ fstab.root \in 0..MaxRuns
      BY BoundsAssumption, Typed DEF Sound, TypeOK
    <3>3. fstab' \in [{"root", "boot"} -> 0..MaxRuns]
      <4>1. fstab' = [at \in {"root", "boot"} |-> fstab'[at]]
        BY <1>4
      <4>2. fstab'["root"] \in 0..MaxRuns /\ fstab'["boot"] \in 0..MaxRuns
        BY <1>4, <2>3, <3>1, <3>2
      <4> QED  BY <4>1, <4>2
    <3> QED  BY <1>1, <3>3, Typed DEF Sound, TypeOK
  <2>5. LoopsStay /\ table \subseteq table'
    BY <1>1 DEF LoopsStay
  <2>6. LoopsBacked' /\ HeldNodes' /\ HeldImages' /\ HeldReleased' /\ HeldMounts'
    BY <1>1, <2>1, <2>2, <2>5, Backed, NodesKept, ImagesKept, ReleasedKept, MountsKept
  <2>7. HeldData'
    <3>1. /\ Relies(todo', options', "is", "rootfiles") => Relies(todo, options, "is", "rootfiles")
          /\ Relies(todo', options', "is", "bootfiles") => Relies(todo, options, "is", "bootfiles")
          /\ Relies(todo', options', "is", "kernel") => Relies(todo, options, "is", "kernel")
          /\ options.fde /\ Relies(todo', options', "is", "rootid") => Relies(todo, options, "is", "rootid")
          /\ Relies(todo', options', "is", "bootid") => HasBoot(options)
      <4>1. Relies(todo', options', "is", "bootid") => HasBoot(options)
        BY <1>1 DEF Relies, Reads
      <4> QED  BY <2>1, <2>2, <4>1 DEF Carries
    <3>2. Misbound \/ ~HasBoot(options) \/ fstab'.boot = uuid[BootUnit(options)]
      <4>1. SUFFICES ASSUME ~Misbound, HasBoot(options)
                     PROVE  fstab'.boot = uuid[BootUnit(options)]
        OBVIOUS
      <4>2. Uses(Head(todo), options, BootName(options)) /\ BootName(options) \in Devices
        BY <1>1, <2>3, <4>1 DEF Uses, BootName, Devices
      <4>3. UnitOf(DeviceOf(BootName(options))) = Target(options, BootName(options))
        BY <1>1, <4>1, <4>2, UsedDevice
      <4>4. UnitOf(binds[BootName(options)]) = BootUnit(options)
        BY <4>3 DEF DeviceOf, Target, BootUnit, BootName
      <4> QED  BY <1>4, <4>1, <4>4 DEF GetUuid
    <3>3. Misbound \/ options.fde \/ fstab'.root = uuid[RootUnit(options)]
      <4>1. SUFFICES ASSUME ~Misbound, ~options.fde
                     PROVE  fstab'.root = uuid[RootUnit(options)]
        OBVIOUS
      <4>2. Uses(Head(todo), options, RootName(options)) /\ RootName(options) \in Devices
        BY <1>1, <2>3, <4>1 DEF Uses, RootName, Devices, Misbound
      <4>3. UnitOf(DeviceOf(RootName(options))) = Target(options, RootName(options))
        BY <1>1, <4>1, <4>2, UsedDevice
      <4>4. UnitOf(binds[RootName(options)]) = RootUnit(options)
        BY <4>3 DEF DeviceOf, Target, RootUnit, RootName
      <4> QED  BY <1>4, <4>1, <4>4 DEF GetUuid
    <3>4. options.fde => fstab'.root = fstab.root
      BY <1>4
    <3>5. Misbound' = Misbound /\ RootUnit(options)' = RootUnit(options)
          /\ BootUnit(options)' = BootUnit(options)
      BY <1>1 DEF Misbound
    <3> QED  BY <1>1, <3>1, <3>2, <3>3, <3>4, <3>5 DEF IInv, HeldData
  <2> QED  BY <2>1, <2>4, <2>6, <2>7, Assemble
<1> QED  BY <1>2, <1>3, <1>4

LEMMA CreateCrypttabStep ==
    ASSUME IInv, CreateCrypttab
    PROVE  IInv'
<1>1. /\ todo # <<>> /\ Head(todo).op = "create_crypttab" /\ options' = options
      /\ UNCHANGED <<native, images, table, uuid, files, loops, dying, binds, mnt, crypt, mapper, silent, mapped,
                     imageMount, options, confirmed, stale, runs>>
  BY DEF CreateCrypttab, At, memory, storage, kernel
<1>2. \/ Abort /\ fstab' = fstab
      \/ /\ Exists(RootName(options)) /\ Continue
         /\ fstab' = [fstab EXCEPT !.root = GetUuid(RootName(options))]
  BY DEF CreateCrypttab
<1>3. CASE Abort /\ fstab' = fstab
  <2>1. Sound'
    BY <1>1, <1>3, Typed DEF Sound, TypeOK
  <2> QED  BY <1>1, <1>3, <2>1, Aborts DEF Abort
<1>4. CASE /\ Exists(RootName(options)) /\ Continue
           /\ fstab' = [fstab EXCEPT !.root = GetUuid(RootName(options))]
  <2>1. Carries
    BY <1>1, <1>4, Carry
  <2>2. \A kind, of : Sets(Head(todo), options, kind, of) => kind = "is" /\ of = "rootid"
    BY <1>1 DEF Sets
  <2>3. RootName(options) \in Names
    BY DEF RootName, Names
  <2>4. Sound' /\ fstab'.root = GetUuid(RootName(options)) /\ fstab'.boot = fstab.boot
    <3>1. GetUuid(RootName(options)) \in 0..MaxRuns
      BY <1>4, <2>3, ExistingUuid, Typed
    <3> QED  BY <1>1, <1>4, <3>1, Typed DEF Sound, TypeOK
  <2>5. LoopsStay /\ table \subseteq table'
    BY <1>1 DEF LoopsStay
  <2>6. LoopsBacked' /\ HeldNodes' /\ HeldImages' /\ HeldReleased' /\ HeldMounts'
    BY <1>1, <2>1, <2>2, <2>5, Backed, NodesKept, ImagesKept, ReleasedKept, MountsKept
  <2>7. HeldData'
    <3>1. /\ Relies(todo', options', "is", "rootfiles") => Relies(todo, options, "is", "rootfiles")
          /\ Relies(todo', options', "is", "bootfiles") => Relies(todo, options, "is", "bootfiles")
          /\ Relies(todo', options', "is", "kernel") => Relies(todo, options, "is", "kernel")
          /\ Relies(todo', options', "is", "bootid") => Relies(todo, options, "is", "bootid")
      BY <2>1, <2>2 DEF Carries
    <3>2. Misbound \/ fstab'.root = uuid[RootUnit(options)]
      <4>1. SUFFICES ASSUME ~Misbound
                     PROVE  fstab'.root = uuid[RootUnit(options)]
        OBVIOUS
      <4>2. Uses(Head(todo), options, RootName(options)) /\ RootName(options) \in Devices
        BY <1>1, <2>3, <4>1 DEF Uses, RootName, Devices, Misbound
      <4>3. UnitOf(DeviceOf(RootName(options))) = Target(options, RootName(options))
        BY <1>1, <4>1, <4>2, UsedDevice
      <4>4. UnitOf(binds[RootName(options)]) = RootUnit(options)
        BY <4>3 DEF DeviceOf, Target, RootUnit, RootName
      <4> QED  BY <2>4, <4>4 DEF GetUuid
    <3> QED  BY <1>1, <2>4, <3>1, <3>2 DEF IInv, HeldData, Misbound
  <2> QED  BY <2>1, <2>4, <2>6, <2>7, Assemble
<1> QED  BY <1>2, <1>3, <1>4

(* What is mounted for the root of the rootfs, and for its boot, is what   *)
(* the files are copied to.                                                *)
LEMMA MountedIsFilled ==
    ASSUME Sound, NEW at, NEW u \in Units, u[1] \in Disks \cup ImageNames, MountedAt(at, u)
    PROVE  u \in Filled
<1>1. PICK j \in DOMAIN mnt : mnt[j].at = at /\ Firm(mnt[j].dev, u) /\ \A r \in Roots : r <= j
  BY DEF MountedAt
<1>2. PICK node : node = mnt[j].dev
  OBVIOUS
<1>3. node \in Nodes \cup {None}
  BY <1>1, <1>2, MountTyped
<1>4. UnitOf(node) = u
  BY <1>1, <1>2, <1>3, FirmIs
<1> QED  BY <1>1, <1>2, <1>4 DEF Filled

(* Steps that only write the files of this run *)
LEMMA Filling ==
    ASSUME IInv, Carries, todo # <<>>,
           UNCHANGED <<native, images, table, uuid, loops, dying, binds, mnt, crypt, mapper, silent, mapped,
                       imageMount, fstab, options, confirmed, stale, runs>>,
           \A kind, of : Sets(Head(todo), options, kind, of) =>
              kind = "is" /\ of \in {"rootfiles", "bootfiles", "kernel"},
           files' \in [Units -> 0..MaxRuns],
           \A u \in Units : files[u] = runs => files'[u] = runs,
           Relies(todo', options', "is", "rootfiles") /\ ~Misbound => files'[RootUnit(options)] = runs,
           Relies(todo', options', "is", "bootfiles") /\ ~Misbound => files'[BootUnit(options)] = runs,
           Relies(todo', options', "is", "kernel") /\ ~Misbound => files'[UnitNamed(options, "p1")] = runs
    PROVE  IInv'
<1>1. Sound'
  BY Typed DEF Sound, TypeOK
<1>2. LoopsStay /\ table \subseteq table'
  BY DEF LoopsStay
<1>3. LoopsBacked' /\ HeldNodes' /\ HeldImages' /\ HeldReleased' /\ HeldMounts'
  BY <1>2, Backed, NodesKept, ImagesKept, ReleasedKept, MountsKept
<1>4. HeldData'
  <2>1. /\ Relies(todo', options', "is", "rootid") => Relies(todo, options, "is", "rootid")
        /\ Relies(todo', options', "is", "bootid") => Relies(todo, options, "is", "bootid")
    BY DEF Carries
  <2>2. Misbound' = Misbound
    BY DEF Misbound
  <2> QED  BY <2>1, <2>2 DEF IInv, HeldData
<1> QED  BY <1>1, <1>3, <1>4, Assemble

(* The units a run installs to *)
LEMMA UnitsTyped ==
    ASSUME NEW o \in Options
    PROVE  /\ RootUnit(o) \in Units /\ RootUnit(o)[1] \in Disks \cup ImageNames
           /\ BootUnit(o) \in Units /\ BootUnit(o)[1] \in Disks \cup ImageNames
           /\ UnitNamed(o, "p1") \in Units
<1>1. /\ RootUnit(o) = Target(o, "pm_crypt") /\ BootUnit(o) = Target(o, BootName(o))
      /\ UnitNamed(o, "p1") = Target(o, "p1")
      /\ "pm_crypt" \in Devices /\ BootName(o) \in Devices /\ "p1" \in Devices
  BY DEF Target, BootUnit, BootName, Devices, Names
<1> QED  BY <1>1, TargetsTyped

LEMMA CopyStep ==
    ASSUME IInv, Copy
    PROVE  IInv'
<1>1. /\ todo # <<>> /\ Head(todo).op = "copy" /\ options' = options /\ Continue
      /\ files' = [u \in Units |-> IF u \in Filled THEN runs ELSE files[u]]
      /\ UNCHANGED <<native, images, table, uuid, loops, dying, binds, mnt, crypt, mapper, silent, mapped,
                     imageMount, fstab, options, confirmed, stale, runs>>
  BY DEF Copy, At, memory, kernel
<1>2. Carries
  BY <1>1, Carry
<1>3. \A kind, of : Sets(Head(todo), options, kind, of) =>
         kind = "is" /\ of \in {"rootfiles", "bootfiles", "kernel"}
  BY <1>1 DEF Sets
<1>4. files' \in [Units -> 0..MaxRuns] /\ \A u \in Units : files[u] = runs => files'[u] = runs
  BY <1>1, Typed DEF Sound, TypeOK
<1>5. Sound /\ options \in Options
  BY Typed DEF Sound, TypeOK
<1>6. ASSUME ~Misbound
      PROVE  files'[RootUnit(options)] = runs
  <2>1. Relies(todo, options, "is", "rootmount")
    BY <1>1, Carry DEF Reads
  <2>2. MountedAt("root", RootUnit(options))
    BY <1>6, <2>1 DEF IInv, HeldMounts
  <2>3. RootUnit(options) \in Filled
    BY <1>5, <2>2, UnitsTyped, MountedIsFilled
  <2> QED  BY <1>1, <1>5, <2>3, UnitsTyped
<1>7. ASSUME ~Misbound, HasBoot(options)
      PROVE  files'[BootUnit(options)] = runs
  <2>1. Relies(todo, options, "is", "bootmount")
    BY <1>1, <1>7, Carry DEF Reads
  <2>2. MountedAt("boot", BootUnit(options))
    BY <1>7, <2>1 DEF IInv, HeldMounts
  <2>3. BootUnit(options) \in Filled
    BY <1>5, <2>2, UnitsTyped, MountedIsFilled
  <2> QED  BY <1>1, <1>5, <2>3, UnitsTyped
<1>8. Relies(todo', options', "is", "bootfiles") => HasBoot(options)
  BY <1>1 DEF Relies, Reads
<1>9. Relies(todo', options', "is", "kernel") /\ ~Misbound => files'[UnitNamed(options, "p1")] = runs
  <2>1. Relies(todo', options', "is", "kernel") => Relies(todo, options, "is", "kernel")
    BY <1>1, <1>2 DEF Carries, Sets
  <2> QED  BY <1>4, <1>5, <2>1, UnitsTyped DEF IInv, HeldData
<1>10. /\ Relies(todo', options', "is", "rootfiles") /\ ~Misbound => files'[RootUnit(options)] = runs
       /\ Relies(todo', options', "is", "bootfiles") /\ ~Misbound => files'[BootUnit(options)] = runs
  BY <1>6, <1>7, <1>8
<1> QED  BY <1>1, <1>2, <1>3, <1>4, <1>9, <1>10, Filling

LEMMA WriteKpartStep ==
    ASSUME IInv, WriteKpart
    PROVE  IInv'
<1>1. /\ todo # <<>> /\ Head(todo).op = "write_kpart" /\ options' = options /\ Continue
      /\ files' = [u \in Units |-> IF u = UnitOf(binds[Head(todo).arg]) THEN runs ELSE files[u]]
      /\ UNCHANGED <<native, images, table, uuid, loops, dying, binds, mnt, crypt, mapper, silent, mapped,
                     imageMount, fstab, options, confirmed, stale, runs>>
  BY DEF WriteKpart, At, X, memory, kernel
<1>2. Carries /\ Head(todo).arg = "p1"
  BY <1>1, Carry DEF StepOK
<1>3. \A kind, of : Sets(Head(todo), options, kind, of) => kind = "is" /\ of = "kernel"
  BY <1>1 DEF Sets
<1>4. files' \in [Units -> 0..MaxRuns] /\ \A u \in Units : files[u] = runs => files'[u] = runs
  BY <1>1, Typed DEF Sound, TypeOK
<1>5. options \in Options
  BY Typed DEF Sound, TypeOK
<1>6. ASSUME ~Misbound
      PROVE  files'[UnitNamed(options, "p1")] = runs
  <2>1. Uses(Head(todo), options, "p1") /\ "p1" \in Devices
    BY <1>1, <1>2 DEF Uses, Devices, Names
  <2>2. UnitOf(DeviceOf("p1")) = Target(options, "p1")
    BY <1>1, <1>6, <2>1, UsedDevice
  <2>3. UnitOf(binds["p1"]) = UnitNamed(options, "p1")
    BY <2>2 DEF DeviceOf, Target
  <2> QED  BY <1>1, <1>2, <1>5, <2>3, UnitsTyped
<1>7. /\ Relies(todo', options', "is", "rootfiles") => Relies(todo, options, "is", "rootfiles")
      /\ Relies(todo', options', "is", "bootfiles") => Relies(todo, options, "is", "bootfiles")
  BY <1>2, <1>3 DEF Carries
<1>8. /\ Relies(todo', options', "is", "rootfiles") /\ ~Misbound => files'[RootUnit(options)] = runs
      /\ Relies(todo', options', "is", "bootfiles") /\ ~Misbound => files'[BootUnit(options)] = runs
  BY <1>4, <1>5, <1>7, UnitsTyped DEF IInv, HeldData
<1> QED  BY <1>1, <1>2, <1>3, <1>4, <1>6, <1>8, Filling

LEMMA GrubInstallStep ==
    ASSUME IInv, GrubInstall
    PROVE  IInv'
<1>1. /\ todo # <<>> /\ Head(todo).op = "grub_install" /\ options' = options
      /\ UNCHANGED <<native, images, table, uuid, loops, dying, binds, mnt, crypt, mapper, silent, mapped,
                     imageMount, fstab, options, confirmed, stale, runs>>
  BY DEF GrubInstall, At, memory, kernel
<1>2. PICK node : node = [on |-> 1, part |-> 1]
  OBVIOUS
<1>3. node \in Nodes
  BY <1>2, BoundsAssumption DEF Nodes, LoopDevices, Parts
<1>4. PICK u : u = UnitOf(node)
  OBVIOUS
<1>5. u = Nowhere \/ u \in Units
  BY <1>3, <1>4, Typed, UnitTyped
<1>6. \/ Abort /\ files' = files
      \/ u \in Units /\ files' = [files EXCEPT ![u] = runs] /\ Continue
  BY <1>2, <1>4, <1>5 DEF GrubInstall
<1>7. CASE Abort /\ files' = files
  <2>1. Sound'
    BY <1>1, <1>7, Typed DEF Sound, TypeOK
  <2> QED  BY <1>1, <1>7, <2>1, Aborts DEF Abort
<1>8. CASE u \in Units /\ files' = [files EXCEPT ![u] = runs] /\ Continue
  <2>1. Carries
    BY <1>1, <1>8, Carry
  <2>2. \A kind, of : ~Sets(Head(todo), options, kind, of)
    BY <1>1 DEF Sets
  <2>3. files' \in [Units -> 0..MaxRuns] /\ \A v \in Units : files[v] = runs => files'[v] = runs
    BY <1>8, Typed DEF Sound, TypeOK
  <2>4. options \in Options
    BY Typed DEF Sound, TypeOK
  <2>5. \A of : Relies(todo', options', "is", of) => Relies(todo, options, "is", of)
    BY <2>1, <2>2 DEF Carries
  <2>6. /\ Relies(todo', options', "is", "rootfiles") /\ ~Misbound => files'[RootUnit(options)] = runs
        /\ Relies(todo', options', "is", "bootfiles") /\ ~Misbound => files'[BootUnit(options)] = runs
        /\ Relies(todo', options', "is", "kernel") /\ ~Misbound =>
              files'[UnitNamed(options, "p1")] = runs
    BY <2>3, <2>4, <2>5, UnitsTyped DEF IInv, HeldData
  <2> QED  BY <1>1, <2>1, <2>2, <2>3, <2>6, Filling
<1> QED  BY <1>6, <1>7, <1>8
-----------------------------------------------------------------------------
(* Programs that start, and what happens to them.                          *)

LEMMA Started ==
    ASSUME IInv, NEW steps \in Seq(StepType), NEW o \in Options, Proper(steps, o),
           \A kind, of : Relies(steps, o, kind, of) =>
              kind = "there" /\ of = "full" /\ "full" \in images,
           Start(steps, o)
    PROVE  IInv'
<1>1. /\ todo' = steps /\ options' = o /\ runs' = runs + 1 /\ runs < MaxRuns
      /\ confirmed' = {} /\ stale' = FALSE
      /\ UNCHANGED <<native, images, table, uuid, files, loops, dying, binds, mnt, crypt, mapper, silent, mapped,
                     imageMount, fstab>>
  BY DEF Start, storage, kernel
<1>2. Sound'
  <2>1. runs + 1 \in 0..MaxRuns
    BY <1>1, BoundsAssumption, Typed DEF Sound, TypeOK
  <2> QED  BY <1>1, <2>1, Typed DEF Sound, TypeOK
<1>3. \A kind, of : Relies(todo', options', kind, of) =>
         kind = "there" /\ of = "full" /\ "full" \in images
  BY <1>1
<1>4. LoopsBacked'
  BY <1>1, Backed
<1>5. HeldNodes' /\ HeldReleased' /\ HeldMounts' /\ HeldData'
  BY <1>3 DEF HeldNodes, HeldReleased, HeldMounts, HeldData
<1>6. HeldImages'
  BY <1>1, <1>3 DEF HeldImages
<1> QED  BY <1>1, <1>2, <1>4, <1>5, <1>6 DEF IInv

LEMMA Starts ==
    ASSUME IInv, StartInstall \/ StartShutdown \/ StartImageChroot \/ StartQemu
    PROVE  IInv'
<1>1. NoOptions \in Options
  BY DEF NoOptions, Options
<1>2. CASE StartInstall
  <2>1. PICK o \in Installs : Start(InstallSteps(o), o)
    BY <1>2 DEF StartInstall
  <2>2. o \in Options /\ Accepted(o) /\ Sane(o)
    BY InstallsAssumption
  <2> QED  BY <2>1, <2>2, InstallRuns, Started
<1>3. CASE StartShutdown
  BY <1>1, <1>3, ShutdownRuns, Started DEF StartShutdown
<1>4. CASE StartImageChroot
  BY <1>1, <1>4, ImageChrootRuns, Started DEF StartImageChroot
<1>5. CASE StartQemu
  BY <1>1, <1>5, QemuRuns, Started DEF StartQemu
<1> QED  BY <1>2, <1>3, <1>4, <1>5

LEMMA Stops ==
    ASSUME IInv, Interrupt \/ Reboot
    PROVE  IInv'
<1>1. CASE Interrupt
  <2>1. /\ todo' = <<>>
        /\ UNCHANGED <<native, images, table, uuid, files, loops, dying, binds, mnt, crypt, mapper, silent, mapped,
                       imageMount, fstab, options, confirmed, stale, runs>>
    BY <1>1 DEF Interrupt, Abort, storage, kernel, memory
  <2>2. Sound'
    BY <2>1, Typed DEF Sound, TypeOK
  <2> QED  BY <2>1, <2>2, Aborts
<1>2. CASE Reboot
  <2>1. /\ todo' = <<>> /\ loops' = [n \in LoopDevices |-> "free"] /\ dying' = {}
        /\ binds' = [n \in Names |-> None] /\ mnt' = <<>> /\ crypt' = None /\ mapped' = {}
        /\ imageMount' = None /\ mapper' = FALSE /\ silent' = FALSE
        /\ UNCHANGED <<native, images, table, uuid, files, fstab, options, confirmed, stale, runs>>
    BY <1>2 DEF Reboot, storage, memory
  <2>2. <<>> \in Seq([at : {"root", "boot"}, dev : Nodes \cup {None}])
    OBVIOUS
  <2>3. Sound'
    BY <2>1, <2>2, Typed DEF Sound, TypeOK
  <2>4. LoopsBacked'
    BY <2>1 DEF LoopsBacked, ImageNames
  <2> QED  BY <2>1, <2>3, <2>4, Ends
<1> QED  BY <1>1, <1>2

LEMMA Initially ==
    ASSUME Init
    PROVE  IInv
<1>1. Sound
  <2>1. 0 \in 0..MaxRuns
    BY BoundsAssumption
  <2>2. <<>> \in Seq([at : {"root", "boot"}, dev : Nodes \cup {None}])
    OBVIOUS
  <2> QED  BY <2>1, <2>2 DEF Init, Sound, TypeOK, NoOptions, Options, Stores
<1>2. LoopsBacked
  BY DEF Init, LoopsBacked, ImageNames
<1>3. todo \in Seq(StepType) /\ Proper(todo, options) /\ \A kind, of : ~Relies(todo, options, kind, of)
  BY NothingLeft DEF Init
<1>4. HeldNodes /\ HeldImages /\ HeldReleased /\ HeldMounts /\ HeldData
  BY <1>3 DEF HeldNodes, HeldImages, HeldReleased, HeldMounts, HeldData
<1> QED  BY <1>1, <1>2, <1>3, <1>4 DEF IInv

LEMMA ProgramSteps ==
    ASSUME IInv, ProgramStep
    PROVE  IInv'
<1>1. CASE InitNative
  BY <1>1, InitNativeStep
<1>2. CASE CreateRootfs
  BY <1>2, CreateRootfsStep
<1>3. CASE EnsureNative
  BY <1>3, EnsureNativeStep
<1>4. CASE DeleteNative
  BY <1>4, DeleteNativeStep
<1>5. CASE UmountMnt
  BY <1>5, UmountMntStep
<1>6. CASE Unbind
  BY <1>6, UnbindStep
<1>7. CASE BindDisk
  BY <1>7, BindDiskStep
<1>8. CASE RemoveImage
  BY <1>8, RemoveImageStep
<1>9. CASE Truncate
  BY <1>9, TruncateStep
<1>10. CASE Losetup
  BY <1>10, LosetupStep
<1>11. CASE BindImage
  BY <1>11, BindImageStep
<1>12. CASE Partition \/ PartitionCgpt \/ PartitionPrep
  BY <1>12, PartitionStep
<1>13. CASE BindPart
  BY <1>13, BindPartStep
<1>14. CASE Luks
  BY <1>14, LuksStep
<1>15. CASE Format
  BY <1>15, FormatStep
<1>16. CASE Mount
  BY <1>16, MountStep
<1>17. CASE CreateFstab
  BY <1>17, CreateFstabStep
<1>18. CASE CreateCrypttab
  BY <1>18, CreateCrypttabStep
<1>19. CASE Copy
  BY <1>19, CopyStep
<1>20. CASE WriteKpart
  BY <1>20, WriteKpartStep
<1>21. CASE GrubInstall
  BY <1>21, GrubInstallStep
<1>22. CASE CloseCrypt
  BY <1>22, CloseCryptStep
<1>23. CASE DetachAll
  BY <1>23, DetachAllStep
<1>24. CASE UmountWork
  BY <1>24, UmountWorkStep
<1>25. CASE MountImage
  BY <1>25, MountImageStep
<1>26. CASE UmountImage
  BY <1>26, UmountImageStep
<1>27. CASE Confirm \/ EmbedFirmware \/ Check \/ RecoveryZip \/ Report
  BY <1>27, QuietSteps
<1> QED  BY <1>1, <1>2, <1>3, <1>4, <1>5, <1>6, <1>7, <1>8, <1>9, <1>10, <1>11, <1>12, <1>13,
            <1>14, <1>15, <1>16, <1>17, <1>18, <1>19, <1>20, <1>21, <1>22, <1>23, <1>24, <1>25,
            <1>26, <1>27 DEF ProgramStep

LEMMA Unmoved ==
    ASSUME IInv, UNCHANGED vars
    PROVE  IInv'
<1>1. UNCHANGED <<native, images, table, uuid, files, loops, dying, binds, mnt, crypt, mapper, silent, mapped,
                  imageMount, fstab, todo, options, confirmed, stale, runs>>
  BY DEF vars, storage, kernel, memory
<1>2. Sound' /\ LoopsBacked' /\ todo' \in Seq(StepType) /\ Proper(todo', options')
  BY <1>1 DEF IInv, Sound, TypeOK, LoopsBacked
<1>3. HeldNodes' /\ HeldImages'
  BY <1>1 DEF IInv, HeldNodes, HeldImages, Excused, Misbound, DeviceOf, Firm
<1>4. HeldReleased'
  BY <1>1 DEF IInv, HeldReleased, Firm
<1>5. HeldMounts'
  BY <1>1 DEF IInv, HeldMounts, MountedAt, Misbound, Firm, Roots
<1>6. HeldData'
  BY <1>1 DEF IInv, HeldData, Misbound
<1> QED  BY <1>2, <1>3, <1>4, <1>5, <1>6 DEF IInv

(* What the rest of a program relies on always holds, whatever runs before *)
(* this one, however they ended, left attached, bound, mounted or open.    *)
THEOREM Inductive == Spec => []IInv
<1>1. Init => IInv
  BY Initially
<1>2. IInv /\ [Next]_vars => IInv'
  <2> SUFFICES ASSUME IInv, [Next]_vars
               PROVE  IInv'
    OBVIOUS
  <2>1. CASE StartInstall \/ StartShutdown \/ StartImageChroot \/ StartQemu
    BY <2>1, Starts
  <2>2. CASE ProgramStep
    BY <2>2, ProgramSteps
  <2>3. CASE Interrupt \/ Reboot
    BY <2>3, Stops
  <2>4. CASE UNCHANGED vars
    BY <2>4, Unmoved
  <2> QED  BY <2>1, <2>2, <2>3, <2>4 DEF Next
<1> QED  BY <1>1, <1>2, PTL DEF Spec

-----------------------------------------------------------------------------
(* The properties.                                                         *)

(* Every variable has its type: no step of a program takes the minimum of  *)
(* no loop devices or fills a unit that does not exist.                    *)
THEOREM TypeCorrect == Spec => []TypeOK
<1>1. IInv => TypeOK
  BY DEF IInv, Sound
<1> QED  BY <1>1, Inductive, PTL

LEMMA TargetFormatted ==
    ASSUME IInv
    PROVE  FormatsTarget
<1>1. Formatting => Misbound \/ FormattedUnit \in {RootUnit(options), BootUnit(options), Nowhere}
  BY FormatsUnit DEF Formatting, FormattedUnit, At, X
<1>2. ASSUME At("partition") \/ At("embed_firmware")
      PROVE  UnitOf(binds["install"]) = <<StoreOfImage(options), 0>>
  <2>1. todo # <<>> /\ Head(todo).op \in {"partition", "embed_firmware"}
    BY <1>2 DEF At
  <2>2. Partitioned(options)
    BY <2>1, Carry DEF StepOK
  <2>3. Relies(todo, options, "node", "install")
    <3>1. Reads(Head(todo), options, "node", "install")
      BY <2>1 DEF Reads, Uses
    <3> QED  BY <2>1, <3>1, Carry
  <2>4. "install" \in Devices
    BY DEF Devices, Names
  <2>5. Firm(binds["install"], Target(options, "install"))
    BY <2>3, <2>4 DEF IInv, HeldNodes, Excused, DeviceOf
  <2>6. /\ Target(options, "install") \in Units /\ Target(options, "install")[1] \in Disks \cup ImageNames
        /\ binds["install"] \in Nodes \cup {None}
    BY <2>4, Typed, TargetsTyped DEF Sound, TypeOK, Names
  <2>7. Target(options, "install") = <<StoreOfImage(options), 0>>
    BY <2>2 DEF Target, UnitNamed, Partitioned
  <2>8. PICK node, u : node = binds["install"] /\ u = Target(options, "install")
    OBVIOUS
  <2>9. UnitOf(node) = u
    BY <2>5, <2>6, <2>8, Typed, FirmIs
  <2> QED  BY <2>7, <2>8, <2>9
<1> QED  BY <1>1, <1>2 DEF FormatsTarget

(* What "install" formats, partitions and writes firmware to is the disk   *)
(* or image that this run was asked to install to, whatever earlier runs   *)
(* left attached and bound - except through /dev/installp1, 2 and 3 that   *)
(* were bound before.                                                      *)
THEOREM InstallFormatsTarget == Spec => []FormatsTarget
<1>1. IInv => FormatsTarget
  BY TargetFormatted
<1> QED  BY <1>1, Inductive, PTL

LEMMA InstalledIsWhole ==
    ASSUME IInv
    PROVE  InstalledBoots
<1> SUFFICES ASSUME At("flash_info"), ~Misbound
             PROVE  /\ files[RootUnit(options)] = runs
                    /\ fstab.root = uuid[RootUnit(options)]
                    /\ HasBoot(options) =>
                          /\ files[BootUnit(options)] = runs
                          /\ fstab.boot = uuid[BootUnit(options)]
                    /\ Partitioned(options) /\ options.layout = "cgpt" =>
                          files[UnitNamed(options, "p1")] = runs
                    /\ \A image \in Named(options) :
                          /\ image \in images
                          /\ \/ image = "boot" /\ ~HasBoot(options)
                             \/ \E part \in Parts : files[<<image, part>>] = runs
  BY DEF InstalledBoots
<1>1. todo # <<>> /\ Head(todo).op = "flash_info"
  BY DEF At
<1>2. /\ Relies(todo, options, "is", "rootfiles") /\ Relies(todo, options, "is", "rootid")
      /\ HasBoot(options) =>
            Relies(todo, options, "is", "bootfiles") /\ Relies(todo, options, "is", "bootid")
      /\ Partitioned(options) /\ options.layout = "cgpt" => Relies(todo, options, "is", "kernel")
      /\ \A image \in Named(options) : Relies(todo, options, "there", image)
  BY <1>1, Carry DEF Reads
<1>3. /\ files[RootUnit(options)] = runs
      /\ fstab.root = uuid[RootUnit(options)]
      /\ HasBoot(options) => /\ files[BootUnit(options)] = runs
                             /\ fstab.boot = uuid[BootUnit(options)]
      /\ Partitioned(options) /\ options.layout = "cgpt" => files[UnitNamed(options, "p1")] = runs
  BY <1>2 DEF IInv, HeldData
<1>4. ASSUME NEW image \in Named(options)
      PROVE  /\ image \in images
             /\ \/ image = "boot" /\ ~HasBoot(options)
                \/ \E part \in Parts : files[<<image, part>>] = runs
  <2>1. image \in ImageNames
    BY DEF Named, ImageNames
  <2>2. image \in images
    BY <1>2, <2>1 DEF IInv, HeldImages
  <2>3. CASE image = "boot"
    <3>1. options.split
      BY <2>3 DEF Named
    <3>2. HasBoot(options) => BootUnit(options) = <<"boot", 0>>
      BY <3>1 DEF BootUnit, BootName, UnitNamed, Misbound
    <3> QED  BY <1>3, <2>2, <2>3, <3>2 DEF Parts
  <2>4. CASE image # "boot"
    <3>1. \E part \in Parts : RootUnit(options) = <<image, part>>
      <4>1. CASE options.split
        <5>1. image = "root" /\ RootUnit(options) = <<"root", 0>>
          BY <2>4, <4>1 DEF Named, RootUnit, RootName, UnitNamed
        <5> QED  BY <5>1 DEF Parts
      <4>2. CASE ~options.split
        <5>1. image = "full" /\ options.disk = None
          BY <2>4, <4>2 DEF Named
        <5>2. \E part \in Parts : RootUnit(options) = <<"full", part>>
          <6>1. PICK name : name = RootName(options)
            OBVIOUS
          <6>2. RootUnit(options) = <<"full", IF name = "install" THEN 0 ELSE PartOf(name)>>
            BY <4>2, <5>1, <6>1 DEF RootUnit, UnitNamed, StoreOfImage
          <6>3. (IF name = "install" THEN 0 ELSE PartOf(name)) \in Parts
            BY DEF PartOf, Parts
          <6> QED  BY <6>2, <6>3
        <5> QED  BY <5>1, <5>2
      <4> QED  BY <4>1, <4>2
    <3> QED  BY <1>3, <2>2, <3>1
  <2> QED  BY <2>3, <2>4
<1> QED  BY <1>3, <1>4

(* When "install" says what to flash, the disk or image has the rootfs and *)
(* kernel of this run, its fstab and crypttab have the UUIDs of its        *)
(* partitions, and the image files it names are there and were filled.     *)
THEOREM InstalledSystemBoots == Spec => []InstalledBoots
<1>1. IInv => InstalledBoots
  BY InstalledIsWhole
<1> QED  BY <1>1, Inductive, PTL

LEMMA Released ==
    ASSUME IInv
    PROVE  ShutdownReleases
<1> SUFFICES ASSUME At("shutdown_complete")
             PROVE  /\ mnt = <<>> /\ imageMount = None /\ (crypt = None \/ silent)
                    /\ \A n \in Names : binds[n] = None
                    /\ \A n \in LoopDevices : Free(n) \/ n \in mapped \/ (silent /\ On(crypt, n))
  BY DEF ShutdownReleases
<1>1. \A of \in {"mnt", "crypt", "loops", "work"} : Relies(todo, options, "is", of)
  BY Carry DEF At, Reads
<1>2. /\ mnt = <<>> /\ imageMount = None /\ (crypt = None \/ silent)
      /\ \A n \in Names : binds[n] = None
      /\ \A n \in LoopDevices : loops[n] = "free" \/ n \in dying
  BY <1>1 DEF IInv, HeldReleased
<1>3. ASSUME NEW n \in LoopDevices, n \notin mapped, ~(silent /\ On(crypt, n))
      PROVE  ~InUseBy(n)
  <2>1. DOMAIN mnt = {}
    BY <1>2
  <2> QED  BY <1>2, <1>3, <2>1, NoneAssumption DEF InUseBy, On
<1> QED  BY <1>2, <1>3 DEF Free

(* After "shutdown" no mount, binding or image chroot is left, and no loop *)
(* device but the one whose mappings the image chroot kept, whichever      *)
(* programs ended in the middle before; nor is pm_crypt, and the loop      *)
(* device below it, unless "cryptsetup status" has printed nothing since   *)
(* it was opened.                                                          *)
THEOREM ShutdownReleasesAll == Spec => []ShutdownReleases
<1>1. IInv => ShutdownReleases
  BY Released
<1> QED  BY <1>1, Inductive, PTL
================================================================================
