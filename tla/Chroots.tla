------------------------------ MODULE Chroots ------------------------------
(***************************************************************************)
(* The life cycle of pmbootstrap's chroots: pmb/chroot/{init,mount,        *)
(* shutdown,zap,apk}.py, pmb/config/workdir.py, pmb/build/init.py and the  *)
(* commands that use them (build, install, chroot, shutdown, zap).         *)
(*                                                                         *)
(* A run of pmbootstrap is the sequence "todo" of steps it has yet to take:*)
(* a function call is replaced by the steps of the function, so "todo" is  *)
(* the call stack, flattened.  Every step may fail or be interrupted,      *)
(* which ends the program, loses its memory and leaves files and mounts as *)
(* they are.  Between two runs the host may reboot and the user may check  *)
(* out another channel of pmaports.                                        *)
(*                                                                         *)
(* There is one native chroot, one buildroot and one rootfs for the same   *)
(* foreign architecture.                                                   *)
(***************************************************************************)
EXTENDS Naturals, Sequences, SequencesExt, FiniteSets

CONSTANTS
    Native, Buildroot, Rootfs,  \* the chroots
    Channels,                   \* release channels of pmaports
    UsrMerge,                   \* those with supported_usr_merge
    None,                       \* no channel
    Builds,                     \* the packages that may be built, see Build()
    Queues,                     \* what "pmbootstrap build" may have to build
    MaxNested,                  \* bound: builds that installing packages causes in a run
    MaxRuns                     \* bound: runs of pmbootstrap

Chroots == {Native, Buildroot, Rootfs}

(* Chroots of a foreign architecture: arch.cpu_emulation_required() *)
Emulated == {Buildroot, Rootfs}

Kinds == {"unnecessary", "qemu-only", "crossdirect", "cross-native", "cross-native2"}

ASSUME ChrootsAssumption == Cardinality(Chroots) = 3
ASSUME ChannelsAssumption == None \notin Channels /\ UsrMerge \subseteq Channels
ASSUME BuildsAssumption ==
    /\ Builds \subseteq [cross: Kinds, depends: BOOLEAN, rust: BOOLEAN]
    /\ Queues \subseteq Seq(Builds)
    /\ MaxNested \in Nat /\ MaxRuns \in Nat

VARIABLES
    content,    \* what each chroot directory holds
    origin,     \* the channel whose packages it holds
    record,     \* chroot-channels of workdir.cfg
    marker,     \* the chroots with an in-pmbootstrap file
    buildInit,  \* those with tmp/pmb_chroot_build_init_done
    packages,   \* in the native chroot: "qemu", "install_native_packages", an "image"
    mounts,     \* pairs of a chroot and what is mounted in it
    registered, \* binfmt_misc knows the foreign architecture
    channel,    \* the channel of the pmaports checkout
    autoZap,    \* auto_zap_misconfigured_chroots
    todo,       \* steps of the running program; empty: no program runs
    cached,     \* @Cache("chroot") of init()
    mode,       \* of the program: "lax" or "strict" if it is "build", "other"
    queue,      \* the packages the program still has to build
    previous,   \* how the package before was cross compiled
    nested,     \* number of builds caused by installing packages
    skipped,    \* chroots pmb.build.init() returned early for, in this run
    lost,       \* history: mounts that init() does not see are missing, in this run
    runs        \* runs so far

disk == <<content, origin, record, marker, buildInit, packages>>
kernel == <<mounts, registered>>
settings == <<channel, autoZap, runs>>
memory == <<cached, mode, queue, previous, nested, skipped, lost>>
vars == <<disk, kernel, settings, todo, memory>>

Contents ==
    {"absent",      \* no directory
     "empty",       \* mount points and the marker only
     "links",       \* usr-merge symlinks, too
     "shell",       \* packages are installed (bin/sh exists)
     "complete"}    \* and the user pmos, unless it is a rootfs chroot

(* What is mounted: the binds up to etc/apk/keys, which is_mounted() looks *)
(* at, are told from those after it.  "devices" is what mount_dev_tmpfs()  *)
(* does once /dev is mounted: shm, pts and the device nodes.               *)
What ==
    {"dev", "devices", "keys", "packages", "qemu", "native", "stale_native", "rootfs", "sysroot"}

(* The names of the steps. *)
Ops ==
    {"init", "check_channel", "mount_dev", "mount_keys", "mount_packages", "register",
     "add_qemu", "binfmt", "bind_qemu", "mark", "setup", "save_init", "usr_merge",
     "apk_initdb", "add_user", "cache", "umount_all", "remove", "remove_markers",
     "unregister", "clean", "cache_clear", "switch_channel", "install", "install_build",
     "apk_add", "packages", "build_init", "build_init_done", "mount_native",
     "bind_sysroot", "umount_sysroot", "run", "abuild", "ensure_native", "add_tools",
     "create_image", "umount_mnt", "partition", "remove_marker", "bind_rootfs", "copy"}

Step(op, c) == [op |-> op, chroot |-> c]

(* Chroot.exists() and Chroot.is_mounted() *)
Exists(c) == content[c] \in {"shell", "complete"}
IsMounted(c) == Exists(c) /\ <<c, "keys">> \in mounts

MountsIn(c) == {m \in mounts : m[1] = c}

-----------------------------------------------------------------------------
(* The steps of the functions.                                             *)

(* Mutant: del_chroot() trusts that the chroot has been shut down. *)
OnlyRemove(c) == <<Step("remove", c)>>

UmountAndRemove(c) == <<Step("umount_all", c), Step("remove", c)>>

MountSteps(c) ==
    <<Step("mount_dev", c), Step("mount_keys", c), Step("mount_packages", c)>>
        \o IF c \in Emulated THEN <<Step("register", c), Step("bind_qemu", c)>> ELSE <<>>

InitSteps(c) ==
    <<Step("check_channel", c)>> \o MountSteps(c)
        \o <<Step("mark", c), Step("setup", c), Step("cache", c)>>

CreateSteps(c) ==
    <<Step("save_init", c), Step("usr_merge", c), Step("apk_initdb", c), Step("add_user", c)>>

(* In the order of Chroot.glob(), which is that of ChrootType. *)
DeleteBuildroots ==
    UmountAndRemove(Buildroot) \o UmountAndRemove(Native) \o <<Step("cache_clear", Chroots)>>

(* pmb.chroot.shutdown(only_build_related=True), which leaves the native   *)
(* chroot to del_chroot(), then delete both and clear the cache.           *)
ZapBuildrootsSteps ==
    <<Step("remove_markers", {Native, Buildroot}), Step("umount_all", Buildroot)>>
        \o DeleteBuildroots

ShutdownSteps ==
    <<Step("remove_markers", Chroots),
      Step("umount_all", Native), Step("umount_all", Buildroot), Step("umount_all", Rootfs),
      Step("unregister", Chroots)>>

(* workdir.clean(): after all directories are deleted. *)
ZapSteps ==
    ShutdownSteps
        \o UmountAndRemove(Rootfs) \o UmountAndRemove(Buildroot) \o UmountAndRemove(Native)
        \o <<Step("clean", Chroots), Step("cache_clear", Chroots)>>

(* CrossCompile.host_chroot() and build_chroot() *)
HostChroot(cross) == IF cross \in {"unnecessary", "cross-native"} THEN Native ELSE Buildroot
BuildChroot(cross) ==
    IF cross \in {"unnecessary", "cross-native", "cross-native2"} THEN Native ELSE Buildroot

When(condition, steps) == IF condition THEN steps ELSE <<>>

(* The build loop of packages(), for one package; "before" is the cross    *)
(* compilation of the one before it.                                       *)
AbuildSteps(pkg, before, strict) ==
    LET host == HostChroot(pkg.cross)
        build == BuildChroot(pkg.cross)
    IN  When(host # build, <<Step("build_init", host)>>)
        \o <<Step("build_init", build)>>
        \o When(pkg.rust, <<Step("install_build", build)>>)
        \o When((strict \/ pkg.cross # before) /\ pkg.cross \notin {"unnecessary", "qemu-only"},
                <<Step("init", Native), Step("install_build", Native)>>
                    \o When(pkg.cross = "crossdirect", <<Step("mount_native", build)>>))
        \o When(pkg.depends, <<Step("install", host)>>)
        \o When(pkg.depends /\ host # build, <<Step("install", build)>>)
        \o When(pkg.cross = "cross-native2", <<Step("bind_sysroot", Native)>>)
        \o <<Step("abuild", build)>>
        \o When(pkg.cross = "cross-native2", <<Step("umount_sysroot", Native)>>)

(* Mutant: strict mode zaps the buildroots before it builds, not after. *)
BuildStepsZapFirst(pkg, before, strict) ==
    When(strict, ZapBuildrootsSteps) \o AbuildSteps(pkg, before, strict)

BuildSteps(pkg, before, strict) ==
    AbuildSteps(pkg, before, strict) \o When(strict, ZapBuildrootsSteps)

(* Mutant: a strict build only deletes the chroots after each package. *)
BuildProgramUnzapped(how) == <<Step("packages", Native)>>

(* "pmbootstrap build" zaps the buildroots first, unless it is --lax. *)
BuildProgram(how) == When(how = "strict", ZapBuildrootsSteps) \o <<Step("packages", Native)>>

(* "pmbootstrap install": prepare the native chroot, create the device     *)
(* rootfs (which may build packages), put it into an image.                *)
PrepareNativeSteps ==
    <<Step("init", Native), Step("install", Native), Step("add_tools", Native)>>

CreateRootfsSteps ==
    <<Step("init", Rootfs), Step("install_build", Rootfs), Step("run", Rootfs)>>

SystemImageSteps ==
    <<Step("umount_all", Rootfs), Step("create_image", Native), Step("partition", Native)>>
        \o MountSteps(Rootfs)
        \o <<Step("run", Rootfs), Step("umount_all", Rootfs), Step("remove_marker", Rootfs),
             Step("bind_rootfs", Native)>>
        \o <<Step("copy", Native), Step("remove_markers", Chroots), Step("umount_all", Rootfs),
             Step("install_build", Native)>>

InstallSteps ==
    PrepareNativeSteps \o CreateRootfsSteps \o <<Step("ensure_native", Native)>> \o SystemImageSteps

(* What the user may start, apart from "pmbootstrap build". *)
Programs ==
    {<<Step("init", c), Step("run", c)>> : c \in Chroots}
    \cup {<<Step("install_build", c), Step("init", c), Step("run", c)>> : c \in Chroots}
    \cup {InstallSteps, ShutdownSteps, ZapSteps,
          ShutdownSteps \o <<Step("switch_channel", Native)>>}

-----------------------------------------------------------------------------

Modes == {"lax", "strict", "other"}

TypeOK ==
    /\ content \in [Chroots -> Contents]
    /\ origin \in [Chroots -> Channels \cup {None}]
    /\ record \in [Chroots -> Channels \cup {None}]
    /\ marker \subseteq Chroots
    /\ buildInit \subseteq Chroots
    /\ packages \subseteq {"qemu", "install_native_packages", "image"}
    /\ mounts \subseteq Chroots \X What
    /\ registered \in BOOLEAN
    /\ channel \in Channels /\ autoZap \in BOOLEAN
    /\ todo \in Seq([op: Ops, chroot: Chroots \cup SUBSET Chroots])
    /\ cached \subseteq Chroots
    /\ runs \in 0..MaxRuns
    /\ mode \in Modes
    /\ queue \in Seq(Builds) /\ previous \in Kinds
    /\ nested \in 0..MaxNested
    /\ skipped \subseteq Chroots
    /\ lost \subseteq Chroots \X What

Init ==
    /\ content = [c \in Chroots |-> "absent"]
    /\ origin = [c \in Chroots |-> None]
    /\ record = [c \in Chroots |-> None]
    /\ marker = {} /\ buildInit = {} /\ packages = {}
    /\ mounts = {} /\ registered = FALSE
    /\ channel \in Channels /\ autoZap \in BOOLEAN
    /\ runs = 0 /\ todo = <<>>
    /\ cached = {} /\ mode = "other" /\ nested = 0 /\ skipped = {} /\ lost = {}
    /\ queue = <<>> /\ previous = "unnecessary"

-----------------------------------------------------------------------------
(* Every program step starts with one of these.                            *)

At(op) == todo # <<>> /\ Head(todo).op = op
C == Head(todo).chroot

Continue == todo' = Tail(todo)
Replace(steps) == todo' = steps \o Tail(todo)

(* The program is over: its caches are gone. *)
Forget ==
    /\ cached' = {} /\ mode' = "other" /\ nested' = 0 /\ skipped' = {} /\ lost' = {}
    /\ queue' = <<>> /\ previous' = "unnecessary"
Abort == todo' = <<>> /\ Forget

MakeDirectory(c) ==
    content' = [content EXCEPT ![c] = IF @ = "absent" THEN "empty" ELSE @]

Mount(c, what) == mounts' = mounts \cup {<<c, what>>}

-----------------------------------------------------------------------------
(* pmb.chroot.init()                                                       *)

CallInit ==
    /\ At("init")
    /\ IF C \in cached THEN Continue ELSE Replace(InitSteps(C))
    /\ UNCHANGED <<disk, kernel, settings, memory>>

WrongChannel(c) == Exists(c) /\ record[c] \notin {None, channel}

(* chroot_check_channel(); the RuntimeError and the NonBugError abort. *)
CheckChannel ==
    /\ At("check_channel")
    /\ \/ /\ ~Exists(C) \/ record[C] = channel
          /\ Continue /\ UNCHANGED memory
       \/ /\ WrongChannel(C) /\ autoZap
          /\ Replace(UmountAndRemove(C) \o <<Step("clean", Chroots)>>) /\ UNCHANGED memory
       \/ /\ Exists(C) /\ (record[C] = None \/ (WrongChannel(C) /\ ~autoZap))
          /\ Abort
    /\ UNCHANGED <<disk, kernel, settings>>

(* mount_dev_tmpfs() does nothing when /dev is mounted, whatever is in it. *)
MountStep ==
    /\ At("mount_dev") \/ At("mount_keys") \/ At("mount_packages")
    /\ LET new == IF At("mount_keys") THEN {"keys"}
                  ELSE IF At("mount_packages") THEN {"packages"}
                  ELSE IF <<C, "dev">> \in mounts THEN {} ELSE {"dev", "devices"}
       IN  /\ mounts' = mounts \cup {C} \X new
           /\ lost' = lost \ ({C} \X new)
    /\ MakeDirectory(C)
    /\ Continue
    /\ UNCHANGED <<origin, record, marker, buildInit, packages, registered, settings>>
    /\ UNCHANGED <<cached, mode, queue, previous, nested, skipped>>

(* Interrupted after the first of its commands, "mount -t tmpfs". *)
MountInterrupted ==
    /\ At("mount_dev") /\ <<C, "dev">> \notin mounts
    /\ Mount(C, "dev")
    /\ MakeDirectory(C)
    /\ Abort
    /\ UNCHANGED <<origin, record, marker, buildInit, packages, registered, settings>>

(* binfmt.register(): qemu gets installed in the native chroot first.  It  *)
(* is Alpine's package: packages() has nothing to build for it.            *)
Register ==
    /\ At("register")
    /\ Replace(When("qemu" \notin packages,
                    <<Step("init", Native), Step("install", Native), Step("add_qemu", Native)>>)
               \o <<Step("binfmt", C)>>)
    /\ UNCHANGED <<disk, kernel, settings, memory>>

AddPackages ==
    /\ At("add_qemu") \/ At("add_tools")
    /\ packages' = packages \cup {IF At("add_qemu") THEN "qemu" ELSE "install_native_packages"}
    /\ Continue
    /\ UNCHANGED <<content, origin, record, marker, buildInit, kernel, settings, memory>>

Binfmt ==
    /\ At("binfmt")
    /\ registered' = TRUE
    /\ Continue
    /\ UNCHANGED <<disk, mounts, settings, memory>>

(* The source of the bind mount has to exist. *)
BindQemu ==
    /\ At("bind_qemu")
    /\ IF <<C, "qemu">> \in mounts \/ "qemu" \in packages
       THEN Mount(C, "qemu") /\ Continue /\ UNCHANGED memory
       ELSE Abort /\ UNCHANGED mounts
    /\ UNCHANGED <<disk, registered, settings>>

MarkInChroot ==
    /\ At("mark")
    /\ marker' = marker \cup {C}
    /\ Continue
    /\ UNCHANGED <<content, origin, record, buildInit, packages, kernel, settings, memory>>

Setup ==
    /\ At("setup")
    /\ Replace(When(~Exists(C), CreateSteps(C)))
    /\ UNCHANGED <<disk, kernel, settings, memory>>

(* Mutant: an entry of an earlier chroot is kept. *)
SaveInitOnce ==
    /\ At("save_init")
    /\ record' = IF record[C] = None THEN [record EXCEPT ![C] = channel] ELSE record
    /\ Continue
    /\ UNCHANGED <<content, origin, marker, buildInit, packages, kernel, settings, memory>>

ChrootSaveInit ==
    /\ At("save_init")
    /\ record' = [record EXCEPT ![C] = channel]
    /\ Continue
    /\ UNCHANGED <<content, origin, marker, buildInit, packages, kernel, settings, memory>>

(* "ln -s" fails where an interrupted creation left the symlinks. *)
CreateUsrMerge ==
    /\ At("usr_merge")
    /\ IF channel \in UsrMerge /\ content[C] = "links"
       THEN Abort /\ UNCHANGED content
       ELSE /\ content' = IF channel \in UsrMerge THEN [content EXCEPT ![C] = "links"] ELSE content
            /\ Continue /\ UNCHANGED memory
    /\ UNCHANGED <<origin, record, marker, buildInit, packages, kernel, settings>>

ApkInitdb ==
    /\ At("apk_initdb")
    /\ content' = [content EXCEPT ![C] = "shell"]
    /\ origin' = [origin EXCEPT ![C] = channel]
    /\ Continue
    /\ UNCHANGED <<record, marker, buildInit, packages, kernel, settings, memory>>

AddUser ==
    /\ At("add_user")
    /\ content' = [content EXCEPT ![C] = "complete"]
    /\ Continue
    /\ UNCHANGED <<origin, record, marker, buildInit, packages, kernel, settings, memory>>

CacheInit ==
    /\ At("cache")
    /\ cached' = cached \cup {C}
    /\ Continue
    /\ UNCHANGED <<disk, kernel, settings, mode, queue, previous, nested, skipped, lost>>

-----------------------------------------------------------------------------
(* Shutting down and deleting.                                             *)

(* umount_all_list() sorts the mount points in reverse order: /usr/bin,    *)
(* /proc, /native, /mnt/sysroot, /mnt/rootfs_*, /mnt/pmbootstrap,          *)
(* /etc/apk, /dev/shm, /dev.                                               *)
UmountOrder ==
    <<"qemu", "native", "stale_native", "sysroot", "rootfs", "packages", "keys", "devices", "dev">>

UmountedBefore(what, other) ==
    \E i, j \in DOMAIN UmountOrder : i < j /\ UmountOrder[i] = what /\ UmountOrder[j] = other

NextUmount(c, whats) ==
    {what \in whats : /\ <<c, what>> \in mounts
                     /\ \A other \in whats :
                            <<c, other>> \in mounts => ~UmountedBefore(other, what)}

UmountAll ==
    /\ At("umount_all")
    /\ IF MountsIn(C) = {}
       THEN Continue /\ UNCHANGED mounts
       ELSE /\ \E what \in NextUmount(C, What) : mounts' = mounts \ {<<C, what>>}
            /\ UNCHANGED todo
    /\ UNCHANGED <<disk, registered, settings, memory>>

(* rm -rf; the native chroot may still be mounted in the buildroot. *)
RemoveChroot ==
    /\ At("remove")
    /\ content' = [content EXCEPT ![C] = "absent"]
    /\ origin' = [origin EXCEPT ![C] = None]
    /\ marker' = marker \ {C}
    /\ buildInit' = buildInit \ {C}
    /\ packages' = IF C = Native THEN {} ELSE packages
    /\ mounts' = {IF C = Native /\ m[2] = "native" THEN <<m[1], "stale_native">> ELSE m : m \in mounts}
    /\ Continue
    /\ UNCHANGED <<record, registered, settings, memory>>

(* Interrupted: what is left may or may not look like a chroot. *)
RemoveInterrupted ==
    /\ At("remove") /\ Exists(C)
    /\ content' \in {[content EXCEPT ![C] = left] : left \in {"links", "shell"}}
    /\ buildInit' \in {buildInit, buildInit \ {C}}
    /\ marker' \in {marker, marker \ {C}}
    /\ packages' = IF C = Native THEN {} ELSE packages
    /\ Abort
    /\ UNCHANGED <<origin, record, kernel, settings>>

RemoveMarkers ==
    /\ At("remove_markers")
    /\ marker' = marker \ C
    /\ Continue
    /\ UNCHANGED <<content, origin, record, buildInit, packages, kernel, settings, memory>>

Unregister ==
    /\ At("unregister")
    /\ registered' = FALSE
    /\ Continue
    /\ UNCHANGED <<disk, mounts, settings, memory>>

(* Mutant: entries are looked up that are no longer there. *)
CleanDropsEntries ==
    /\ At("clean")
    /\ record' = [c \in {d \in Chroots : content[d] # "absent"} |-> record[c]]
    /\ Continue
    /\ UNCHANGED <<content, origin, marker, buildInit, packages, kernel, settings, memory>>

(* workdir.clean() *)
Clean ==
    /\ At("clean")
    /\ record' = [c \in Chroots |-> IF content[c] = "absent" THEN None ELSE record[c]]
    /\ Continue
    /\ UNCHANGED <<content, origin, marker, buildInit, packages, kernel, settings, memory>>

(* Mutant: a deleted chroot still counts as initialized. *)
CacheClearForgotten ==
    /\ At("cache_clear")
    /\ Continue
    /\ UNCHANGED <<disk, kernel, settings, memory>>

CacheClear ==
    /\ At("cache_clear")
    /\ cached' = {}
    /\ Continue
    /\ UNCHANGED <<disk, kernel, settings, mode, queue, previous, nested, skipped, lost>>

SwitchChannel ==
    /\ At("switch_channel")
    /\ channel' \in Channels
    /\ Continue
    /\ UNCHANGED <<disk, kernel, autoZap, runs, memory>>

-----------------------------------------------------------------------------
(* Installing and building.                                                *)

(* install_run_apk(): "chroot not initialized! This is a bug!" *)
NotInitialized == At("install") /\ ~IsMounted(C)

Install ==
    /\ At("install")
    /\ Replace(When(NotInitialized, <<Step("init", C)>>) \o <<Step("apk_add", C)>>)
    /\ UNCHANGED <<disk, kernel, settings, memory>>

(* apk.install(build=True): packages() builds what is outdated, with       *)
(* strict=True whatever the mode of the command is.                        *)
InstallBuild ==
    /\ At("install_build")
    /\ \/ Replace(<<Step("install", C)>>) /\ UNCHANGED nested
       \/ \E pkg \in Builds :
            /\ nested < MaxNested
            /\ (C = Native) <=> (pkg.cross = "unnecessary")
            /\ nested' = nested + 1
            /\ Replace(BuildSteps(pkg, "unnecessary", TRUE) \o <<Step("install", C)>>)
    /\ UNCHANGED <<disk, kernel, settings, cached, mode, queue, previous, skipped, lost>>

(* The build loop of the command; strict or not for all of its packages. *)
BuildNext ==
    /\ At("packages")
    /\ IF queue = <<>>
       THEN Continue /\ UNCHANGED <<queue, previous>>
       ELSE /\ Replace(BuildSteps(Head(queue), previous, mode = "strict") \o <<Head(todo)>>)
            /\ queue' = Tail(queue)
            /\ previous' = Head(queue).cross
    /\ UNCHANGED <<disk, kernel, settings, cached, mode, nested, skipped, lost>>

(* pmb.build.init(): the marker on disk decides, mounted or not. *)
BuildInit ==
    /\ At("build_init")
    /\ IF C \in buildInit
       THEN Continue /\ skipped' = skipped \cup {C}
       ELSE /\ Replace(<<Step("init", Native), Step("init", C), Step("install", C),
                         Step("build_init_done", C)>>)
            /\ UNCHANGED skipped
    /\ UNCHANGED <<disk, kernel, settings, cached, mode, queue, previous, nested, lost>>

(* "adduser pmos abuild" needs the user that init() creates. *)
BuildInitDone ==
    /\ At("build_init_done")
    /\ IF content[C] = "complete"
       THEN buildInit' = buildInit \cup {C} /\ Continue /\ UNCHANGED memory
       ELSE Abort /\ UNCHANGED buildInit
    /\ UNCHANGED <<content, origin, record, marker, packages, kernel, settings>>

(* mount_native_into_foreign(): the musl symlink needs the chroot's lib. *)
MountNative ==
    /\ At("mount_native")
    /\ IF <<C, "stale_native">> \in mounts THEN UNCHANGED mounts ELSE Mount(C, "native")
    /\ MakeDirectory(C)
    /\ IF Exists(C) /\ Exists(Native) THEN Continue /\ UNCHANGED memory ELSE Abort
    /\ UNCHANGED <<origin, record, marker, buildInit, packages, registered, settings>>

BindSysroot ==
    /\ At("bind_sysroot")
    /\ Mount(C, "sysroot")
    /\ MakeDirectory(Buildroot)
    /\ Continue
    /\ UNCHANGED <<origin, record, marker, buildInit, packages, registered, settings, memory>>

UmountSysroot ==
    /\ At("umount_sysroot")
    /\ mounts' = mounts \ {<<C, "sysroot">>}
    /\ Continue
    /\ UNCHANGED <<disk, registered, settings, memory>>

(* A command in a chroot that is not there, or abuild where it was not     *)
(* installed, fails.                                                       *)
RunProgram ==
    /\ At("run") \/ At("abuild") \/ At("apk_add")
    /\ IF Exists(C) /\ (At("abuild") => C \in buildInit)
       THEN Continue /\ UNCHANGED memory
       ELSE Abort
    /\ UNCHANGED <<disk, kernel, settings>>

-----------------------------------------------------------------------------
(* pmbootstrap install                                                     *)

(* "The creation of the device rootfs may have built packages, which in    *)
(* turn would result in zapping of the native chroot."                     *)
EnsureNative ==
    /\ At("ensure_native")
    /\ Replace(When(~Exists(Native), PrepareNativeSteps))
    /\ UNCHANGED <<disk, kernel, settings, memory>>

(* create_and_mount_image(), unless a disk is installed to: the image of   *)
(* an earlier installation goes first, and what is mounted below /mnt.     *)
CreateImage ==
    /\ At("create_image")
    /\ \/ Continue /\ UNCHANGED packages
       \/ /\ Replace(When("image" \in packages, <<Step("umount_mnt", Native)>>))
          /\ packages' = packages \cup {"image"}
    /\ UNCHANGED <<content, origin, record, marker, buildInit, kernel, settings, memory>>

(* umount_all(native / "mnt"): /mnt/pmbootstrap goes, too, and init() is   *)
(* not called again.                                                       *)
BelowMnt == {"sysroot", "rootfs", "packages"}

UmountMnt ==
    /\ At("umount_mnt")
    /\ IF mounts \cap ({C} \X BelowMnt) = {}
       THEN Continue /\ UNCHANGED <<mounts, lost>>
       ELSE /\ \E what \in NextUmount(C, BelowMnt) : mounts' = mounts \ {<<C, what>>}
            /\ lost' = lost \cup ({<<C, "packages">>} \cap (mounts \ mounts'))
            /\ UNCHANGED todo
    /\ UNCHANGED <<disk, registered, settings, cached, mode, queue, previous, nested, skipped>>

(* Partitioning and formatting, with the tools in the native chroot. *)
Partition ==
    /\ At("partition")
    /\ IF "install_native_packages" \in packages THEN Continue /\ UNCHANGED memory ELSE Abort
    /\ UNCHANGED <<disk, kernel, settings>>

(* "rm", without -f *)
RemoveRootfsMarker ==
    /\ At("remove_marker")
    /\ IF C \in marker
       THEN marker' = marker \ {C} /\ Continue /\ UNCHANGED memory
       ELSE Abort /\ UNCHANGED marker
    /\ UNCHANGED <<content, origin, record, buildInit, packages, kernel, settings>>

BindRootfs ==
    /\ At("bind_rootfs")
    /\ Mount(C, "rootfs")
    /\ Continue
    /\ UNCHANGED <<disk, registered, settings, memory>>

CopyRootfs ==
    /\ At("copy")
    /\ Continue
    /\ UNCHANGED <<disk, kernel, settings, memory>>

-----------------------------------------------------------------------------

ProgramStep ==
    \/ CallInit \/ CheckChannel \/ MountStep \/ Register \/ AddPackages \/ Binfmt \/ BindQemu
    \/ MarkInChroot \/ Setup \/ ChrootSaveInit \/ CreateUsrMerge \/ ApkInitdb \/ AddUser \/ CacheInit
    \/ UmountAll \/ RemoveChroot \/ RemoveMarkers \/ Unregister \/ Clean \/ CacheClear
    \/ SwitchChannel
    \/ Install \/ InstallBuild \/ BuildNext \/ BuildInit \/ BuildInitDone \/ MountNative
    \/ BindSysroot \/ UmountSysroot \/ RunProgram
    \/ EnsureNative \/ CreateImage \/ UmountMnt \/ Partition \/ RemoveRootfsMarker \/ BindRootfs \/ CopyRootfs

(* /dev without the rest: an earlier program was interrupted. *)
Incomplete(c) == <<c, "dev">> \in mounts /\ <<c, "devices">> \notin mounts

StartProgram ==
    /\ todo = <<>>
    /\ runs < MaxRuns /\ runs' = runs + 1
    /\ \/ todo' \in Programs /\ queue' = <<>> /\ mode' = "other"
       \/ /\ queue' \in Queues /\ mode' \in {"lax", "strict"}
          /\ todo' = BuildProgram(mode')
    /\ previous' = "unnecessary"
    /\ cached' = {} /\ nested' = 0 /\ skipped' = {}
    /\ lost' = {<<c, "devices">> : c \in {d \in Chroots : Incomplete(d)}}
    /\ UNCHANGED <<disk, kernel, channel, autoZap>>

(* A command fails, or the user interrupts the program. *)
Fail ==
    /\ todo # <<>>
    /\ Abort
    /\ UNCHANGED <<disk, kernel, settings>>

(* workdir.cfg is truncated before it is written. *)
FailWriting ==
    /\ At("save_init") \/ At("clean")
    /\ record' = [c \in Chroots |-> None]
    /\ Abort
    /\ UNCHANGED <<content, origin, marker, buildInit, packages, kernel, settings>>

Reboot ==
    /\ todo = <<>>
    /\ mounts' = {} /\ registered' = FALSE
    /\ UNCHANGED <<disk, settings, todo, memory>>

(* git checkout in pmaports *)
Checkout ==
    /\ todo = <<>>
    /\ channel' \in Channels
    /\ UNCHANGED <<disk, kernel, autoZap, runs, todo, memory>>

Next ==
    \/ StartProgram \/ ProgramStep
    \/ Fail \/ FailWriting \/ RemoveInterrupted \/ MountInterrupted
    \/ Reboot \/ Checkout

Spec == Init /\ [][Next]_vars

-----------------------------------------------------------------------------

(* rm -rf never runs into something that is mounted: the packages, caches  *)
(* and keys in $WORK, or another chroot.                                   *)
DeletesNothingMounted == At("remove") => MountsIn(C) = {}

(* What workdir.cfg says of a chroot is the channel its packages are from, *)
(* or nothing: the entries outlive the chroots strict mode deletes.        *)
RecordIsTrue ==
    \A c \in Chroots : Exists(c) => record[c] \in {None, origin[c]}

(* What init() provides.  It takes a /dev that an interrupted program left *)
(* incomplete as it is, and does not notice that create_and_mount_image()  *)
(* unmounted what is below /mnt ("lost").                                  *)
Ready(c) ==
    /\ {<<c, "dev">>, <<c, "keys">>} \subseteq mounts
    /\ {<<c, "devices">>, <<c, "packages">>} \subseteq mounts \cup lost
    /\ c \in Emulated => registered /\ <<c, "qemu">> \in mounts
    /\ origin[c] = channel

(* When a program runs in a chroot, the chroot has what programs need in   *)
(* it: mounts, an emulator, packages of the current channel - unless it is *)
(* a build in a chroot of which pmb.build.init() took an old marker for    *)
(* granted.  apk, which may run before init() does, at least finds a       *)
(* chroot.                                                                 *)
ReadyWhenRun ==
    /\ At("run") => Exists(C) /\ Ready(C)
    /\ At("abuild") => C \in skipped \/ (Exists(C) /\ Ready(C))
    /\ At("apk_add") => Exists(C)

(* An installation that builds packages on its way, which deletes the      *)
(* native chroot, still has its tools and the rootfs' marker when it needs *)
(* them.                                                                   *)
InstallSurvivesBuilds ==
    /\ At("partition") => "install_native_packages" \in packages
    /\ At("remove_marker") => C \in marker

(* No deleted native chroot stays mounted at /native of the buildroot,     *)
(* where crossdirect would run compilers that are gone and put links to    *)
(* libraries that nobody updates: del_chroot(native) only looks for mounts *)
(* below the native chroot.  Auto zapping, when an earlier program left    *)
(* the wrong channel, deletes it no matter who has it mounted; but a       *)
(* strict build, which starts by unmounting and deleting both, never       *)
(* compiles with a leftover of that.                                       *)
NoStaleNative ==
    /\ autoZap \/ \A c \in Chroots : <<c, "stale_native">> \notin mounts
    /\ mode = "strict" /\ At("abuild") => \A c \in Chroots : <<c, "stale_native">> \notin mounts

(* A strict build compiles in a chroot that owes nothing to earlier        *)
(* programs: whatever they left mounted, half mounted, marked as set up or *)
(* on another channel, the chroot has all that init() provides - without   *)
(* the exceptions of ReadyWhenRun.                                         *)
StrictBuildsAreFresh ==
    mode = "strict" /\ At("abuild") =>
        /\ Exists(C) /\ origin[C] = channel
        /\ {C} \X {"dev", "devices", "keys", "packages"} \subseteq mounts
        /\ C \in Emulated => registered /\ <<C, "qemu">> \in mounts

(* pmb/chroot/shutdown.py line 91: the marker says "that pmbootstrap has   *)
(* set up all mount points etc. to run programs inside the chroots".       *)
MarkedIsMounted ==
    At("run") /\ C \in marker => {C} \X {"dev", "devices", "keys", "packages"} \subseteq mounts

(* pmb/chroot/apk.py line 154: apk never runs in a chroot that is not      *)
(* mounted ("This is a bug!").                                             *)
NeverNotInitialized == ~NotInitialized

(* _package.py line 150, commands/build.py line 22: "use --lax to skip      *)
(* zap".  No build with --lax deletes the buildroots.                      *)
LaxSkipsZap == ~(mode = "lax" /\ At("cache_clear"))
=============================================================================
