# Verification of pmbootstrap in TLA+

pmbootstrap builds postmarketOS packages and images: it works out which packages
have to be built and in which order, keeps chroots in which it builds and installs
them, and runs everything else as external commands. This directory holds models of
those parts in TLA+, configurations that check them with TLC, and proofs checked by
TLAPS. `src/...` below is relative to the repository's root; line numbers are those of
the modelled commit. `PROJECT.json` names, for every definition, the lines it stands for.

## 1. The system

| component | state | operations | interacts with |
|---|---|---|---|
| build order (`pmb/build/_package.py: prioritise_build_queue`) | list, queue, `unmet_deps`, `stuck` | one function | called by package builds |
| package builds (`packages`, `process_package`, `build/other.py: get_status`) | `_package_cache`, `build_queue`, the binary repository | the walk over dependencies, checks, the build loop | APKINDEX, build order, build chroots; called again by `apk.install()` |
| chroot life cycle (`pmb/chroot/{init,mount,shutdown,zap,binfmt}.py`, `config/workdir.py`) | directories, mounts, `workdir.cfg`, marker files, `@Cache` of `init()`, binfmt | init, mount, shutdown, zap, zap_buildroots | everything that runs in a chroot |
| build chroots (`build/init.py`, `build/backend.py`) | `tmp/pmb_chroot_build_init_done`, `/native` and `/mnt/sysroot` mounts | init, init_compiler, run_abuild | chroots, package builds |
| installation (`install/{_install,blockdevice,losetup,partition,format}.py`) | the rootfs chroot and its marker, images, loop and crypt devices, bind mounts | install, shutdown, chroot --image, qemu | all of the above |
| channels of pmaports (`config/pmaports.py`) | the checkout's branch, `@Cache()` of `read_config` | switch_to_channel_branch, a checkout by hand | the channel record of each chroot |
| git checkouts (`helpers/git.py`) | local and remote-tracking branches | clone, pull | channels, init |
| command runner (`helpers/run_core.py`) | process, pipe, timeout | foreground_pipe, kill_command | every command |
| apk and its progress fifo (`helpers/apk.py`, `chroot/apk.py`) | the fifo, apk's packages | run, install | command runner, package builds |
| APKINDEX and caches (`parse/apkindex.py`, `helpers/{repo,http,apk_static}.py`) | parsed indexes by mtime, downloads by age, the list of updated architectures | parse, update, download, apk.static, zap -m -o -hc | package builds, lookup |
| lookup and dependency closure (`helpers/{package,pmaports,pkgrel_bump,repo_missing}.py`) | `@Cache` | providers, find, get, depends_recurse, get_status, pkgrel_bump --auto, repo_missing | APKINDEX |
| versions (`parse/version.py`) | none | validate, compare | lookup, kconfigcheck |
| APKBUILD and deviceinfo parsing (`parse/_apkbuild.py`, `parse/_apkbuild_cond.py`) | `@Cache` by file and architecture | apkbuild | everything that reads an aport |
| kernel configurations (`build/kconfig.py`, `parse/kconfig*.py`, `commands/kconfig.py`) | fragments and configurations in the aport | generate, edit, migrate, check | APKBUILD, versions |
| configuration and interactive init (`config/{init,file}.py`, `commands/config.py`) | `pmbootstrap_v3.cfg`, the answers in memory | init, config | channels, git |
| cross compilation choice (`build/autodetect.py`, `types.py`) | none | crosscompile, host_chroot, build_chroot | package builds |
| build helpers, aportgen, flasher, netboot, sideload, statistics, command line, ci | files only, or none | | |

What is hard in this code:

* **Order.** Lists are changed while they are iterated over, names are marked as visited
  before it is decided what to do with them, cyclic dependencies are broken by heuristics.
* **Re-entrance.** Installing a package may build packages, and a strict build deletes the
  native chroot and the buildroots - while an installation or another build is using them.
* **State on disk, in the kernel and in memory** that has to agree: a chroot's directory, its
  mounts, its entry in `workdir.cfg`, two marker files, the cache of `init()`. A reboot drops
  the second, the end of the program the last, a deletion the first, and an interrupted
  program stops between any two of them.
* **Processes.** A command, the children it leaves behind and pmbootstrap share a pipe.
* **What is remembered.** Parsed indexes, downloads, the channel of a checkout and whole chroots are cached,
  by time or by argument, while builds, git and the user change what they were read from.
* **Meaning.** A shell script is understood without being run, versions and kernel configurations have an order
  and a meaning that other programs define.

What makes the components correct: nothing is lost from the build list and packages are built
after their dependencies; builds are necessary and use current dependencies; programs run in
complete chroots of the right channel; nothing that is mounted is deleted; a command's output
is complete, and only silent commands are killed. Section 4 has the properties, and the
`hazards` of `PROJECT.json` list the lines where each can go wrong.

## 2. Plan

Order: the most important behaviour first. Done:

1. `BuildOrder` and its proofs
2. `Packages` and its proofs, with the order of `BuildOrder` as a specification (for one given architecture)
3. `Chroots` and its proofs: life cycle, builds and installation with interruptions
4. `ForegroundPipe` and its proofs
5. `CorrectOrder`: an abstract specification of a queue that is filled in a correct order, which
   `BuildOrder` implements under a refinement mapping (checked and proved)
6. `Indexes` and its proofs: `apkindex.parse()` with its mtime key, `repo.update()`, interrupted downloads, apk.static
7. `InstallImage` and its proofs: disks, images of every layout and what shutdown undoes
8. `ApkbuildEval`: conditional blocks of an APKBUILD against what the shell does
9. `Versions` and `Lookup`: comparison against the meaning of a version, lookups, dependency closure, `pkgrel_bump --auto`
10. `Kconfig` and its proof: rules, fragments and configurations of a kernel
11. `Setup` and its proofs: init, pull and config, with the checkouts of pmaports

Left:

12. `ApkProgress`: cat, apk and pmbootstrap around the fifo
13. In `Chroots`: image chroots, a second pmbootstrap at the same time
14. In `Packages`: `arch=None`, `crosscompile()`

## 3. The modules and the code

**`BuildOrder`** is `prioritise_build_queue()`, one action per branch. `position` is the hidden index of
Python's list iterator: `disarray.remove()` shifts the list under it, and the action for a cyclic
dependency goes on with the next index while the others leave the loop. A dependency is represented by
what `package.get()` resolves it to: a package in the list, something elsewhere, or nothing. The `for`
over an item's dependencies is one step: `Examined` are the dependencies up to the one that breaks out.

**`Packages`** is `packages()` with `process_package()`, `get_status()`, `check_build_for_arch()` and
`_package_cache`: a call, one step per requested name (`SkipForeign` .. `ProcessRequest`), one per
dependency popped (`WalkDependency`), one per build package (`CheckHelper`), the order, the checks on the
queue, and one step per build. The repository's version of a package, compared with pmaports', is
`none`, `old`, `current` or `newer`. `visited` outlives a call that built nothing or failed, as
`_package_cache` does within a process; a new call either is in the same process or in a new one. The
order of the queue is any that satisfies what `BuildOrder` promises. Builds are external: each may fail.

**`Chroots`** replaces every function call by the steps of the function: `todo` is what the running
program still has to do, the call stack flattened. `Programs` are the commands: `build` (strict and
`--lax`), `chroot` with and without `--add`, `install`, `shutdown`, `zap` and the channel switch of
`init`. Each step may fail or be interrupted (`Fail`), which drops `todo` and `memory` and leaves `disk` and `kernel`. Three
steps have a partial effect that matters: `workdir.cfg` is truncated before it is written (`FailWriting`), a chroot may be
deleted in part (`RemoveInterrupted`), and of the nine commands of `mount_dev_tmpfs()` the first may be the only one that ran
(`MountInterrupted`): then `/dev` is mounted, which is all the next run looks at, and has no `devices`.
`mode` says whether the running program is a strict build, a `--lax` one or another command. An installation that replaces its image unmounts what is below
`/mnt` of the native chroot (`CreateImage`, `UmountMnt`), `/mnt/pmbootstrap` too. `lost` is a history variable for the properties:
the devices that were missing when the program started and the mounts that `UmountMnt` took.
The build loop of `packages()` takes one package of `queue` after another (`BuildNext`), with what the package before
leaves behind: its cross compiler, its mounts, or nothing at all after the zap of strict mode.
`apk.install()` may build a package first, with everything that entails. One foreign architecture has
a buildroot and a rootfs. The 14 mounts of a chroot are four: `/dev`, what is in it (`devices`), `/etc/apk/keys`, which
`is_mounted()` looks at, and those after it (`packages`). qemu is Alpine's package, so registering an emulator installs
but does not build.

**`ForegroundPipe`** is `foreground_pipe()`, `pipe_read()` and `kill_command()`, with the command and one
child of it as processes that write, fork, close their output and exit at any time. Chunks are numbers.
`Tick` is time passing in `select()`, which returns before the next tick when the pipe is readable or
at its end. `quiet` is a history variable for the properties: ticks since something was last read.

**`CorrectOrder`** is what `prioritise_build_queue()` promises and not how: items get a place one by one, the build
packages first; an item gets one when nothing it depends on is without, or when it is part of a mutual dependency and has a
binary package; the search may be given up when something blocks every item left. `BuildOrder` maps its
`disarray` and `queue` to `items` and `order`.

**`Indexes`** has a mirror whose index only gets newer, and per architecture the index file, its modification time
(of a clock that may stand still between two writes) and whether it is older than the retention time. A program is, as in
`Chroots`, a list of steps; each may be the last one. Lookups parse with the cache of `parse()`; a build adds packages and
writes the index; `update()` looks at each architecture once per run. A download may be interrupted, which leaves a
truncated file under its final name (`Damaged`), or the server may end it early, which `download()` does not notice: it returns a file that is too
short (`Short`).

**`InstallImage`** is the storage side of `install`: loop devices and bind mounts of `/dev/install*`, partitions with their
contents, file systems with a UUID that is new for each `mkfs`, the crypt device, mounts, `/etc/fstab`, and `shutdown`,
`chroot --image` and `qemu` on what earlier runs left. The user detaches nothing by hand; a reboot drops all of the kernel's state.
The options are those of the command (a disk, `--split`, `--single-partition`, encryption, `--rsync`, `--zap`, no image, a recovery zip) and what
deviceinfo says: the partition layout (`parted`, ChromeOS' `cgpt` with its kernel partition, `prep` with GRUB on the first partition) and the
images the flash method wants. Building a package in the middle (`CreateRootfs`) releases everything and deletes the native chroot.
`shutdown` closes `pm_crypt` only when the native chroot has its node in `/dev/mapper` (`mapper`) and `cryptsetup status` prints something; `silent`
notes that it did not. As in `Chroots`, `todo` is what the running program still has to do. What a store holds is the run that wrote it. Not told apart: file
systems, sizes (a check may refuse), sparse images, btrfs subvolumes and the content of the zip.

**`ApkbuildEval`** takes the tree that the parser of `_apkbuild_cond.py` returns: commands with `&&` and `||`, `if`, `case`,
loops and here-documents that stay opaque, items that share a line. `Resolve` is the evaluator, `ParseLines` the line by line parser of
`_apkbuild.py` with its dictionary, `FunctionRet` what it does with a subpackage's function. `ShellRun` is the reference.

**`Versions`** is `next_token()` .. `compare()` on sequences of symbols; `Symbols` writes a version and `Meaning` compares
what is meant. **`Lookup`** has an index as the sequence of its blocks, `parse_add_block()` with its overwriting of
older versions, `providers()`, `find()` with the guess from the name, `package.get()` and `depends_recurse()` over pmaports and indexes,
`repo_missing.generate()`, `get_status()`, and `auto()` one step per entry.

**`Kconfig`** has a command as a process: `kconfig generate` writes the fragments of the rules, then merges them with the user's
through the kernel's own tools (`Resolve`: an option that needs another is lost without it), then checks; `edit` lets
the user choose anything and saves the difference to a fragment of any name (`FragmentNames`): of their own, generated, for another
architecture, or one that is no `*.config` and never read. The APKBUILD may change between commands. A name that makes `--fragment` write over another
file of the aport (a configuration, the APKBUILD itself) is not modelled.

**`Setup`** is `frontend()` of init question by question, with the checkout it clones or finds, the answers in memory
and the file; `pull` as git does it; `config`. Between commands others publish commits and the user commits, edits and switches.

The `MC_` modules give the constants values. Definitions whose comment begins with "Mutant" are faulty variants
of the definition after them: with one in its place, TLC finds the property violated, so that
each property is known to depend on the code it is about.

## 4. What is checked

| run | states | what it shows |
|---|---|---|
| `build_order` | 958 024 | no package is lost or doubled (`EveryItemOnce`), the order respects dependencies (`RespectsDependencies`), giving up has a reason (`UnresolvableIsBlocked`), the function ends (`Terminates`), it implements `CorrectOrder` (`ImplementsCorrectOrder`) |
| `packages` | 682 957 | builds use current dependencies (`BuildsOnCurrentDependencies`), none is in vain (`OnlyNecessaryBuilds`), requests are served (`RequestsServed`), calls end (`CallEnds`) |
| `chroots` | 2 713 912 | nothing mounted is deleted (`DeletesNothingMounted`), `workdir.cfg` is true (`RecordIsTrue`), programs find a complete chroot (`ReadyWhenRun`), installations survive builds (`InstallSurvivesBuilds`), no deleted chroot stays mounted (`NoStaleNative`), a strict build compiles in a chroot that owes nothing to earlier programs (`StrictBuildsAreFresh`) |
| `foreground_pipe` | 17 404 | the output is complete (`OutputComplete`), only silent commands are killed (`KilledOnlyWhenSilent`), the end of a command is noticed (`EndIsNoticed`) |
| `indexes` | 683 329 | lookups see what was just built (`LookupIsCurrent`), chroots are created with a complete and recent apk (`CreatesWithVerifiedApk`), an unfinished download is not taken for a fresh index (`UpdatedWasReceived`), the native index is there (`IndexThereWhenNeeded`), the local index is true (`IndexListsWhatIsThere`) |
| `install_image` | 2 824 401 | only the target is formatted (`FormatsTarget`), what is announced as installed boots (`InstalledBoots`), shutdown lets go of everything it could ask about (`ShutdownReleases`) |
| `apkbuild` | about 30 000 files | a replaced block is what the shell runs (`BranchTheShellRuns`), attributes are the shell's (`AttributesOfTheShell`) |
| `lookup` | 20 972 | what is looked up is right (`LookupIsRight`: the newest version is found and decides, the choice among providers does not depend on their order, closures are closed, `repo_missing` names aports), `pkgrel_bump --auto` leaves nothing broken and increases nothing twice (`BrokenIsRebuilt`) |
| `kconfig` | 2 154 447 | a configuration that exists is found (`RulesCanBeMet`), edits survive in a fragment that generating reads and does not write (`EditsAreKept`) |
| `setup` | 3 149 998 | init leaves what the user chose (`InitTakesEffect`), a pull that succeeds leaves what was fetched (`PulledIsUpstream`) |

Bounds, and why they are enough:

* `MC_BuildOrder`: three packages make every cycle of up to three and a package outside of it; two
  dependencies per package, in both orders, reach every combination of the breaks in the inner loop. `git` in the first
  or second place covers its removal before and after others. The proofs cover the rest.
* `MC_Packages`: a package, its library with a subpackage, a provide that another package serves, a build
  package and a pmaport not enabled for the architecture, with all versions that matter. Two calls, because
  what one leaves in `_package_cache` can only disturb the next.
* `MC_Chroots`: two runs after an empty start, so that every state an interrupted run leaves meets every
  command; one build caused by installing packages per run (`MaxNested`), which is what it takes to have the ground
  removed under a command; builds of one or two packages, native, with crossdirect and Rust, or with cross-native2, in every
  order, because what one build leaves can only disturb the next. Two channels, one of them with usr-merge.
* `MC_ForegroundPipe`: two chunks fit in the pipe, four are written, the timeout is two ticks: the pipe gets
  full and empty, and waits are interrupted halfway. The proofs cover the rest of the safety properties.

* `MC_Indexes`: two architectures, because cleaning the caches walks all of them; three versions around the minimum
  one of apk.static; two modification times suffice for "the same second" and "a later one"; three runs: one to leave something
  behind, one to be misled, one to repair.
* `MC_InstallImage`: two disks, every layout and kind of image, three loop devices (two images and a leftover), three runs: one to leave something
  behind, one to meet it, one to be misled by both. The nine sets of options have each option at least once; the proofs cover the rest.
* `MC_ApkbuildEval`: every triple "set, set, read" of 21 kinds of items, each pair with a function of a subpackage; two architectures.
* `MC_Lookup`: numbers of one to three parts with and without leading or last zeros, pre- and post-releases; all pairs of them in one
  index or two; for `auto()` all small repositories from five blocks, some broken, in two indexes; for the closures aports that need each
  other, subpackages, provided names and what is only in an index.
* `MC_Kconfig`: an option, one that may depend on it and a string; rules of every type for every kind of section; a fragment of each
  kind of name; three commands.
* `MC_Setup`: two channels, two work folders and a checkout elsewhere, branches of the user and from before a renaming;
  three commands or changes.

Deadlock is checked for `BuildOrder`, whose last states stutter explicitly. The other
modules stop when the bound on calls, runs or commands is reached or the function has returned.

Fairness: `BuildOrder` and a call of `Packages` are one thread that never waits for anybody (weak fairness of
the step; nothing obliges the user to call). In `ForegroundPipe`, pmbootstrap gets to run and time
passes; the command and its child have no fairness, they may hang. The other modules have
no liveness properties and no fairness: commands may be interrupted for good.

### Where the code and what is said of it differ

Two runs expect TLC to find the statement violated: `erases_unconfirmed` and `new_port_on_stable`. The others are
stated in the modules too, each with a configuration that shows the counterexample, but they are not among the runs: `tlc
-config V_<Name>.cfg MC_<Module>`.

| statement | what differs |
|---|---|
| `ErasesOnlyConfirmed` (run) | `blockdevice.py:59` "EVERYTHING ON {path} WILL BE ERASED! CONTINUE?": `/dev/installp1` and `p2` stay bound to the disk of an earlier installation, which is then formatted instead |
| `NewPortOnDevelopmentChannel` (run) | `config/init.py:622` "All new ports and packages must go through ...": after init has switched to a stable channel, the cached channel makes the announced switch back to edge a no-op |
| `V_OwnSubpackageIgnored` (BuildOrder) | `_package.py:276` "If the dependency is a subpackage we can safely ignore it": the name has been replaced by its main package two lines above, so the package waits for itself and the order cannot be resolved |
| `V_LaterDependencyHasBinary` (BuildOrder) | `_package.py:289` "building ... with binary package of {dep}": the code tests the binary package of the item, not of the dependency |
| `V_UpToDateNote` (Packages) | `commands/build.py:39` "Package ... is up to date": said of an outdated build package (`git`) that was requested together with a package that depends on it |
| `V_NotInitialized` (Chroots) | `chroot/apk.py:154` "This is a bug!": `pmbootstrap chroot --add` and builds after a reboot get there in ordinary use |
| `V_LaxSkipsZap` (Chroots) | `_package.py:150` "use --lax to skip zap": a package built because it has to be installed is built strictly, and deletes the buildroots |
| `V_MarkedIsMounted` (Chroots) | `chroot/shutdown.py:91` "This marker indicates that pmbootstrap has set up all mount points": not the devices that an interrupted `mount_dev_tmpfs()` left out (`mount.py:109` returns for good), nor `/mnt/pmbootstrap` after `blockdevice.py:85` |
| `V_SilentIsKilled` (ForegroundPipe) | `run_core.py:242` "kill the process when it doesn't print any output after a certain time": not if it has closed its output; the loop then spins without a pause |
| `V_DownloadIsWhole` (Indexes) | `helpers/http.py:71` "path to the downloaded file": `copyfileobj()` (line 93) does not compare with Content-Length, a download that ends early is returned as a success, copied over the index and fresh for four hours |
| `V_ShutdownFailsIfOpen` (InstallImage) | `chroot/shutdown.py:63` "(shutdown fails later if it is)!": when `cryptsetup status` prints nothing and `pm_crypt` is open, shutdown completes all the same |
| `V_GrubInTarget` (InstallImage) | `install/_install.py:964` "Install GRUB to the PReP boot partition": it is installed to the first partition of `/dev/loop0`, whatever that is attached to |
| `V_RsyncUpdates` (InstallImage) | `README.md:244` "Update existing installation on SD card": `--rsync` formats like any other installation |
| `V_QemuAlone` (InstallImage) | `commands/qemu.py:387` "Make sure the rootfs image isn't mounted": after an interrupted installation it still is |
| `V_PreReleaseIsLower` (Lookup) | `version.py:239` and `test_version.py:17`: a pre-release is lower, but not when the version ends in `.0` |
| `V_FragmentIsSaved` (Kconfig) | `build/kconfig.py:295` "Fragment saved to {fragment}": with the name of a generated fragment, lines 374-376 have written it anew before, and the edit is gone |
| `V_BooleansCanBeMet` (Kconfig) | `data/kconfigcheck.toml:32` documents boolean rules: they are written as `CONFIG_X=True` and never met |

One more has no statement of its own: `README.md:89` says "To update it, you can run pmbootstrap pull", but the branch of a channel that
init fetches (`config/pmaports.py:244-255`) follows no remote, and `pull` fails on it (`helpers/git.py:362`). `Setup` models the error.

### Exceptions built into properties

They are where the code makes no promise, and are stated here because they are easy to overlook.
`RespectsDependencies` excuses build packages (taken first by design) and members of a cycle with a binary
package. `BuildsOnCurrentDependencies` and `RequestsServed` except build packages and names that the
repository serves by another package. `ReadyWhenRun` excepts builds in a chroot of which `build.init()` trusted its marker file in this run: then
a chroot may be unmounted after a reboot or be of another channel (the hazard at `build/init.py:41`). It also excepts what `lost` has: devices that
an interrupted mount of `/dev` by an *earlier* program left out, and `/mnt/pmbootstrap` of the native chroot once the installation has replaced its image
(`V_MarkedIsMounted`). `StrictBuildsAreFresh` has none of these exceptions.
`NoStaleNative` excepts `auto_zap_misconfigured_chroots`, with which `del_chroot()` deletes a native chroot that
is still mounted in a buildroot; but not for strict builds, which unmount and delete both before. `EndIsNoticed` needs a timeout: without one `select(None)` waits for whoever
holds the pipe. `FormatsTarget` and `InstalledBoots` except a run that finds `/dev/installp*` bound to something
else (`stale`), which is the divergence above, and `--split` with the `cgpt` layout, which formats `/dev/installp3` although only `p1` and `p2`
were bound (`Misbound`). `InstalledBoots` does not ask for anything in the boot image of a split installation without boot partition. `ShutdownReleases` excepts the loop device of an image chroot, kept by the failed
`kpartx -d` until the next shutdown (`mapped`), and `pm_crypt` with its loop device when `cryptsetup status` has printed nothing since it was opened (`silent`,
`V_ShutdownFailsIfOpen`); that the node is missing is no exception, it always is there when `pm_crypt` is open.
`UpdatedWasReceived` excepts an index that an earlier run was interrupted while copying, and says nothing of one that is too short because the server ended the
download early (`V_DownloadIsWhole`). The apk.static of `CreatesWithVerifiedApk` has to be whole, though: signature and version are checked.
`LookupIsRight` and `BrokenIsRebuilt` are about versions on which `compare()` is an order (`RegularVersions`: no last number 0
followed by a suffix, no post-release without a number). `BrokenIsRebuilt` excuses a block that another one of the same name hides and aports
whose name a bumped package provides; an aport may be increased twice, when the binary package of the version between is broken, too. `RulesCanBeMet` excepts what the rules cannot express: contradicting wishes, fragments that an
earlier APKBUILD left, another architecture that fails, and booleans. `EditsAreKept` excepts a fragment that generating writes itself (`V_FragmentIsSaved`),
that is for another architecture or that is no `*.config`: the edit is then in no configuration. It asks of a list only that its elements are there, and of the
text "n" only that the option is not set (`Kept`): two fragments that name a list's elements in different orders both pass validation, and the later one stays. `InitTakesEffect` is about an init without a new port.

## 5. What is proved

Assumptions are the named `ASSUME`s on the constants; there are no others. TLC evaluates them in every run.

**`BuildOrder_proofs`**, for every set of packages, every dependency graph, order and list of build packages:
`TypeCorrect`, `EveryItemExactlyOnce`, `OrderRespectsDependencies`, `OnlyCyclesAreUnresolvable`. The inductive invariant
`IInv` is `TypeOK`, `EveryItemOnce`, `RespectsDependencies` and two strengthenings. `UnmetAreReal`: the unmet
dependencies recorded for a package are dependencies it has. `PassIsBlocked`: as long as a pass has queued nothing
(`stuck`), every item it has passed is blocked, everything that blocks it is recorded, and one that has a binary
is not part of a mutual dependency with an item before it. At the end of such a pass this is what justifies giving up. The lemmas about `RemoveAt` say what
`list.remove()` does to a list without repetitions.

The same module proves `Refinement`, `Spec => ImplementsCorrectOrder`. Every step of the function is a step or a stutter of
`CorrectOrder`. It needs `IInv` and that the first loop leaves no build package behind (`FirstLoop`); that giving up in `BuildOrder` is
giving up in `CorrectOrder` follows from `PassIsBlocked` (`UnresolvableIsAbstractlyBlocked`).

**`ForegroundPipe_proofs`**, for every timeout, pipe capacity and amount of output: `TypeCorrect`,
`OutputIsComplete`, `OnlySilentIsKilled`. The properties are not inductive: that the output is complete
when the function returns needs to know where each chunk is (`ChunksInOrder`: what was read, followed by what
is in the pipe, is what was written), that the command cannot write any more when the loop is left, and that the
last chunk it wrote is therefore behind the reader when the pipe is empty (`GoneAtTheEnd`). That only silent commands are killed needs that
the time waited in `select()` never exceeds the time nothing was read (`QuietWhileWaiting`).

**`Setup_proofs`**, for every set of channels, checkouts, branches, commits and defaults: `TypeCorrect`, `InitIsEffective`,
`PullIsComplete`. `InitTakesEffect` is about the end of a command and says nothing about its middle. The invariant that carries it there is
`InitOnTrack`: until init has switched the checkout, the channel of the checkout it is about to use is not in the cache; afterwards the branch
is one of the chosen channel, and when the file is written the answers in memory are what has just been read or chosen. It needs
that what `save()` leaves out because it is the default comes back from `load()` (`LoadSerialize`), hence the assumptions that channels
have different branches (`ChannelsAssumption`) and that each key has a default of its kind (`DefaultsAssumption`). `PulledIsUpstream` needs
that a pull does not touch the remote-tracking branches after its fetch.

**`Packages_proofs`**, for every set of packages, dependencies, repository and requests: `TypeCorrect`, `RequestsAreServed`,
`BuildsUseCurrentDependencies`, `NothingBuiltInVain`. What is difficult is the cache of visited names, which survives a call that
failed or built nothing. `VisitedHandled` is what makes it harmless: a visited name needs nothing, or its package is in the
build list, and when the list is gone (`StepsInOrder`) so is the cache or the need. Around it: the dependencies of what is in the list
were visited or are about to be (`WalkClosed`), requests and build packages that were passed are dealt with
(`RequestsProcessed`, `HelpersHandled`), every package left in the list has a reason to be there (`QueueJustified`), and the part of
the list that is left stays in a correct order while the rest is built (`RestInOrder`). The order is assumed to be one that
`BuildOrder` promises, and a build package to be the main package of its aport (`NamesAssumption`).

**`Chroots_proofs`**, for all channels, lists of packages, nested builds and runs, whichever step fails: `TypeCorrect`,
`NothingMountedIsDeleted`, `RecordStaysTrue`, `NoDeletedChrootStaysMounted`, `ProgramsFindReadyChroots`, `InstallationsSurviveBuilds`. For
the first four, the invariant `IInv` is mostly about the steps that are left.
`Proper`: a deletion follows the unmounting of the same chroot directly, and the four steps that create a chroot are together. A call
puts its own steps in front of what is left, so a `Block`, which needs no particular step before it, may stand where a step that prepares
nothing has been (`RestIsBlock`, `ConcatBlock`). `Prepared` is what the step whose turn it is has been prepared for. For
`NoStaleNative` the distance is larger: with the native chroot mounted in the buildroot, each deletion of the native chroot ahead is
`Shielded` by an unmounting of the buildroot with nothing but unmounting and deleting in between, hence no nested build that mounts it again.
With auto zapping, `Strictness` is what a strict build has instead: a stale mount, and a native chroot of another channel, are unmounted and deleted before
any chroot is initialized; from there on nothing is of a wrong channel, so auto zapping deletes nothing.

`ReadyWhenRun` and `InstallSurvivesBuilds` need more (`HInv`): what a program finds was set up many steps earlier, before builds
that it started itself and that delete, unmount and set up chroots in between, or before `init()` returned early because the chroot was in its cache.
`Reads` is what a step relies on, for a chroot: that something is mounted in it, that its packages are of the current channel, or the promise that a
cache makes, such as "if `init()` has this chroot in its cache, it is there and equipped" (`sound`) or "`build_init()` either equipped it or
trusted a marker" (`fit`, which is where the exception of `ReadyWhenRun` comes from). `Sets` and `Upsets` are what a step establishes and
destroys, *together with the steps it is replaced by*: a step like `init` is not only what it does itself. `Held`: all that the remaining
steps rely on holds (`Holds`); `Calm`: none of them destroys what a later one relies on, unless a step in between establishes it again.
One dependency is not local: `init()` of the rootfs keeps the native chroot only for an `ensure_native` that comes later (`After`,
the parameter `need`).

The proof has two halves. A list of steps may stand where its name does (`Does`, for instance `SystemImageDoes`, `ZapDoes`): in front of
steps that rely on nothing the name upsets (`Spared`), it relies on what the name reads and leaves the rest alone (`Leads`). So a call that puts
its steps in front of what is left keeps `Calm`, and only what it reads itself is new in `Held`. And each action establishes what its
step `Sets` and keeps what it does not `Upset`. Both halves end in `HeldAlways`, from which the two theorems follow by looking at what the step whose turn it is
reads. "Mounted" in all this is `Present`: mounted as far as `init()` knows, which does not notice that `UmountMnt` took `/mnt/pmbootstrap`. The devices in `/dev` have an
invariant of their own (`Whole`): where `/dev` is mounted they are there, unless they were missing when the program started or are being unmounted. Assumed are the three chroots (`ChrootsAssumption`), that "none" is no channel (`ChannelsAssumption`) and the kinds of builds there are
(`BuildsAssumption`); packages, channels, runs and the depth of nested builds are arbitrary.

**`Indexes_proofs`**, for all packages, versions and clocks, and any number of runs that end at any step: `TypeCorrect`,
`LookupsAreCurrent`, `ChrootsAreCreatedWithVerifiedApk`, `UpdatedIndexesWereReceived`, `NeededIndexIsThere`, `IndexListsPackages`. As for
`Chroots`, the invariant is about what is left to do. `Proper`: which step may follow which (`MayFollow`), which may not be the last one,
and that nothing that needs the native index comes after it was deleted for good. `Reads` and `Pending` look ahead: as long as the index
will be read, it stays once `update()` has looked at it (`IndexStays`), and as long as a chroot will be created with the apk.static that is
there, no step replaces the index it was verified against (`StaticIsCurrent`). The other parts say what the current step
has been prepared for (`Prepared`), that a parse result is current unless it is about to be cleared (`CacheIsCurrent`), that a damaged index
is one that a run was interrupted while copying (`DamageIsKnown`), and that an index differs from the packages only until it is renamed or
the run is interrupted (`IndexFollows`). `Rest` and `Join` carry the invariant over the end of a step and over a call that puts its steps in front.

**`InstallImage_proofs`**, for any disks, every option `install` accepts, any number of loop devices and runs, whichever step is the last of a
run: `TypeCorrect`, `InstallFormatsTarget`, `InstalledSystemBoots`, `ShutdownReleasesAll`. An installation is a program of up to forty steps that
may find anything attached, bound, mounted or open. The invariant says that everything the remaining steps rely on holds. `Reads` is what a
step relies on: that a device is bound to what this run is to write to, that an image is there, attached or not about to be detached, and single
facts such as "the root is mounted". `Sets` is what a step establishes, `Upsets` what it may destroy; `Calm` says that nothing is destroyed that a
later step relies on and no step in between establishes again. `Sound` is what holds throughout: the types, and that an open `pm_crypt` has its node, or
`cryptsetup status` was silent; whoever removes the node relies on it being closed. What holds is then carried from step to step (`Carry`), and each action has
to establish what it `Sets` and keep what it does not `Upset`: `NodesKept`, `MountsKept`, `DataKept` and so on do the latter once for all actions.
`Firm` is what "bound to" has to mean for that: a node that will not become another store when its loop device, which may be about to be
detached, is reused. That the programs are calm is proved by annotating them: `Needs` is what is relied on at each point, `Leads` a step from
one point to the next, `Piece` a part of a program; the steps that a building of packages (`CreateRootfs`) or a missing native
chroot (`EnsureNative`) put in front are such pieces. Assumed: no name of a disk is that of an image, a loop device or "free"
(`DisksAssumption`, `LoopsAssumption`), `None` is no device (`NoneAssumption`), and the options are those the command
accepts (`InstallsAssumption`).

**`Kconfig_proofs`**, for any options, rules, fragments, names of fragments, APKBUILDs and number of commands: `EditsSurviveGenerating`, without any assumption, in
particular none on what the build system of the kernel makes of the fragments. An edit has to arrive where the validation of the generated configuration looks:
it is saved to the fragment (`EditsAreSaved`), which generating does not write over unless it has a generated name (`OthersStay`), read back with
the type it is compared by (`EditsAreParsed`), and the configuration that is validated is the one that stays.

Only model-checked:

* Liveness (`Terminates`, `CallEnds`, `EndIsNoticed`), which is outside of what the provers can do.
* `BranchTheShellRuns` and `AttributesOfTheShell` (`ApkbuildEval`): two recursive interpreters agree on every program, which takes an induction
  over the program.
* `LookupIsRight` and `BrokenIsRebuilt` (`Lookup`): what `Compare`, recursive over two strings, says of a version is what the
  version means, and what folds over indexes keep; inductions over data again.
* `StrictBuildsAreFresh` (`Chroots`): `ReadyWhenRun` and `NoStaleNative` are proved; that none of the exceptions of the former occurs in a
  strict build is not.
* `RulesCanBeMet` (`Kconfig`): what the fold of fragments leaves of each option, with the kernel's dependencies between them.

## 6. What is not modelled

* aportgen and templates, deviceinfo files, boot images: text processing without state.
* Flashing, netboot, sideload, qemu (beyond the image it uses), export, statistics, build helpers: command lines for external tools, no state
  of their own.
* Arguments and logging; migrations of the work folder; the questions of init that only set one value.
* The fifo between cat and apk, and two pmbootstraps at once: there is no lock and no protocol to check; the hazards at `helpers/apk.py:135` and
  `chroot/mount.py:190` say what goes wrong.
* Packages for several architectures in one call, `crosscompile()`, image chroots in `Chroots`.
* git, apk, abuild, losetup, cryptsetup, the kernel and its configuration tools, busybox sh are external and modelled, where at all, by what
  the code relies on.
