------------------------------ MODULE Indexes ------------------------------
(***************************************************************************)
(* Package indexes and downloads, and what pmbootstrap remembers of them:  *)
(* pmb/helpers/{repo,http,apk_static}.py, pmb/parse/apkindex.py: parse()   *)
(* and its cache, pmb/build/other.py: index_repo(), and what               *)
(* "pmbootstrap zap -m -o -hc" deletes.                                    *)
(*                                                                         *)
(* As in Chroots, "todo" is what the running program has yet to do, every  *)
(* step may be the last one of the program, and files survive while memory *)
(* does not.  A mirror has one repository per architecture; its index, and *)
(* the version of apk-tools-static in it, is a number that only grows.     *)
(* The time of last modification that a file gets is the clock's, which    *)
(* may not have moved since the last time the file was written.            *)
(***************************************************************************)
EXTENDS Integers, Sequences

CONSTANTS
    Native, Foreign,    \* architectures
    Packages,           \* packages built locally
    Mismatched,         \* those that differ from their pmaport
    MinVersion,         \* apk_tools_min_version
    MaxVersion,         \* bound: versions of the mirror's index
    MaxClock,           \* bound: modification times
    MaxRuns             \* bound: runs of pmbootstrap

Arches == {Native, Foreign}
Versions == 1..MaxVersion

(* What a file may hold instead of a version: part of it, because it is    *)
(* being written or that was interrupted, or because the server closed the *)
(* connection before all of it was sent.                                   *)
NoFile == 0
Damaged == -1
Short == -2
Contents == {NoFile, Damaged, Short} \cup Versions

ASSUME ArchesAssumption == Native # Foreign
ASSUME PackagesAssumption == Mismatched \subseteq Packages
ASSUME BoundsAssumption ==
    /\ MaxVersion \in Nat \ {0} /\ MinVersion \in Versions
    /\ MaxClock \in Nat /\ MaxRuns \in Nat

VARIABLES
    mirror,     \* version of the mirror's indexes
    index,      \* cache_apk_<arch>/APKINDEX.<hash>.tar.gz
    expired,    \* architectures whose index is older than the retention time
    http,       \* cache_http: the download of the index of each architecture
    apkFiles,   \* cache_http: apk-tools-static-<version>.apk
    apkStatic,  \* $WORK/apk.static: which version, if a whole one
    apks,       \* packages/<channel>/<arch>/*.apk
    listed,     \* what the APKINDEX next to them lists
    mtime,      \* st_mtime of that APKINDEX
    clock,      \* what st_mtime of a file written now would be
    parsed,     \* cache["apkindex"] of that APKINDEX
    updated,    \* @Cache of update()
    wanted,     \* index_data.version of apk_static.init()
    offline,    \* --offline
    torn,       \* architectures whose index an interruption left half copied
    dirty,      \* an interruption came between packages and their index
    todo, runs

files == <<index, expired, http, apkFiles, apkStatic>>
local == <<apks, listed, mtime>>
memory == <<parsed, updated, wanted, offline>>
history == <<torn, dirty>>
vars == <<mirror, files, local, clock, memory, history, todo, runs>>

(* A parse result is kept under the modification time the file had, for    *)
(* each of the two forms of the result.                                    *)
Forms == {"multiple", "single"}
NotParsed == {}

TypeOK ==
    /\ mirror \in Versions
    /\ index \in [Arches -> Contents]
    /\ expired \subseteq Arches
    /\ http \in [Arches -> Contents]
    /\ apkFiles \in [Versions -> Contents]
    /\ apkStatic \in Contents
    /\ apks \subseteq Packages /\ listed \subseteq Packages
    /\ mtime \in 0..MaxClock /\ clock \in 0..MaxClock
    /\ parsed \in [lastmod : 0..MaxClock, results : SUBSET (Forms \X SUBSET Packages)]
    /\ updated \subseteq Arches
    /\ wanted \in {NoFile} \cup Versions
    /\ offline \in BOOLEAN
    /\ torn \subseteq Arches /\ dirty \in BOOLEAN
    /\ runs \in 0..MaxRuns

Init ==
    /\ mirror = 1
    /\ index = [a \in Arches |-> NoFile]
    /\ expired = {}
    /\ http = [a \in Arches |-> NoFile]
    /\ apkFiles = [v \in Versions |-> NoFile]
    /\ apkStatic = NoFile
    /\ apks = Packages /\ listed = Packages
    /\ mtime = 0 /\ clock = 0
    /\ parsed = [lastmod |-> 0, results |-> NotParsed]
    /\ updated = {} /\ wanted = NoFile /\ offline = FALSE
    /\ torn = {} /\ dirty = FALSE
    /\ todo = <<>> /\ runs = 0

-----------------------------------------------------------------------------
(* Programs.                                                               *)

Step(op, x) == [op |-> op, arg |-> x]

(* pmb.helpers.apk_static.init() *)
ApkStaticSteps ==
    <<Step("update", Native), Step("read_index", Native), Step("fetch_apk", Native),
      Step("verify", Native), Step("move", Native)>>

(* pmb.chroot.init() of a chroot that does not exist *)
CreateChrootSteps(a) ==
    ApkStaticSteps \o <<Step("update", a), Step("apk_add", a)>>

(* index_repo(): "apk index" and "abuild-sign" write APKINDEX.tar.gz_ *)
IndexRepoSteps ==
    <<Step("write_temporary", "index"), Step("rename", "index"), Step("clear_cache", "index")>>

(* Mutant: finish() does not clear the parse result. *)
BuildStepsKeepCache(p) ==
    <<Step("update", Native), Step("lookup", "multiple"), Step("build", p),
      Step("rename", "index"), Step("lookup", "multiple"), Step("lookup", "single")>>

(* packages(): look up the package, run abuild, which writes the package   *)
(* and the index, finish(); the next package looks up its dependencies.    *)
BuildSteps(p) ==
    <<Step("update", Native), Step("lookup", "multiple"), Step("build", p),
      Step("rename", "index"), Step("clear_cache", "index"),
      Step("lookup", "multiple"), Step("lookup", "single")>>

(* zap_pkgs_local_mismatch(): rm, and index_repo() only if anything was    *)
(* removed (the question is answered with yes).                            *)
ZapMismatchSteps == <<Step("remove_mismatched", "packages")>>

(* Mutant: the native architecture is not cleaned last. *)
NativeCleanedFirst == <<Native, Foreign>>

(* zap_pkgs_online_mismatch(): apk_static.init() needs the native index,   *)
(* which "apk cache clean" deletes with the packages.  There is a folder   *)
(* cache_apk_<arch> for both, whether it holds an index or not.            *)
CleanOrder == <<Foreign, Native>>

ZapOnlineSteps ==
    ApkStaticSteps \o <<Step("apk_cache_clean", CleanOrder[1])>>
        \o ApkStaticSteps \o <<Step("apk_cache_clean", CleanOrder[2])>>

Programs ==
    {CreateChrootSteps(a) : a \in Arches}
    \cup {BuildSteps(p) : p \in Packages}
    \cup {IndexRepoSteps, ZapMismatchSteps, ZapOnlineSteps,
          ZapMismatchSteps \o ZapOnlineSteps \o <<Step("zap_http", "http")>>,
          <<Step("force_update", Foreign), Step("force_update", Native)>>}

At(op) == todo # <<>> /\ Head(todo).op = op
X == Head(todo).arg

Continue == todo' = Tail(todo)
Replace(steps) == todo' = steps \o Tail(todo)
Abort == todo' = <<>>

-----------------------------------------------------------------------------
(* pmb.helpers.repo.update()                                               *)

FetchSteps(a) ==
    <<Step("download", a), Step("received", a), Step("copy", a), Step("copied", a)>>

Outdated(a) == index[a] = NoFile \/ a \in expired

(* @Cache("arch", force=False): one look at the files per run *)
Update ==
    /\ At("update")
    /\ IF X \in updated \/ offline \/ ~Outdated(X)
       THEN Continue /\ updated' = updated \cup {X}
       ELSE Replace(FetchSteps(X) \o <<Step("cache_update", X)>>) /\ UNCHANGED updated
    /\ UNCHANGED <<mirror, files, local, clock, parsed, wanted, offline, history, runs>>

CacheUpdate ==
    /\ At("cache_update")
    /\ updated' = updated \cup {X}
    /\ Continue
    /\ UNCHANGED <<mirror, files, local, clock, parsed, wanted, offline, history, runs>>

(* pmbootstrap update: force, but only what exists. *)
ForceUpdate ==
    /\ At("force_update")
    /\ IF offline \/ index[X] = NoFile THEN Continue ELSE Replace(FetchSteps(X))
    /\ UNCHANGED <<mirror, files, local, clock, memory, history, runs>>

(* Mutant: a download of the index that is there is used again. *)
DownloadCached ==
    /\ At("download")
    /\ http' = IF http[X] = NoFile THEN [http EXCEPT ![X] = Damaged] ELSE http
    /\ IF http[X] = NoFile THEN Continue ELSE todo' = Tail(Tail(todo))
    /\ UNCHANGED <<mirror, index, expired, apkFiles, apkStatic, local, clock, memory, history, runs>>

(* http.download(cache=False): "rm", then the file is opened and filled.   *)
Download ==
    /\ At("download")
    /\ http' = [http EXCEPT ![X] = Damaged]
    /\ Continue
    /\ UNCHANGED <<mirror, index, expired, apkFiles, apkStatic, local, clock, memory, history, runs>>

(* shutil.copyfileobj() ends where the response does: that it was closed   *)
(* early is not noticed.                                                   *)
Received ==
    /\ At("received")
    /\ http' \in {[http EXCEPT ![X] = file] : file \in {mirror, Short}}
    /\ Continue
    /\ UNCHANGED <<mirror, index, expired, apkFiles, apkStatic, local, clock, memory, history, runs>>

(* cp writes into the file apk and the lookups read. *)
Copy ==
    /\ At("copy")
    /\ index' = [index EXCEPT ![X] = Damaged]
    /\ expired' = expired \ {X}
    /\ Continue
    /\ UNCHANGED <<mirror, http, apkFiles, apkStatic, local, clock, memory, history, runs>>

Copied ==
    /\ At("copied")
    /\ index' = [index EXCEPT ![X] = http[X]]
    /\ torn' = torn \ {X}
    /\ Continue
    /\ UNCHANGED <<mirror, expired, http, apkFiles, apkStatic, local, clock, memory, dirty, runs>>

-----------------------------------------------------------------------------
(* pmb.helpers.apk_static.init()                                           *)

(* Mutant: only the existence of the index is checked. *)
ReadIndexUnparsed ==
    /\ At("read_index")
    /\ IF index[Native] # NoFile
       THEN wanted' = index[Native] /\ Continue
       ELSE Abort /\ UNCHANGED wanted
    /\ UNCHANGED <<mirror, files, local, clock, parsed, updated, offline, history, runs>>

(* The index has to be there and readable, its version has to be recent    *)
(* enough (check_outdated()); otherwise the program ends with an error.    *)
ReadIndex ==
    /\ At("read_index")
    /\ IF index[Native] >= MinVersion
       THEN wanted' = index[Native] /\ Continue
       ELSE Abort /\ UNCHANGED wanted
    /\ UNCHANGED <<mirror, files, local, clock, parsed, updated, offline, history, runs>>

(* http.download(cache=True): whatever is there is taken for the download. *)
FetchApk ==
    /\ At("fetch_apk")
    /\ IF apkFiles[wanted] # NoFile
       THEN Continue /\ UNCHANGED apkFiles
       ELSE /\ ~offline
            /\ apkFiles' = [apkFiles EXCEPT ![wanted] = Damaged]
            /\ Replace(<<Step("apk_received", Native)>>)
    /\ UNCHANGED <<mirror, index, expired, http, apkStatic, local, clock, memory, history, runs>>

(* "File not found in cache and offline flag is enabled", or a 404: the    *)
(* mirror may have a newer version than the index says.                    *)
ApkMissing ==
    /\ At("fetch_apk") /\ apkFiles[wanted] = NoFile
    /\ offline \/ wanted # mirror
    /\ Abort
    /\ UNCHANGED <<mirror, files, local, clock, memory, history, runs>>

ApkReceived ==
    /\ At("apk_received")
    /\ apkFiles' \in {[apkFiles EXCEPT ![wanted] = file] : file \in {wanted, Short}}
    /\ Continue
    /\ UNCHANGED <<mirror, index, expired, http, apkStatic, local, clock, memory, history, runs>>

(* Mutant: the signature is not verified. *)
VerifyNothing ==
    /\ At("verify")
    /\ Continue
    /\ UNCHANGED <<mirror, files, local, clock, memory, history, runs>>

(* verify_signature() and the version the binary reports *)
Verify ==
    /\ At("verify")
    /\ IF apkFiles[wanted] = wanted THEN Continue ELSE Abort
    /\ UNCHANGED <<mirror, files, local, clock, memory, history, runs>>

(* shutil.move() from the directory for temporary files: a copy, if that   *)
(* is another file system.                                                 *)
Move ==
    /\ At("move")
    /\ apkStatic' = apkFiles[wanted]
    /\ Continue
    /\ UNCHANGED <<mirror, index, expired, http, apkFiles, local, clock, memory, history, runs>>

(* apk runs as $WORK/apk.static *)
ApkAdd ==
    /\ At("apk_add")
    /\ Continue
    /\ UNCHANGED <<mirror, files, local, clock, memory, history, runs>>

(* "With apkv3, APKINDEX files get deleted" *)
ApkCacheClean ==
    /\ At("apk_cache_clean")
    /\ index' = [index EXCEPT ![X] = NoFile]
    /\ expired' = expired \ {X} /\ torn' = torn \ {X}
    /\ Continue
    /\ UNCHANGED <<mirror, http, apkFiles, apkStatic, local, clock, memory, dirty, runs>>

ZapHttp ==
    /\ At("zap_http")
    /\ http' = [a \in Arches |-> NoFile]
    /\ apkFiles' = [v \in Versions |-> NoFile]
    /\ Continue
    /\ UNCHANGED <<mirror, index, expired, apkStatic, local, clock, memory, history, runs>>

-----------------------------------------------------------------------------
(* The index of the packages built locally.                                *)

(* abuild writes the package, later the index (by renaming it). *)
Build ==
    /\ At("build")
    /\ apks' = apks \cup {X}
    /\ Continue
    /\ UNCHANGED <<mirror, files, listed, mtime, clock, memory, history, runs>>

WriteTemporary ==
    /\ At("write_temporary")
    /\ Continue
    /\ UNCHANGED <<mirror, files, local, clock, memory, history, runs>>

Rename ==
    /\ At("rename")
    /\ listed' = apks
    /\ mtime' = clock
    /\ dirty' = FALSE
    /\ Continue
    /\ UNCHANGED <<mirror, files, apks, clock, memory, torn, runs>>

Removable == listed \cap apks \cap Mismatched

(* Mutant: index_repo() forgotten. *)
RemoveMismatchedOnly ==
    /\ At("remove_mismatched")
    /\ IF Removable = {}
       THEN UNCHANGED apks
       ELSE apks' = apks \ Removable
    /\ Continue
    /\ UNCHANGED <<mirror, files, listed, mtime, clock, memory, history, runs>>

(* The loop over the blocks of the index.  What it lists but does not find *)
(* it only warns of: nothing removed, nothing indexed.                     *)
RemoveMismatched ==
    /\ At("remove_mismatched")
    /\ IF Removable = {}
       THEN Continue /\ UNCHANGED apks
       ELSE apks' = apks \ Removable /\ Replace(IndexRepoSteps)
    /\ UNCHANGED <<mirror, files, listed, mtime, clock, memory, history, runs>>

ClearCache ==
    /\ At("clear_cache")
    /\ parsed' = [parsed EXCEPT !.results = NotParsed]
    /\ Continue
    /\ UNCHANGED <<mirror, files, local, clock, updated, wanted, offline, history, runs>>

(* What apkindex.parse() returns for the local index. *)
CachedResults == IF parsed.lastmod = mtime THEN parsed.results ELSE NotParsed

LookupResult(form) ==
    IF \E r \in CachedResults : r[1] = form
    THEN (CHOOSE r \in CachedResults : r[1] = form)[2]
    ELSE listed

Lookup ==
    /\ At("lookup")
    /\ parsed' = [lastmod |-> mtime,
                  results |-> CachedResults \cup {<<X, LookupResult(X)>>}]
    /\ Continue
    /\ UNCHANGED <<mirror, files, local, clock, updated, wanted, offline, history, runs>>

-----------------------------------------------------------------------------

StartProgram ==
    /\ todo = <<>> /\ runs < MaxRuns
    /\ runs' = runs + 1
    /\ todo' \in Programs
    /\ offline' \in BOOLEAN
    /\ parsed' = [lastmod |-> 0, results |-> NotParsed]
    /\ updated' = {} /\ wanted' = NoFile
    /\ UNCHANGED <<mirror, files, local, clock, history>>

(* A command fails, the network breaks down, the user interrupts. *)
Interrupt ==
    /\ todo # <<>>
    /\ torn' = IF At("copied") THEN torn \cup {X} ELSE torn
    /\ dirty' = (dirty \/ listed # apks)
    /\ Abort
    /\ UNCHANGED <<mirror, files, local, clock, memory, runs>>

(* Interrupted while apk.static is copied. *)
InterruptMove ==
    /\ At("move")
    /\ apkStatic' = Damaged
    /\ Abort
    /\ UNCHANGED <<mirror, index, expired, http, apkFiles, local, clock, memory, history, runs>>

MirrorGrows ==
    /\ mirror < MaxVersion
    /\ mirror' = mirror + 1
    /\ UNCHANGED <<files, local, clock, memory, history, todo, runs>>

Expire ==
    /\ todo = <<>>
    /\ expired' = {a \in Arches : index[a] # NoFile}
    /\ UNCHANGED <<mirror, index, http, apkFiles, apkStatic, local, clock, memory, history, todo, runs>>

Tick ==
    /\ clock < MaxClock
    /\ clock' = clock + 1
    /\ UNCHANGED <<mirror, files, local, memory, history, todo, runs>>

ProgramStep ==
    \/ Update \/ CacheUpdate \/ ForceUpdate \/ Download \/ Received \/ Copy \/ Copied
    \/ ReadIndex \/ FetchApk \/ ApkMissing \/ ApkReceived \/ Verify \/ Move \/ ApkAdd
    \/ ApkCacheClean \/ ZapHttp
    \/ Build \/ WriteTemporary \/ Rename \/ RemoveMismatched \/ ClearCache \/ Lookup

Next ==
    \/ StartProgram \/ ProgramStep \/ Interrupt \/ InterruptMove
    \/ MirrorGrows \/ Expire \/ Tick

Spec == Init /\ [][Next]_vars

-----------------------------------------------------------------------------

(* A lookup never answers from before a build: the parse result is kept by *)
(* modification time, and a build may take less than a tick of it, so      *)
(* finish() and index_repo() have to clear it ("to prevent rebuilding      *)
(* packages twice, in case the rebuild takes less than a second").         *)
LookupIsCurrent == At("lookup") => LookupResult(X) = listed

(* The apk that creates a chroot is the one the native index names, was    *)
(* downloaded completely, and is recent enough: although an interrupted    *)
(* download has the name of a complete one and is used by the next run,    *)
(* and although index and apk may have been cut off by the server.         *)
CreatesWithVerifiedApk ==
    At("apk_add") => apkStatic = index[Native] /\ apkStatic >= MinVersion

(* What update() has looked at, download() returned: an unfinished download*)
(* does not find its way into the place of the index, in this run or       *)
(* another.  An index that is half copied comes from a run that was        *)
(* interrupted then; it counts as fresh for the retention time, as does    *)
(* one that the server ended early (see DownloadIsWhole).                  *)
UpdatedWasReceived ==
    \A a \in updated : index[a] = Damaged => a \in torn \/ (At("copied") /\ X = a)

(* apk_static.init() finds an index after update(), although update() looks*)
(* only once per run and cleaning the caches of several architectures      *)
(* deletes indexes in between ("This prevents crashing in 'pmbootstrap zap *)
(* -a'").                                                                  *)
IndexThereWhenNeeded ==
    At("read_index") => offline \/ index[Native] # NoFile

(* Between runs the index lists what is there, unless a run was            *)
(* interrupted between packages and index; "zap -m" does not repair that.  *)
IndexListsWhatIsThere == todo = <<>> => dirty \/ listed = apks

(* pmb/helpers/http.py line 71: download() returns the "path to the        *)
(* downloaded file", and update() copies what is there.                    *)
DownloadIsWhole == At("copy") => http[X] # Short
=============================================================================
