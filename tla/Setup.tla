-------------------------------- MODULE Setup --------------------------------
(***************************************************************************)
(* Setting pmbootstrap up: "pmbootstrap init" (frontend() of               *)
(* pmb/config/init.py), "pull" (pmb/helpers/git.py) and "config"           *)
(* (pmb/commands/config.py), with the checkouts of pmaports and the saved  *)
(* configuration they work on.  Between two commands the user commits,     *)
(* edits files and switches branches, and others publish commits.          *)
(*                                                                         *)
(* A local branch is [base, own, tracks]: how many published commits it    *)
(* has, how many of the user's on top, and which remote it follows.  A     *)
(* process forgets what @Cache() keeps when it ends.                       *)
(***************************************************************************)
EXTENDS Integers, FiniteSets, Functions

CONSTANTS
    Works,            \* work folders
    Own,              \* a pmaports folder outside of them
    Channels,         \* channels.cfg: channel -> branch
    ChannelOf,        \* pmaports.cfg: branch -> channel
    Official,         \* branches that look official, "main" among them
    DevicesOn,        \* branch -> devices that have a port there
    NewDevice,        \* has no port
    ServiceManagers,  \* user interface -> service managers it supports
    Defaults,         \* the configuration before anything is configured
    MaxChanges        \* bound of commands, commits and edits

ASSUME ChannelsAssumption ==
    /\ Official \subseteq DOMAIN ChannelOf /\ "main" \in Official /\ "none" \notin DOMAIN ChannelOf
    /\ \A c \in DOMAIN Channels : Channels[c] \in Official /\ ChannelOf[Channels[c]] = c
    /\ "edge" \in DOMAIN Channels
ASSUME DefaultsAssumption ==
    /\ DOMAIN Defaults = {"work", "aports", "is_default_channel", "device", "ui", "service_manager", "provider"}
    /\ Defaults = [key \in DOMAIN Defaults |-> Defaults[key]]
    /\ Defaults.aports \in Works \cup {Own}

VARIABLES
    remote,           \* published commits of each official branch
    repos,            \* checkouts of pmaports: path -> repository
    file,             \* pmbootstrap_v3.cfg: the values that are not default
    q,                \* the running process
    count

vars == <<remote, repos, file, q, count>>

DEVELOPMENT_CHANNEL == "edge"

Paths == Works \cup {Own}
Missing == [exists |-> FALSE]

(* What a clone has: one local branch and, if it is not shallow, what was   *)
(* published of the others.                                                 *)
Tracking(base) == [base |-> base, own |-> 0, tracks |-> "upstream"]
Clone(shallow) ==
    [exists |-> TRUE, branch |-> "main", dirty |-> FALSE,
     local |-> [b \in {"main"} |-> Tracking(remote[b])],
     fetched |-> Restrict(remote, IF shallow THEN {"main"} ELSE Official)]

With(f, key, value) == [x \in DOMAIN f \cup {key} |-> IF x = key THEN value ELSE f[x]]

(* pmb/config/file.py                                                      *)
Serialize(config) == Restrict(config, {key \in DOMAIN config : config[key] # Defaults[key]})
Load(saved)       == [key \in DOMAIN Defaults |-> IF key \in DOMAIN saved THEN saved[key] ELSE Defaults[key]]

-----------------------------------------------------------------------------
Idle == [pc |-> "idle", kind |-> "none", config |-> <<>>, cache |-> <<>>, channel |-> "none",
         answers |-> <<>>, port |-> "none", ret |-> 0, outcome |-> "none"]

Init ==
    /\ remote = [b \in Official |-> 0]
    /\ repos = [path \in Paths |-> Missing]
    /\ file = <<>>
    /\ q = Idle
    /\ count = 0

repo == repos[q.config.aports]
Ended(outcome) == [q EXCEPT !.pc = "idle", !.outcome = outcome]
Begin == q.pc = "idle" /\ count < MaxChanges /\ count' = count + 1
At(pc) == q.pc = pc /\ UNCHANGED <<remote, count>>

(* read_config() once for each key of its cache.                            *)
ReadConfig(cache, key, r) == IF key \in DOMAIN cache THEN cache ELSE With(cache, key, ChannelOf[r.branch])

(* config aports value: the file is loaded anew, the context is not used.   *)
ConfigCommand ==
    /\ Begin
    /\ q' = Idle
    /\ \E key \in {"ui", "aports"} :
         \E value \in {Defaults[key]} \cup (IF key = "ui" THEN DOMAIN ServiceManagers ELSE Paths) :
           file' = Serialize([Load(file) EXCEPT ![key] = value])
    /\ UNCHANGED <<remote, repos>>

StartInit ==
    /\ Begin
    /\ q' = [Idle EXCEPT !.pc = "paths", !.kind = "init", !.config = Load(file)]
    /\ UNCHANGED <<remote, repos, file>>

(* The work folder; a pmaports folder inside of it follows when it changes. *)
(* The configuration is saved, so that chroots work from here on.           *)
AskForPaths ==
    /\ At("paths")
    /\ \E work \in Works, other \in BOOLEAN :
         LET moved == IF q.config.aports = q.config.work THEN work ELSE q.config.aports
             new   == [q.config EXCEPT !.work = work, !.aports = IF other THEN Own ELSE moved]
         IN  /\ q' = [q EXCEPT !.pc = "clone", !.config = new]
             /\ file' = Serialize(new)
    /\ UNCHANGED repos

InitPmaports ==
    /\ At("clone")
    /\ \/ /\ ~repo.exists
          /\ \E shallow \in BOOLEAN : repos' = [repos EXCEPT ![q.config.aports] = Clone(shallow)]
       \/ repo.exists /\ repos' = repos
    /\ q' = [q EXCEPT !.pc = "channel", !.cache = ReadConfig(@, "default", repos'[q.config.aports])]
    /\ UNCHANGED file

AskForChannel ==
    /\ At("channel")
    /\ \E channel \in DOMAIN Channels :
         q' = [q EXCEPT !.pc = "switch", !.channel = channel,
                        !.cache = ReadConfig(@, "plain", repo)]
    /\ UNCHANGED <<repos, file>>

(* The outcomes of switch_to_channel_branch(): <<repository, switched>>.  A *)
(* branch that is not there is fetched, and then follows no remote.  git    *)
(* refuses to switch when the edited files differ between the branches.     *)
GitSwitchUnchecked(r, branch) ==
    {<<r, TRUE>>} \cup {<<[r EXCEPT !.branch = b], TRUE>> : b \in DOMAIN r.local \cap {branch}}
GitSwitch(r, branch) ==
    LET there == [r EXCEPT !.local = IF branch \in DOMAIN r.local THEN @
                                     ELSE With(@, branch, [Tracking(remote[branch]) EXCEPT !.tracks = "none"])]
    IN  {<<[there EXCEPT !.branch = branch], TRUE>>}
          \cup (IF r.dirty THEN {<<there, FALSE>>} ELSE {})
          \cup (IF branch \notin DOMAIN r.local THEN {<<r, FALSE>>} ELSE {})

SwitchNeeded(current, r, channel) ==
    \/ current # channel
    \/ current = DEVELOPMENT_CHANNEL /\ r.branch = "master" /\ Channels[channel] = "main"

SwitchChannel(cache, r, channel) ==
    IF SwitchNeeded(ReadConfig(cache, "aports", r)["aports"], r, channel)
    THEN GitSwitch(r, Channels[channel]) ELSE {<<r, TRUE>>}

SwitchBranch ==
    /\ At("switch")
    /\ \E result \in SwitchChannel(q.cache, repo, q.channel) :
         /\ repos' = [repos EXCEPT ![q.config.aports] = result[1]]
         /\ q' = IF result[2]
                 THEN [q EXCEPT !.pc = "device", !.config.is_default_channel = FALSE,
                                !.cache = ReadConfig(@, "aports", repo)]
                 ELSE Ended("error")
    /\ UNCHANGED file

(* ask_for_device(): a device that is on the branch, or a new port, for     *)
(* which the development channel is switched to.                            *)
ChooseDevice ==
    /\ At("device")
    /\ \E device \in DevicesOn[repo.branch] :
         q' = [q EXCEPT !.pc = "options", !.config.device = device]
    /\ UNCHANGED <<repos, file>>

DeviceIsGone ==
    /\ At("device")
    /\ q.config.device \notin DevicesOn[repo.branch]
    /\ q' = Ended("error")
    /\ UNCHANGED <<repos, file>>

NewPort ==
    /\ At("device")
    /\ q.config.device # NewDevice /\ NewDevice \notin DevicesOn[repo.branch]
    /\ \E result \in IF q.channel # DEVELOPMENT_CHANNEL
                     THEN SwitchChannel(q.cache, repo, DEVELOPMENT_CHANNEL) ELSE {<<repo, TRUE>>} :
         IF result[2]
         THEN /\ repos' = [repos EXCEPT ![q.config.aports] = [result[1] EXCEPT !.dirty = TRUE]]
              /\ q' = [q EXCEPT !.pc = "options", !.config.device = NewDevice, !.port = result[1].branch]
         ELSE /\ repos' = [repos EXCEPT ![q.config.aports] = result[1]]
              /\ q' = Ended("error")
    /\ UNCHANGED file

(* The user interface, its service manager, and a provider; a service       *)
(* manager is only asked for when there is a choice.                        *)
AskForOptions ==
    /\ At("options")
    /\ \E ui \in DOMAIN ServiceManagers, provider \in {"default", "other"} :
         \E sm \in IF Cardinality(ServiceManagers[ui]) = 1 THEN {q.config.service_manager}
                   ELSE ServiceManagers[ui] \cup {"default"} :
           LET new == [q.config EXCEPT !.ui = ui, !.service_manager = sm, !.provider = provider]
           IN  q' = [q EXCEPT !.pc = "save", !.config = new, !.answers = new]
    /\ UNCHANGED <<repos, file>>

SaveConfig ==
    /\ At("save")
    /\ file' = Serialize(q.config)
    /\ q' = Ended("done")
    /\ UNCHANGED repos

(* pull(): the numbers it returns.  git fails when there is no upstream.    *)
LooksOfficial(r) == r.branch \in Official
SameAsUpstream(r) == r.local[r.branch].base = r.fetched[r.branch] /\ r.local[r.branch].own = 0
UpstreamIsAncestor(r) == r.local[r.branch].base = r.fetched[r.branch]
CanFastForward(r) == r.local[r.branch].own = 0 /\ r.local[r.branch].base <= r.fetched[r.branch]

StartPull ==
    /\ Begin
    /\ LET config == Load(file)
           r      == repos[config.aports]
           ret    == IF ~r.exists THEN 1 ELSE IF ~LooksOfficial(r) THEN -1
                     ELSE IF r.dirty THEN -2 ELSE IF r.local[r.branch].tracks = "other" THEN -3 ELSE 0
           failed == ret = 0 /\ r.exists /\ r.local[r.branch].tracks = "none"
       IN  q' = [Idle EXCEPT !.kind = "pull", !.config = config, !.ret = ret,
                             !.pc = IF ret = 0 /\ ~failed THEN "fetch" ELSE "idle",
                             !.outcome = IF failed THEN "error" ELSE IF ret = 0 THEN "none" ELSE "done"]
    /\ UNCHANGED <<remote, repos, file>>

(* Not when offline.  A connection that breaks is as good as Interrupted.   *)
Fetch ==
    /\ At("fetch")
    /\ \E offline \in BOOLEAN :
         /\ repos' = IF offline THEN repos ELSE [repos EXCEPT ![q.config.aports].fetched = Restrict(remote, DOMAIN @)]
         /\ q' = [q EXCEPT !.pc = "merge"]
    /\ UNCHANGED file

Merge ==
    /\ At("merge")
    /\ LET ret == IF SameAsUpstream(repo) THEN 2 ELSE IF ~CanFastForward(repo) THEN -4 ELSE 0
           ahead == repo.local[repo.branch].own > 0
       IN  /\ repos' = IF ret # 0 \/ ahead THEN repos
                       ELSE [repos EXCEPT ![q.config.aports].local[repo.branch].base = repo.fetched[repo.branch]]
           /\ q' = [Ended("done") EXCEPT !.ret = ret]
    /\ UNCHANGED file

Interrupted ==
    /\ q.pc # "idle" /\ UNCHANGED <<remote, count, repos, file>>
    /\ q' = Ended("stopped")

-----------------------------------------------------------------------------
(* The user, in a checkout, and others.                                     *)
Changed(r) ==
    {[r EXCEPT !.dirty = ~@], [r EXCEPT !.local[r.branch].own = @ + 1],
     [r EXCEPT !.local[r.branch].tracks = "other"]}
    \cup {[r EXCEPT !.local[b].tracks = "upstream"] : b \in DOMAIN r.fetched \cap {r.branch}}
    \cup {[r EXCEPT !.branch = b] : b \in DOMAIN r.local}
    \cup {[r EXCEPT !.branch = b, !.local = With(@, b, Tracking(r.fetched[b]))] :
             b \in DOMAIN r.fetched \ DOMAIN r.local}
    \cup {[r EXCEPT !.branch = b, !.local = With(@, b, [@[r.branch] EXCEPT !.tracks = "none"])] :
             b \in {c \in DOMAIN ChannelOf \ Official : ChannelOf[c] = ChannelOf[r.branch]}}

UserChanges ==
    /\ Begin
    /\ \E path \in {p \in Paths : repos[p].exists} :
         \E changed \in Changed(repos[path]) : repos' = [repos EXCEPT ![path] = changed]
    /\ q' = Idle
    /\ UNCHANGED <<remote, file>>

OthersPublish ==
    /\ Begin
    /\ \E b \in Official : remote' = [remote EXCEPT ![b] = @ + 1]
    /\ q' = Idle
    /\ UNCHANGED <<repos, file>>

Next == \/ ConfigCommand \/ StartInit \/ AskForPaths \/ InitPmaports \/ AskForChannel \/ SwitchBranch
        \/ ChooseDevice \/ DeviceIsGone \/ NewPort \/ AskForOptions \/ SaveConfig
        \/ StartPull \/ Fetch \/ Merge \/ Interrupted \/ UserChanges \/ OthersPublish

Spec == Init /\ [][Next]_vars

-----------------------------------------------------------------------------
InitDone == q.pc = "idle" /\ q.kind = "init" /\ q.outcome = "done"

(* When "pmbootstrap init" says DONE, the pmaports that a later command     *)
(* finds is on the channel the user chose (a new port aside), and what the  *)
(* later command loads is what the user chose.                              *)
InitTakesEffect ==
    InitDone => LET later == Load(file)
                IN  /\ later = q.answers
                    /\ repos[later.aports].exists
                    /\ q.port = "none" => ChannelOf[repos[later.aports].branch] = q.channel

(* When "pmbootstrap pull" reports success for a checkout that exists, its  *)
(* branch is what was last fetched of the upstream branch: commits of the   *)
(* user are never called up to date.                                        *)
PulledIsUpstream ==
    q.pc = "idle" /\ q.kind = "pull" /\ q.outcome = "done" /\ q.ret >= 0 /\ repo.exists
      => SameAsUpstream(repo)

(* ask_for_device() announces that a new port is made on the development    *)
(* channel.                                                                 *)
NewPortOnDevelopmentChannel ==
    q.port # "none" => ChannelOf[q.port] = DEVELOPMENT_CHANNEL
=============================================================================
