---------------------------- MODULE Setup_proofs ----------------------------
(***************************************************************************)
(* What holds of Setup for all channels, branches, checkouts and default   *)
(* configurations, and any number of commands.                             *)
(***************************************************************************)
EXTENDS Setup, TLAPS

Branches == DOMAIN ChannelOf
Keys     == DOMAIN Defaults

IsRecord(r, fields) == r = [f \in fields |-> r[f]]

Fields == {"exists", "branch", "dirty", "local", "fetched"}

IsConfig(c) == IsRecord(c, Keys) /\ c.aports \in Paths
IsBranch(b) == IsRecord(b, {"base", "own", "tracks"})

(* The branch that is checked out is there, and so is what a branch is      *)
(* compared with that follows upstream.                                     *)
IsCheckout(r) ==
    /\ IsRecord(r, Fields) /\ r.exists
    /\ IsRecord(r.local, DOMAIN r.local)
    /\ r.branch \in DOMAIN r.local
    /\ \A b \in DOMAIN r.local : b \in Branches /\ IsBranch(r.local[b])
    /\ DOMAIN r.fetched \subseteq Official

IsProcess(s) ==
    IsRecord(s, {"pc", "kind", "config", "cache", "channel", "answers", "port", "ret", "outcome"})

TypeOK ==
    /\ repos = [path \in Paths |-> repos[path]]
    /\ \A path \in Paths : repos[path] = Missing \/ IsCheckout(repos[path])
    /\ IsConfig(Load(file))
    /\ IsProcess(q)
    /\ q.pc \in {"idle", "paths", "clone", "channel", "switch", "device", "options", "save", "fetch", "merge"}
    /\ q.pc # "idle" => /\ IsConfig(q.config)
                        /\ q.kind = IF q.pc \in {"fetch", "merge"} THEN "pull" ELSE "init"
    /\ q.pc \notin {"idle", "paths", "clone"} => repo.exists

(* What init relies on: until the channel is switched, the channel of the   *)
(* checkout has not been cached for this purpose, and after that the branch *)
(* is one of the channel that was chosen.                                   *)
InitOnTrack ==
    /\ q.pc \in {"paths", "clone", "channel", "switch", "device"} => q.port = "none"
    /\ q.pc \in {"paths", "clone", "channel", "switch"} => "aports" \notin DOMAIN q.cache
    /\ q.pc \in {"switch", "device", "options", "save"} => q.channel \in DOMAIN Channels
    /\ q.pc \in {"device", "options", "save"} /\ q.port = "none" => ChannelOf[repo.branch] = q.channel
    /\ q.pc = "save" => q.answers = q.config

IInv == TypeOK /\ InitOnTrack /\ InitTakesEffect /\ PulledIsUpstream

-----------------------------------------------------------------------------
(* What is saved is what is loaded: a value that is not written is the      *)
(* default.                                                                 *)
LEMMA LoadSerialize ==
    ASSUME NEW c, IsConfig(c)
    PROVE  Load(Serialize(c)) = c
<1>1. Serialize(c) = [key \in {k \in Keys : c[k] # Defaults[k]} |-> c[key]]
  BY DEF Serialize, Restrict, IsConfig, IsRecord, Keys
<1>2. \A key \in Keys : (IF key \in DOMAIN Serialize(c) THEN Serialize(c)[key] ELSE Defaults[key]) = c[key]
  BY <1>1
<1>3. Load(Serialize(c)) = [key \in Keys |-> c[key]]
  BY <1>2 DEF Load, Keys
<1> QED  BY <1>3 DEF IsConfig, IsRecord

LEMMA LoadNothing == Load(<<>>) = Defaults
<1>1. DOMAIN <<>> = {}
  OBVIOUS
<1>2. Load(<<>>) = [key \in DOMAIN Defaults |-> Defaults[key]]
  BY <1>1 DEF Load
<1> QED  BY <1>2, DefaultsAssumption

LEMMA ConfigChanges ==
    ASSUME NEW c, IsConfig(c)
    PROVE  /\ \A key \in Keys \ {"aports"} : \A v : IsConfig([c EXCEPT ![key] = v])
           /\ \A path \in Paths : IsConfig([c EXCEPT !.aports = path])
<1>1. DOMAIN c = Keys /\ "aports" \in Keys
  BY DefaultsAssumption DEF IsConfig, IsRecord, Keys
<1> QED  BY <1>1 DEF IsConfig, IsRecord

(* One checkout is replaced by another.                                     *)
LEMMA CheckoutReplaced ==
    ASSUME TypeOK, NEW path \in Paths, NEW r, IsCheckout(r), repos' = [repos EXCEPT ![path] = r]
    PROVE  /\ repos' = [p \in Paths |-> repos'[p]]
           /\ \A p \in Paths : repos'[p] = Missing \/ IsCheckout(repos'[p])
           /\ repos'[path] = r
<1>1. repos = [p \in Paths |-> repos[p]] /\ DOMAIN repos = Paths
  BY DEF TypeOK
<1>2. repos' = [p \in Paths |-> IF p = path THEN r ELSE repos[p]]
  BY <1>1
<1> QED  BY <1>1, <1>2 DEF TypeOK

LEMMA CheckoutExists ==
    ASSUME TypeOK, NEW path \in Paths
    PROVE  repos[path].exists <=> IsCheckout(repos[path])
<1>1. ~Missing.exists
  BY DEF Missing
<1>2. ASSUME NEW r, IsCheckout(r)  PROVE r.exists
  BY <1>2 DEF IsCheckout
<1> QED  BY <1>1, <1>2 DEF TypeOK

LEMMA TrackingIsBranch ==
    \A base : /\ IsBranch(Tracking(base))
              /\ IsBranch([Tracking(base) EXCEPT !.tracks = "none"])
BY DEF Tracking, IsBranch, IsRecord

LEMMA BranchChecked ==
    ASSUME NEW r, IsCheckout(r), NEW b \in DOMAIN r.local
    PROVE  IsCheckout([r EXCEPT !.branch = b]) /\ [r EXCEPT !.branch = b].branch = b
<1> DEFINE s == [r EXCEPT !.branch = b]
<1>1. /\ IsRecord(s, Fields) /\ s.exists
      /\ s.branch = b /\ s.local = r.local /\ s.fetched = r.fetched
  BY DEF IsCheckout, IsRecord, Fields
<1> HIDE DEF s
<1>2. IsCheckout(s) /\ s.branch = b
  BY <1>1 DEF IsCheckout
<1> QED  BY <1>2 DEF s

LEMMA BranchAdded ==
    ASSUME NEW r, IsCheckout(r), NEW b \in Branches, NEW v, IsBranch(v)
    PROVE  LET s == [r EXCEPT !.local = With(@, b, v)]
           IN  IsCheckout(s) /\ b \in DOMAIN s.local /\ IsCheckout([s EXCEPT !.branch = b])
<1> DEFINE s == [r EXCEPT !.local = With(@, b, v)]
<1>1. /\ IsRecord(s, Fields) /\ s.exists
      /\ s.branch = r.branch /\ s.local = With(r.local, b, v) /\ s.fetched = r.fetched
  BY DEF IsCheckout, IsRecord, Fields
<1> HIDE DEF s
<1>2. IsCheckout(s) /\ b \in DOMAIN s.local
  BY <1>1 DEF IsCheckout, IsRecord, With
<1>3. IsCheckout([s EXCEPT !.branch = b])
  BY <1>2, BranchChecked
<1> QED  BY <1>2, <1>3 DEF s

LEMMA CloneIsCheckout == \A shallow \in BOOLEAN : IsCheckout(Clone(shallow))
<1> TAKE shallow \in BOOLEAN
<1> DEFINE r == Clone(shallow)
<1>1. IsRecord(r, Fields) /\ r.exists
  BY DEF Clone, IsRecord, Fields
<1>2. r.local = [b \in {"main"} |-> Tracking(remote[b])] /\ r.branch = "main"
  BY DEF Clone
<1>3. DOMAIN r.fetched \subseteq Official
  BY ChannelsAssumption DEF Clone, Restrict
<1>4. \A base : IsBranch(Tracking(base))
  BY TrackingIsBranch
<1> HIDE DEF r
<1>5. IsCheckout(r)
  BY <1>1, <1>2, <1>3, <1>4, ChannelsAssumption DEF IsCheckout, Branches, IsRecord
<1> QED  BY <1>5 DEF r

(* git: what it leaves is a checkout, of the branch if it succeeds.         *)
LEMMA Switched ==
    ASSUME NEW r, IsCheckout(r), NEW b \in Official, NEW x \in GitSwitch(r, b)
    PROVE  /\ IsCheckout(x[1])
           /\ x[2] => x[1].branch = b
<1> DEFINE new == [Tracking(remote[b]) EXCEPT !.tracks = "none"]
           there == [r EXCEPT !.local = IF b \in DOMAIN r.local THEN @ ELSE With(@, b, new)]
           switched == [there EXCEPT !.branch = b]
<1>1. x \in {<<switched, TRUE>>, <<there, FALSE>>, <<r, FALSE>>}
  BY DEF GitSwitch
<1>2. IsBranch(new) /\ b \in Branches
  BY TrackingIsBranch, ChannelsAssumption DEF Branches
<1> HIDE DEF new
<1>3. IsCheckout(there) /\ b \in DOMAIN there.local
  <2>1. CASE b \notin DOMAIN r.local
    <3>1. there = [r EXCEPT !.local = With(@, b, new)]
      BY <2>1
    <3> HIDE DEF there
    <3> QED  BY <1>2, <3>1, BranchAdded
  <2>2. CASE b \in DOMAIN r.local
    <3>1. there = r
      BY <2>2 DEF IsCheckout, IsRecord
    <3> HIDE DEF there
    <3> QED  BY <2>2, <3>1
  <2> QED  BY <2>1, <2>2
<1> HIDE DEF there
<1>4. IsCheckout(switched) /\ switched.branch = b
  BY <1>3, BranchChecked
<1> HIDE DEF switched
<1>5. CASE x = <<switched, TRUE>>
  BY <1>4, <1>5
<1>6. CASE x = <<there, FALSE>>
  BY <1>3, <1>6
<1>7. CASE x = <<r, FALSE>>
  BY <1>7
<1> QED  BY <1>1, <1>5, <1>6, <1>7

LEMMA ChannelSwitched ==
    ASSUME NEW r, IsCheckout(r), NEW channel \in DOMAIN Channels,
           NEW cache, NEW x \in SwitchChannel(cache, r, channel)
    PROVE  /\ IsCheckout(x[1])
           /\ x[2] /\ "aports" \notin DOMAIN cache => ChannelOf[x[1].branch] = channel
<1>1. CASE x \in GitSwitch(r, Channels[channel])
  BY <1>1, Switched, ChannelsAssumption
<1>2. CASE x = <<r, TRUE>> /\ ~SwitchNeeded(ReadConfig(cache, "aports", r)["aports"], r, channel)
  <2>1. ReadConfig(cache, "aports", r)["aports"] = channel
    BY <1>2 DEF SwitchNeeded
  <2>2. "aports" \notin DOMAIN cache => ReadConfig(cache, "aports", r)["aports"] = ChannelOf[r.branch]
    BY DEF ReadConfig, With
  <2> QED  BY <1>2, <2>1, <2>2
<1> QED  BY <1>1, <1>2 DEF SwitchChannel

LEMMA BranchChanged ==
    ASSUME NEW r, IsCheckout(r), NEW b \in DOMAIN r.local
    PROVE  /\ \A v : IsCheckout([r EXCEPT !.local[b].base = v])
           /\ \A v : IsCheckout([r EXCEPT !.local[b].tracks = v])
           /\ IsCheckout([r EXCEPT !.local[b].own = @ + 1])
<1>1. ASSUME NEW s, NEW v, IsBranch(v),
             IsRecord(s, Fields), s.exists,
             s.branch = r.branch, s.local = [r.local EXCEPT ![b] = v], s.fetched = r.fetched
      PROVE  IsCheckout(s)
  BY <1>1 DEF IsCheckout, IsRecord, Fields
<1>2. ASSUME NEW v  PROVE IsCheckout([r EXCEPT !.local[b].base = v])
  <2> DEFINE s == [r EXCEPT !.local[b].base = v]
  <2>1. /\ IsRecord(s, Fields) /\ s.exists
        /\ s.branch = r.branch /\ s.fetched = r.fetched
        /\ s.local = [r.local EXCEPT ![b] = [r.local[b] EXCEPT !.base = v]]
    BY DEF IsCheckout, IsRecord, Fields
  <2>2. IsBranch([r.local[b] EXCEPT !.base = v])
    BY DEF IsCheckout, IsBranch, IsRecord
  <2> QED  BY <1>1, <2>1, <2>2
<1>3. ASSUME NEW v  PROVE IsCheckout([r EXCEPT !.local[b].tracks = v])
  <2> DEFINE s == [r EXCEPT !.local[b].tracks = v]
  <2>1. /\ IsRecord(s, Fields) /\ s.exists
        /\ s.branch = r.branch /\ s.fetched = r.fetched
        /\ s.local = [r.local EXCEPT ![b] = [r.local[b] EXCEPT !.tracks = v]]
    BY DEF IsCheckout, IsRecord, Fields
  <2>2. IsBranch([r.local[b] EXCEPT !.tracks = v])
    BY DEF IsCheckout, IsBranch, IsRecord
  <2> QED  BY <1>1, <2>1, <2>2
<1>4. IsCheckout([r EXCEPT !.local[b].own = @ + 1])
  <2> DEFINE s == [r EXCEPT !.local[b].own = @ + 1]
  <2>1. /\ IsRecord(s, Fields) /\ s.exists
        /\ s.branch = r.branch /\ s.fetched = r.fetched
        /\ s.local = [r.local EXCEPT ![b] = [r.local[b] EXCEPT !.own = @ + 1]]
    BY DEF IsCheckout, IsRecord, Fields
  <2>2. IsBranch([r.local[b] EXCEPT !.own = @ + 1])
    BY DEF IsCheckout, IsBranch, IsRecord
  <2> QED  BY <1>1, <2>1, <2>2
<1> QED  BY <1>2, <1>3, <1>4

LEMMA BranchStarted ==
    ASSUME NEW r, IsCheckout(r), NEW b \in Branches, NEW v, IsBranch(v)
    PROVE  IsCheckout([r EXCEPT !.branch = b, !.local = With(@, b, v)])
<1> DEFINE s == [r EXCEPT !.branch = b, !.local = With(@, b, v)]
<1>1. /\ IsRecord(s, Fields) /\ s.exists
      /\ s.branch = b /\ s.local = With(r.local, b, v) /\ s.fetched = r.fetched
  BY DEF IsCheckout, IsRecord, Fields
<1> HIDE DEF s
<1>2. IsCheckout(s)
  BY <1>1 DEF IsCheckout, IsRecord, With
<1> QED  BY <1>2 DEF s

(* Whatever the user does to a checkout leaves a checkout.                  *)
LEMMA ChangedIsCheckout ==
    ASSUME NEW r, IsCheckout(r), NEW changed \in Changed(r)
    PROVE  IsCheckout(changed)
<1>1. CASE changed = [r EXCEPT !.dirty = ~@]
  <2>1. /\ IsRecord(changed, Fields) /\ changed.exists
        /\ changed.branch = r.branch /\ changed.local = r.local /\ changed.fetched = r.fetched
    BY <1>1 DEF IsCheckout, IsRecord, Fields
  <2> QED  BY <2>1 DEF IsCheckout
<1>2. CASE changed = [r EXCEPT !.local[r.branch].own = @ + 1]
  BY <1>2, BranchChanged DEF IsCheckout
<1>3. CASE changed = [r EXCEPT !.local[r.branch].tracks = "other"]
  BY <1>3, BranchChanged DEF IsCheckout
<1>4. CASE \E b \in DOMAIN r.local : changed = [r EXCEPT !.local[b].tracks = "upstream"]
  <2>1. PICK b \in DOMAIN r.local : changed = [r EXCEPT !.local[b].tracks = "upstream"]
    BY <1>4
  <2>2. IsCheckout([r EXCEPT !.local[b].tracks = "upstream"])
    BY BranchChanged
  <2> QED  BY <2>1, <2>2
<1>5. CASE \E b \in DOMAIN r.local : changed = [r EXCEPT !.branch = b]
  BY <1>5, BranchChecked
<1>6. CASE \E b \in DOMAIN r.fetched : changed = [r EXCEPT !.branch = b, !.local = With(@, b, Tracking(r.fetched[b]))]
  <2>1. PICK b \in Branches : changed = [r EXCEPT !.branch = b, !.local = With(@, b, Tracking(r.fetched[b]))]
    BY <1>6, ChannelsAssumption DEF IsCheckout, Branches
  <2> QED  BY <2>1, TrackingIsBranch, BranchStarted
<1>7. CASE \E b \in Branches :
             changed = [r EXCEPT !.branch = b, !.local = With(@, b, [@[r.branch] EXCEPT !.tracks = "none"])]
  <2>1. IsBranch([r.local[r.branch] EXCEPT !.tracks = "none"])
    BY DEF IsCheckout, IsBranch, IsRecord
  <2>2. PICK b \in Branches :
          changed = [r EXCEPT !.branch = b, !.local = With(@, b, [@[r.branch] EXCEPT !.tracks = "none"])]
    BY <1>7
  <2>3. changed = [r EXCEPT !.branch = b, !.local = With(@, b, [r.local[r.branch] EXCEPT !.tracks = "none"])]
    BY <2>2
  <2> QED  BY <2>1, <2>3, BranchStarted
<1>8. r.branch \in DOMAIN r.local
  BY DEF IsCheckout
<1> QED  BY <1>1, <1>2, <1>3, <1>4, <1>5, <1>6, <1>7, <1>8 DEF Changed, Branches

-----------------------------------------------------------------------------
LEMMA InitIInv == Init => IInv
<1> SUFFICES ASSUME Init  PROVE IInv
  OBVIOUS
<1>1. q = Idle /\ q.pc = "idle" /\ q.kind = "none" /\ q.outcome = "none" /\ IsProcess(q)
  BY DEF Init, Idle, IsProcess, IsRecord
<1>2. Load(file) = Defaults
  BY LoadNothing DEF Init
<1>3. IsConfig(Defaults)
  BY DefaultsAssumption DEF IsConfig, IsRecord, Keys, Paths
<1>4. TypeOK
  BY <1>1, <1>2, <1>3 DEF Init, TypeOK
<1>5. InitOnTrack /\ InitTakesEffect /\ PulledIsUpstream
  BY <1>1 DEF InitOnTrack, InitTakesEffect, PulledIsUpstream, InitDone
<1> QED  BY <1>4, <1>5 DEF IInv

(* A process that ends without success, or before it has done anything.     *)
LEMMA NothingClaimed ==
    ASSUME IInv, q'.pc = "idle", q'.outcome # "done", IsProcess(q'), IsConfig(Load(file)'),
           repos' = [path \in Paths |-> repos'[path]],
           \A path \in Paths : repos'[path] = Missing \/ IsCheckout(repos'[path])
    PROVE  IInv'
BY DEF IInv, TypeOK, InitOnTrack, InitTakesEffect, PulledIsUpstream, InitDone

LEMMA IdleIsProcess == IsProcess(Idle) /\ Idle.pc = "idle" /\ Idle.outcome = "none"
BY DEF Idle, IsProcess, IsRecord

(* What a step of init does to the process.                                 *)
LEMMA ProcessEnds ==
    ASSUME IsProcess(q), NEW outcome
    PROVE  /\ IsProcess(Ended(outcome)) /\ Ended(outcome).pc = "idle"
           /\ Ended(outcome).outcome = outcome /\ Ended(outcome).kind = q.kind
           /\ Ended(outcome).config = q.config /\ Ended(outcome).answers = q.answers
           /\ Ended(outcome).port = q.port /\ Ended(outcome).channel = q.channel
BY DEF Ended, IsProcess, IsRecord

LEMMA ConfigCommandPreserves == IInv /\ ConfigCommand => IInv'
<1> SUFFICES ASSUME IInv, ConfigCommand  PROVE IInv'
  OBVIOUS
<1>1. IsConfig(Load(file)) /\ {"ui", "aports"} \subseteq Keys
  BY DefaultsAssumption DEF IInv, TypeOK, Keys
<1>2. PICK key \in {"ui", "aports"} :
        \E value \in {Defaults[key]} \cup (IF key = "ui" THEN DOMAIN ServiceManagers ELSE Paths) :
          file' = Serialize([Load(file) EXCEPT ![key] = value])
  BY DEF ConfigCommand
<1>3. PICK value \in {Defaults[key]} \cup (IF key = "ui" THEN DOMAIN ServiceManagers ELSE Paths) :
        file' = Serialize([Load(file) EXCEPT ![key] = value])
  BY <1>2
<1> DEFINE new == [Load(file) EXCEPT ![key] = value]
<1>4. IsConfig(new)
  <2>1. CASE key = "ui"
    BY <1>1, <2>1, ConfigChanges
  <2>2. CASE key = "aports"
    <3>1. value \in Paths
      BY <2>2, DefaultsAssumption DEF Paths
    <3>2. new = [Load(file) EXCEPT !.aports = value]
      BY <2>2
    <3> QED  BY <1>1, <3>1, <3>2, ConfigChanges
  <2> QED  BY <2>1, <2>2
<1> HIDE DEF new
<1>5. Load(file)' = new
  BY <1>3, <1>4, LoadSerialize DEF new, Load
<1>6. q' = Idle /\ repos' = repos
  BY DEF ConfigCommand
<1> QED  BY <1>4, <1>5, <1>6, IdleIsProcess, NothingClaimed DEF IInv, TypeOK

(* A process that goes on.                                                  *)
LEMMA GoesOn ==
    ASSUME IInv, IsProcess(q'), IsConfig(q'.config), IsConfig(Load(file)'), InitOnTrack',
           q'.pc \in {"paths", "clone", "channel", "switch", "device", "options", "save", "fetch", "merge"},
           q'.kind = IF q'.pc \in {"fetch", "merge"} THEN "pull" ELSE "init",
           repos' = [path \in Paths |-> repos'[path]],
           \A path \in Paths : repos'[path] = Missing \/ IsCheckout(repos'[path]),
           q'.pc \notin {"paths", "clone"} => repos'[q'.config.aports].exists
    PROVE  IInv'
BY DEF IInv, TypeOK, InitTakesEffect, PulledIsUpstream, InitDone, repo

LEMMA StartInitPreserves == IInv /\ StartInit => IInv'
<1> SUFFICES ASSUME IInv, StartInit  PROVE IInv'
  OBVIOUS
<1>1. /\ IsProcess(q') /\ q'.pc = "paths" /\ q'.kind = "init" /\ q'.config = Load(file)
      /\ q'.port = "none" /\ q'.cache = <<>>
  BY DEF StartInit, Idle, IsProcess, IsRecord
<1>2. repos' = repos /\ Load(file)' = Load(file)
  BY DEF StartInit, Load
<1>3. "aports" \notin DOMAIN q'.cache
  <2>1. DOMAIN <<>> = {}
    OBVIOUS
  <2> QED  BY <1>1, <2>1
<1>4. InitOnTrack'
  BY <1>1, <1>3 DEF InitOnTrack
<1> QED  BY <1>1, <1>2, <1>4, GoesOn DEF IInv, TypeOK

LEMMA AskForPathsPreserves == IInv /\ AskForPaths => IInv'
<1> SUFFICES ASSUME IInv, AskForPaths  PROVE IInv'
  OBVIOUS
<1>1. q.pc = "paths" /\ repos' = repos /\ IsProcess(q) /\ IsConfig(q.config) /\ q.kind = "init"
  BY DEF AskForPaths, At, IInv, TypeOK
<1>2. PICK work \in Works, path \in Paths :
        LET new == [q.config EXCEPT !.work = work, !.aports = path]
        IN  q' = [q EXCEPT !.pc = "clone", !.config = new] /\ file' = Serialize(new)
  BY <1>1 DEF AskForPaths, IsConfig, Paths
<1> DEFINE new == [q.config EXCEPT !.work = work, !.aports = path]
<1>3. IsConfig(new)
  <2>1. DOMAIN q.config = Keys /\ {"work", "aports"} \subseteq Keys
    BY <1>1, DefaultsAssumption DEF IsConfig, IsRecord, Keys
  <2> QED  BY <1>1, <2>1 DEF IsConfig, IsRecord
<1> HIDE DEF new
<1>4. /\ IsProcess(q') /\ q'.pc = "clone" /\ q'.kind = "init" /\ q'.config = new
      /\ q'.port = q.port /\ q'.cache = q.cache
  BY <1>1, <1>2 DEF new, IsProcess, IsRecord
<1>5. Load(file)' = new
  BY <1>2, <1>3, LoadSerialize DEF new, Load
<1>6. InitOnTrack'
  BY <1>1, <1>4 DEF IInv, InitOnTrack
<1> QED  BY <1>1, <1>3, <1>4, <1>5, <1>6, GoesOn DEF IInv, TypeOK

LEMMA InitPmaportsPreserves == IInv /\ InitPmaports => IInv'
<1> SUFFICES ASSUME IInv, InitPmaports  PROVE IInv'
  OBVIOUS
<1> DEFINE path == q.config.aports
<1>1. q.pc = "clone" /\ IsProcess(q) /\ IsConfig(q.config) /\ q.kind = "init" /\ TypeOK /\ path \in Paths
  BY DEF InitPmaports, At, IInv, TypeOK, IsConfig
<1>2. /\ repos' = [p \in Paths |-> repos'[p]]
      /\ \A p \in Paths : repos'[p] = Missing \/ IsCheckout(repos'[p])
      /\ repos'[path].exists
  <2>1. CASE repo.exists /\ repos' = repos
    BY <1>1, <2>1 DEF TypeOK, repo
  <2>2. CASE \E shallow \in BOOLEAN : repos' = [repos EXCEPT ![path] = Clone(shallow)]
    <3>1. PICK r : IsCheckout(r) /\ repos' = [repos EXCEPT ![path] = r]
      BY <2>2, CloneIsCheckout
    <3>2. r.exists
      BY <3>1 DEF IsCheckout
    <3> QED  BY <1>1, <3>1, <3>2, CheckoutReplaced
  <2> QED  BY <2>1, <2>2 DEF InitPmaports
<1>3. PICK r : q' = [q EXCEPT !.pc = "channel", !.cache = ReadConfig(q.cache, "default", r)]
  BY DEF InitPmaports
<1>4. /\ IsProcess(q') /\ q'.pc = "channel" /\ q'.kind = "init" /\ q'.config = q.config
      /\ q'.port = q.port /\ q'.cache = ReadConfig(q.cache, "default", r)
  BY <1>1, <1>3 DEF IsProcess, IsRecord
<1>5. "aports" \notin DOMAIN q'.cache
  BY <1>1, <1>4 DEF IInv, InitOnTrack, ReadConfig, With
<1>6. InitOnTrack'
  BY <1>1, <1>4, <1>5 DEF IInv, InitOnTrack
<1>7. Load(file)' = Load(file)
  BY DEF InitPmaports, Load
<1> QED  BY <1>1, <1>2, <1>4, <1>6, <1>7, GoesOn DEF IInv, TypeOK

LEMMA AskForChannelPreserves == IInv /\ AskForChannel => IInv'
<1> SUFFICES ASSUME IInv, AskForChannel  PROVE IInv'
  OBVIOUS
<1>1. q.pc = "channel" /\ IsProcess(q) /\ IsConfig(q.config) /\ q.kind = "init"
  BY DEF AskForChannel, At, IInv, TypeOK
<1>2. PICK channel \in DOMAIN Channels :
        q' = [q EXCEPT !.pc = "switch", !.channel = channel, !.cache = ReadConfig(q.cache, "plain", repo)]
  BY DEF AskForChannel
<1>3. /\ IsProcess(q') /\ q'.pc = "switch" /\ q'.kind = "init" /\ q'.config = q.config
      /\ q'.port = q.port /\ q'.channel = channel /\ q'.cache = ReadConfig(q.cache, "plain", repo)
  BY <1>1, <1>2 DEF IsProcess, IsRecord
<1>4. "aports" \notin DOMAIN q'.cache
  BY <1>1, <1>3 DEF IInv, InitOnTrack, ReadConfig, With
<1>5. InitOnTrack'
  BY <1>1, <1>3, <1>4 DEF IInv, InitOnTrack
<1>6. repos' = repos /\ Load(file)' = Load(file)
  BY DEF AskForChannel, Load
<1> QED  BY <1>1, <1>3, <1>5, <1>6, GoesOn DEF IInv, TypeOK, repo

LEMMA SwitchBranchPreserves == IInv /\ SwitchBranch => IInv'
<1> SUFFICES ASSUME IInv, SwitchBranch  PROVE IInv'
  OBVIOUS
<1> DEFINE path == q.config.aports
<1>1. /\ q.pc = "switch" /\ IsProcess(q) /\ IsConfig(q.config) /\ q.kind = "init" /\ TypeOK
      /\ path \in Paths /\ q.port = "none" /\ "aports" \notin DOMAIN q.cache /\ q.channel \in DOMAIN Channels
  BY DEF SwitchBranch, At, IInv, TypeOK, InitOnTrack, IsConfig
<1>2. IsCheckout(repo)
  BY <1>1, CheckoutExists DEF TypeOK, repo
<1>3. PICK result \in SwitchChannel(q.cache, repo, q.channel) :
        /\ repos' = [repos EXCEPT ![path] = result[1]]
        /\ q' = IF result[2]
                THEN [q EXCEPT !.pc = "device", !.config.is_default_channel = FALSE,
                               !.cache = ReadConfig(q.cache, "aports", repo)]
                ELSE Ended("error")
  BY DEF SwitchBranch
<1>4. IsCheckout(result[1]) /\ (result[2] => ChannelOf[result[1].branch] = q.channel)
  BY <1>1, <1>2, ChannelSwitched
<1>5. /\ repos' = [p \in Paths |-> repos'[p]]
      /\ \A p \in Paths : repos'[p] = Missing \/ IsCheckout(repos'[p])
      /\ repos'[path] = result[1]
  BY <1>1, <1>3, <1>4, CheckoutReplaced
<1>6. Load(file)' = Load(file)
  BY DEF SwitchBranch, Load
<1>7. CASE result[2]
  <2> DEFINE new == [q.config EXCEPT !.is_default_channel = FALSE]
  <2>1. /\ IsProcess(q') /\ q'.pc = "device" /\ q'.kind = "init" /\ q'.config = new
        /\ q'.port = q.port /\ q'.channel = q.channel
    BY <1>1, <1>3, <1>7 DEF IsProcess, IsRecord
  <2>2. IsConfig(new) /\ new.aports = path
    <3>1. "is_default_channel" \in Keys /\ "aports" \in Keys
      BY DefaultsAssumption DEF Keys
    <3> QED  BY <1>1, <3>1 DEF IsConfig, IsRecord
  <2> HIDE DEF new
  <2>3. repo' = result[1]
    BY <1>5, <2>1, <2>2 DEF repo
  <2>4. InitOnTrack'
    BY <1>1, <1>4, <1>7, <2>1, <2>3 DEF InitOnTrack
  <2>5. repos'[q'.config.aports].exists
    BY <1>4, <1>5, <2>1, <2>2 DEF IsCheckout
  <2> QED  BY <1>5, <1>6, <2>1, <2>2, <2>4, <2>5, GoesOn DEF IInv, TypeOK
<1>8. CASE ~result[2]
  <2>1. q' = Ended("error")
    BY <1>3, <1>8
  <2> QED  BY <1>1, <1>5, <1>6, <2>1, ProcessEnds, NothingClaimed DEF IInv, TypeOK
<1> QED  BY <1>7, <1>8

LEMMA ChooseDevicePreserves == IInv /\ ChooseDevice => IInv'
<1> SUFFICES ASSUME IInv, ChooseDevice  PROVE IInv'
  OBVIOUS
<1>1. q.pc = "device" /\ IsProcess(q) /\ IsConfig(q.config) /\ q.kind = "init"
  BY DEF ChooseDevice, At, IInv, TypeOK
<1>2. PICK device : q' = [q EXCEPT !.pc = "options", !.config.device = device]
  BY DEF ChooseDevice
<1> DEFINE new == [q.config EXCEPT !.device = device]
<1>3. IsConfig(new) /\ new.aports = q.config.aports
  <2>1. "device" \in Keys /\ "aports" \in Keys
    BY DefaultsAssumption DEF Keys
  <2> QED  BY <1>1, <2>1 DEF IsConfig, IsRecord
<1>4. /\ IsProcess(q') /\ q'.pc = "options" /\ q'.kind = "init" /\ q'.config = new
      /\ q'.port = q.port /\ q'.channel = q.channel
  BY <1>1, <1>2 DEF IsProcess, IsRecord
<1> HIDE DEF new
<1>5. repos' = repos /\ Load(file)' = Load(file)
  BY DEF ChooseDevice, Load
<1>6. InitOnTrack'
  BY <1>1, <1>3, <1>4, <1>5 DEF IInv, InitOnTrack, repo
<1> QED  BY <1>1, <1>3, <1>4, <1>5, <1>6, GoesOn DEF IInv, TypeOK, repo

LEMMA DeviceIsGonePreserves == IInv /\ DeviceIsGone => IInv'
<1> SUFFICES ASSUME IInv, DeviceIsGone  PROVE IInv'
  OBVIOUS
<1>1. q' = Ended("error") /\ repos' = repos /\ Load(file)' = Load(file)
  BY DEF DeviceIsGone, Load
<1> QED  BY <1>1, ProcessEnds, NothingClaimed DEF IInv, TypeOK

LEMMA NewPortPreserves == IInv /\ NewPort => IInv'
<1> SUFFICES ASSUME IInv, NewPort  PROVE IInv'
  OBVIOUS
<1> DEFINE path == q.config.aports
<1>1. /\ q.pc = "device" /\ IsProcess(q) /\ IsConfig(q.config) /\ q.kind = "init" /\ TypeOK
      /\ path \in Paths /\ q.channel \in DOMAIN Channels
  BY DEF NewPort, At, IInv, TypeOK, InitOnTrack, IsConfig
<1>2. IsCheckout(repo)
  BY <1>1, CheckoutExists DEF TypeOK, repo
<1>3. PICK result \in IF q.channel # DEVELOPMENT_CHANNEL
                     THEN SwitchChannel(q.cache, repo, DEVELOPMENT_CHANNEL) ELSE {<<repo, TRUE>>} :
        IF result[2]
        THEN /\ repos' = [repos EXCEPT ![path] = [result[1] EXCEPT !.dirty = TRUE]]
             /\ q' = [q EXCEPT !.pc = "options", !.config.device = NewDevice, !.port = result[1].branch]
        ELSE /\ repos' = [repos EXCEPT ![path] = result[1]]
             /\ q' = Ended("error")
  BY DEF NewPort
<1>4. IsCheckout(result[1])
  <2>1. CASE result \in SwitchChannel(q.cache, repo, DEVELOPMENT_CHANNEL)
    BY <1>2, <2>1, ChannelSwitched, ChannelsAssumption DEF DEVELOPMENT_CHANNEL
  <2>2. CASE result = <<repo, TRUE>>
    BY <1>2, <2>2
  <2> QED  BY <1>3, <2>1, <2>2
<1>5. Load(file)' = Load(file)
  BY DEF NewPort, Load
<1>6. CASE result[2]
  <2> DEFINE new == [q.config EXCEPT !.device = NewDevice]
             edited == [result[1] EXCEPT !.dirty = TRUE]
  <2>1. IsCheckout(edited)
    <3>1. /\ IsRecord(edited, Fields) /\ edited.exists /\ edited.branch = result[1].branch
          /\ edited.local = result[1].local /\ edited.fetched = result[1].fetched
      BY <1>4 DEF IsCheckout, IsRecord, Fields
    <3> HIDE DEF edited
    <3> QED  BY <1>4, <3>1 DEF IsCheckout
  <2>2. IsConfig(new) /\ new.aports = path
    <3>1. "device" \in Keys /\ "aports" \in Keys
      BY DefaultsAssumption DEF Keys
    <3> QED  BY <1>1, <3>1 DEF IsConfig, IsRecord
  <2>3. /\ IsProcess(q') /\ q'.pc = "options" /\ q'.kind = "init" /\ q'.config = new
        /\ q'.port = result[1].branch /\ q'.channel = q.channel
    BY <1>1, <1>3, <1>6 DEF IsProcess, IsRecord
  <2> HIDE DEF new
  <2>4. repos' = [repos EXCEPT ![path] = edited]
    BY <1>3, <1>6
  <2> HIDE DEF edited
  <2>5. /\ repos' = [p \in Paths |-> repos'[p]]
        /\ \A p \in Paths : repos'[p] = Missing \/ IsCheckout(repos'[p])
        /\ repos'[path] = edited
    BY <1>1, <2>1, <2>4, CheckoutReplaced
  <2>6. q'.port # "none"
    BY <1>4, <2>3, ChannelsAssumption DEF IsCheckout, Branches
  <2>7. InitOnTrack'
    BY <1>1, <2>3, <2>6 DEF InitOnTrack
  <2>8. repos'[q'.config.aports].exists
    BY <2>1, <2>2, <2>3, <2>5 DEF IsCheckout
  <2> QED  BY <1>5, <2>2, <2>3, <2>5, <2>7, <2>8, GoesOn DEF IInv, TypeOK
<1>7. CASE ~result[2]
  <2>1. q' = Ended("error") /\ repos' = [repos EXCEPT ![path] = result[1]]
    BY <1>3, <1>7
  <2>2. /\ repos' = [p \in Paths |-> repos'[p]]
        /\ \A p \in Paths : repos'[p] = Missing \/ IsCheckout(repos'[p])
    BY <1>1, <1>4, <2>1, CheckoutReplaced
  <2> QED  BY <1>1, <1>5, <2>1, <2>2, ProcessEnds, NothingClaimed DEF IInv, TypeOK
<1> QED  BY <1>6, <1>7

LEMMA AskForOptionsPreserves == IInv /\ AskForOptions => IInv'
<1> SUFFICES ASSUME IInv, AskForOptions  PROVE IInv'
  OBVIOUS
<1>1. q.pc = "options" /\ IsProcess(q) /\ IsConfig(q.config) /\ q.kind = "init"
  BY DEF AskForOptions, At, IInv, TypeOK
<1>2. PICK ui, sm, provider :
        LET new == [q.config EXCEPT !.ui = ui, !.service_manager = sm, !.provider = provider]
        IN  q' = [q EXCEPT !.pc = "save", !.config = new, !.answers = new]
  BY DEF AskForOptions
<1> DEFINE new == [q.config EXCEPT !.ui = ui, !.service_manager = sm, !.provider = provider]
<1>3. IsConfig(new) /\ new.aports = q.config.aports
  <2>1. {"ui", "service_manager", "provider", "aports"} \subseteq Keys
    BY DefaultsAssumption DEF Keys
  <2> QED  BY <1>1, <2>1 DEF IsConfig, IsRecord
<1> HIDE DEF new
<1>4. /\ IsProcess(q') /\ q'.pc = "save" /\ q'.kind = "init" /\ q'.config = new /\ q'.answers = new
      /\ q'.port = q.port /\ q'.channel = q.channel
  BY <1>1, <1>2 DEF new, IsProcess, IsRecord
<1>5. repos' = repos /\ Load(file)' = Load(file)
  BY DEF AskForOptions, Load
<1>6. InitOnTrack'
  BY <1>1, <1>3, <1>4, <1>5 DEF IInv, InitOnTrack, repo
<1> QED  BY <1>1, <1>3, <1>4, <1>5, <1>6, GoesOn DEF IInv, TypeOK, repo

LEMMA SaveConfigPreserves == IInv /\ SaveConfig => IInv'
<1> SUFFICES ASSUME IInv, SaveConfig  PROVE IInv'
  OBVIOUS
<1>1. q.pc = "save" /\ IsProcess(q) /\ IsConfig(q.config) /\ q.kind = "init" /\ q.answers = q.config
  BY DEF SaveConfig, At, IInv, TypeOK, InitOnTrack
<1>2. /\ IsProcess(q') /\ q'.pc = "idle" /\ q'.kind = "init" /\ q'.config = q.config
      /\ q'.answers = q.answers /\ q'.port = q.port /\ q'.channel = q.channel /\ repos' = repos
  BY <1>1, ProcessEnds DEF SaveConfig
<1>3. Load(file)' = q.config
  BY <1>1, LoadSerialize DEF SaveConfig, Load
<1>4. TypeOK'
  BY <1>1, <1>2, <1>3 DEF IInv, TypeOK
<1>5. InitOnTrack' /\ PulledIsUpstream'
  BY <1>2 DEF InitOnTrack, PulledIsUpstream
<1>6. InitTakesEffect'
  BY <1>1, <1>2, <1>3 DEF IInv, TypeOK, InitOnTrack, InitTakesEffect, repo
<1> QED  BY <1>4, <1>5, <1>6 DEF IInv

-----------------------------------------------------------------------------
LEMMA StartPullPreserves == IInv /\ StartPull => IInv'
<1> SUFFICES ASSUME IInv, StartPull  PROVE IInv'
  OBVIOUS
<1> DEFINE config == Load(file)
           r == repos[config.aports]
           ret == IF ~r.exists THEN 1 ELSE IF ~LooksOfficial(r) THEN -1
                  ELSE IF r.dirty THEN -2 ELSE IF r.local[r.branch].tracks = "other" THEN -3 ELSE 0
           failed == ret = 0 /\ r.exists /\ r.local[r.branch].tracks = "none"
           pc == IF ret = 0 /\ ~failed THEN "fetch" ELSE "idle"
           outcome == IF failed THEN "error" ELSE IF ret = 0 THEN "none" ELSE "done"
<1>1. q' = [Idle EXCEPT !.kind = "pull", !.config = config, !.ret = ret, !.pc = pc, !.outcome = outcome]
  BY DEF StartPull
<1>2. /\ ret = 0 => r.exists
      /\ ret >= 0 /\ ret # 0 => ~r.exists
      /\ ret \in Int
  OBVIOUS
<1>3. /\ pc = "fetch" => ret = 0
      /\ pc \in {"fetch", "idle"}
      /\ pc = "idle" /\ outcome = "done" => ret # 0
  OBVIOUS
<1>4. IsConfig(config)
  BY DEF IInv, TypeOK
<1>5. repos' = repos /\ Load(file)' = config
  BY DEF StartPull, Load
<1> HIDE DEF config, ret, failed, pc, outcome
<1>6. /\ IsProcess(q') /\ q'.pc = pc /\ q'.kind = "pull" /\ q'.config = config
      /\ q'.ret = ret /\ q'.outcome = outcome
  BY <1>1 DEF Idle, IsProcess, IsRecord
<1>7. InitOnTrack'
  BY <1>3, <1>6 DEF InitOnTrack
<1>8. TypeOK'
  BY <1>2, <1>3, <1>4, <1>5, <1>6 DEF IInv, TypeOK, repo
<1>9. InitTakesEffect'
  BY <1>6 DEF InitTakesEffect, InitDone
<1>10. PulledIsUpstream'
  BY <1>2, <1>3, <1>5, <1>6 DEF PulledIsUpstream, repo
<1> QED  BY <1>7, <1>8, <1>9, <1>10 DEF IInv

LEMMA FetchPreserves == IInv /\ Fetch => IInv'
<1> SUFFICES ASSUME IInv, Fetch  PROVE IInv'
  OBVIOUS
<1> DEFINE path == q.config.aports
           fetched == [repo EXCEPT !.fetched = Restrict(remote, DOMAIN @)]
<1>1. /\ q.pc = "fetch" /\ IsProcess(q) /\ IsConfig(q.config) /\ q.kind = "pull" /\ TypeOK /\ path \in Paths
  BY DEF Fetch, At, IInv, TypeOK, IsConfig
<1>2. IsCheckout(repo)
  BY <1>1, CheckoutExists DEF TypeOK, repo
<1>3. IsCheckout(fetched)
  <2>1. /\ IsRecord(fetched, Fields) /\ fetched.exists /\ fetched.branch = repo.branch
        /\ fetched.local = repo.local /\ DOMAIN fetched.fetched = DOMAIN repo.fetched
    BY <1>2 DEF IsCheckout, IsRecord, Fields, Restrict
  <2> HIDE DEF fetched
  <2> QED  BY <1>2, <2>1 DEF IsCheckout
<1>4. repos' = repos \/ repos' = [repos EXCEPT ![path] = fetched]
  BY DEF Fetch, repo
<1> HIDE DEF fetched
<1>5. /\ repos' = [p \in Paths |-> repos'[p]]
      /\ \A p \in Paths : repos'[p] = Missing \/ IsCheckout(repos'[p])
      /\ repos'[path].exists
  <2>1. CASE repos' = repos
    BY <1>1, <1>2, <2>1 DEF TypeOK, repo, IsCheckout
  <2>2. CASE repos' = [repos EXCEPT ![path] = fetched]
    BY <1>1, <1>3, <2>2, CheckoutReplaced DEF IsCheckout
  <2> QED  BY <1>4, <2>1, <2>2
<1>6. /\ IsProcess(q') /\ q'.pc = "merge" /\ q'.kind = "pull" /\ q'.config = q.config
  BY <1>1 DEF Fetch, IsProcess, IsRecord
<1>7. Load(file)' = Load(file)
  BY DEF Fetch, Load
<1>8. InitOnTrack'
  BY <1>6 DEF InitOnTrack
<1> QED  BY <1>1, <1>5, <1>6, <1>7, <1>8, GoesOn DEF IInv, TypeOK

LEMMA MergePreserves == IInv /\ Merge => IInv'
<1> SUFFICES ASSUME IInv, Merge  PROVE IInv'
  OBVIOUS
<1> DEFINE path == q.config.aports
           ret == IF SameAsUpstream(repo) THEN 2 ELSE IF ~CanFastForward(repo) THEN -4 ELSE 0
           ahead == repo.local[repo.branch].own > 0
           merged == [repo EXCEPT !.local[repo.branch].base = repo.fetched[repo.branch]]
<1>1. /\ q.pc = "merge" /\ IsProcess(q) /\ IsConfig(q.config) /\ q.kind = "pull" /\ TypeOK /\ path \in Paths
  BY DEF Merge, At, IInv, TypeOK, IsConfig
<1>2. IsCheckout(repo) /\ repo.branch \in DOMAIN repo.local
  BY <1>1, CheckoutExists DEF TypeOK, repo, IsCheckout
<1>3. IsCheckout(merged)
  BY <1>2, BranchChanged
<1>4. /\ merged.branch = repo.branch /\ merged.fetched = repo.fetched
      /\ merged.local[repo.branch].base = repo.fetched[repo.branch]
      /\ merged.local[repo.branch].own = repo.local[repo.branch].own
  BY <1>2 DEF IsCheckout, IsBranch, IsRecord, Fields
<1>5. q' = [Ended("done") EXCEPT !.ret = ret]
  BY DEF Merge
<1>6. repos' = IF ret # 0 \/ ahead THEN repos ELSE [repos EXCEPT ![path] = merged]
  BY DEF Merge, repo
<1>7. /\ ret = 0 => repo.local[repo.branch].own = 0
      /\ ret >= 0 /\ ret # 0 => SameAsUpstream(repo)
      /\ ret = 0 => ~ahead
  BY DEF CanFastForward
<1> HIDE DEF ret, ahead, merged
<1>8. /\ IsProcess(q') /\ q'.pc = "idle" /\ q'.kind = "pull" /\ q'.config = q.config /\ q'.ret = ret
  BY <1>1, <1>5 DEF Ended, IsProcess, IsRecord
<1>9. Load(file)' = Load(file)
  BY DEF Merge, Load
<1>10. InitOnTrack' /\ InitTakesEffect'
  BY <1>8 DEF InitOnTrack, InitTakesEffect, InitDone
<1>11. CASE repos' = repos /\ ret # 0
  <2>1. TypeOK'
    BY <1>1, <1>8, <1>9, <1>11 DEF TypeOK
  <2>2. PulledIsUpstream'
    BY <1>7, <1>8, <1>11 DEF PulledIsUpstream, SameAsUpstream, repo
  <2> QED  BY <1>10, <2>1, <2>2 DEF IInv
<1>12. CASE repos' = [repos EXCEPT ![path] = merged] /\ ret = 0
  <2>1. /\ repos' = [p \in Paths |-> repos'[p]]
        /\ \A p \in Paths : repos'[p] = Missing \/ IsCheckout(repos'[p])
        /\ repos'[path] = merged
    BY <1>1, <1>3, <1>12, CheckoutReplaced
  <2>2. TypeOK'
    BY <1>1, <1>8, <1>9, <2>1 DEF TypeOK
  <2>3. SameAsUpstream(merged)
    BY <1>4, <1>7, <1>12 DEF SameAsUpstream
  <2>4. PulledIsUpstream'
    BY <1>8, <2>1, <2>3 DEF PulledIsUpstream, SameAsUpstream, repo
  <2> QED  BY <1>10, <2>2, <2>4 DEF IInv
<1> QED  BY <1>6, <1>7, <1>11, <1>12

LEMMA InterruptedPreserves == IInv /\ Interrupted => IInv'
<1> SUFFICES ASSUME IInv, Interrupted  PROVE IInv'
  OBVIOUS
<1>1. q' = Ended("stopped") /\ repos' = repos /\ Load(file)' = Load(file)
  BY DEF Interrupted, Load
<1> QED  BY <1>1, ProcessEnds, NothingClaimed DEF IInv, TypeOK

LEMMA UserChangesPreserves == IInv /\ UserChanges => IInv'
<1> SUFFICES ASSUME IInv, UserChanges  PROVE IInv'
  OBVIOUS
<1>1. PICK path \in {p \in Paths : repos[p].exists} :
        \E changed \in Changed(repos[path]) : repos' = [repos EXCEPT ![path] = changed]
  BY DEF UserChanges
<1>2. IsCheckout(repos[path])
  BY CheckoutExists DEF IInv
<1>3. PICK changed : IsCheckout(changed) /\ repos' = [repos EXCEPT ![path] = changed]
  BY <1>1, <1>2, ChangedIsCheckout
<1>4. /\ repos' = [p \in Paths |-> repos'[p]]
      /\ \A p \in Paths : repos'[p] = Missing \/ IsCheckout(repos'[p])
  BY <1>3, CheckoutReplaced DEF IInv
<1>5. q' = Idle /\ Load(file)' = Load(file)
  BY DEF UserChanges, Load
<1> QED  BY <1>4, <1>5, IdleIsProcess, NothingClaimed DEF IInv, TypeOK

LEMMA OthersPublishPreserves == IInv /\ OthersPublish => IInv'
<1> SUFFICES ASSUME IInv, OthersPublish  PROVE IInv'
  OBVIOUS
<1>1. q' = Idle /\ repos' = repos /\ Load(file)' = Load(file)
  BY DEF OthersPublish, Load
<1> QED  BY <1>1, IdleIsProcess, NothingClaimed DEF IInv, TypeOK

LEMMA StutterPreserves == IInv /\ UNCHANGED vars => IInv'
BY DEF IInv, vars, TypeOK, InitOnTrack, InitTakesEffect, PulledIsUpstream, InitDone, SameAsUpstream, repo, Load

LEMMA IInvInvariant == Spec => []IInv
<1>1. IInv /\ [Next]_vars => IInv'
  BY ConfigCommandPreserves, StartInitPreserves, AskForPathsPreserves, InitPmaportsPreserves,
     AskForChannelPreserves, SwitchBranchPreserves, ChooseDevicePreserves, DeviceIsGonePreserves,
     NewPortPreserves, AskForOptionsPreserves, SaveConfigPreserves, StartPullPreserves, FetchPreserves,
     MergePreserves, InterruptedPreserves, UserChangesPreserves, OthersPublishPreserves, StutterPreserves
  DEF Next
<1> QED  BY <1>1, InitIInv, PTL DEF Spec

(* The configuration is complete, checkouts are on a branch they have, and  *)
(* a running command works on one that exists.                              *)
THEOREM TypeCorrect == Spec => []TypeOK
<1>1. IInv => TypeOK
  BY DEF IInv
<1> QED  BY <1>1, IInvInvariant, PTL

(* frontend() of config/init.py, config.save() and load(): when init says   *)
(* DONE, the checkout that later commands find is on the channel that was   *)
(* chosen, and they load the configuration that was chosen, whatever was    *)
(* configured, checked out, edited or interrupted before.                   *)
THEOREM InitIsEffective == Spec => []InitTakesEffect
<1>1. IInv => InitTakesEffect
  BY DEF IInv
<1> QED  BY <1>1, IInvInvariant, PTL

(* pull() of helpers/git.py: a pull that reports success has left the       *)
(* branch as upstream was when it was last fetched.                         *)
THEOREM PullIsComplete == Spec => []PulledIsUpstream
<1>1. IInv => PulledIsUpstream
  BY DEF IInv
<1> QED  BY <1>1, IInvInvariant, PTL
=============================================================================
