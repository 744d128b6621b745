------------------------------ MODULE MC_Setup ------------------------------
(* Two channels with an official branch each, "master" from before it was   *)
(* renamed, and a branch of the user.                                       *)
EXTENDS Setup, TLC

MCChannels  == "edge" :> "main" @@ "stable" :> "v24"
MCChannelOf == "main" :> "edge" @@ "v24" :> "stable" @@ "master" :> "edge" @@ "fix" :> "edge"
MCOfficial  == {"main", "v24", "master"}
MCDevicesOn == "main" :> {"phone", "tablet"} @@ "v24" :> {"phone"} @@ "master" :> {"phone"} @@ "fix" :> {"phone"}
MCServiceManagers == "console" :> {"openrc", "systemd"} @@ "shell" :> {"systemd"}
MCDefaults == [work |-> "w1", aports |-> "w1", is_default_channel |-> TRUE, device |-> "qemu",
               ui |-> "console", service_manager |-> "default", provider |-> "default"]
=============================================================================
