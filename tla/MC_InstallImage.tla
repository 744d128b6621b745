--------------------------- MODULE MC_InstallImage ---------------------------
EXTENDS InstallImage

CONSTANTS sd, usb, none

Disk(d) == [NoOptions EXCEPT !.disk = d]

(* Images of all layouts, encrypted or not, and installations to disks. *)
MCInstalls ==
    {NoOptions,
     [NoOptions EXCEPT !.split = TRUE, !.flasher = "split"],
     [NoOptions EXCEPT !.fde = TRUE, !.zap = TRUE, !.layout = "cgpt", !.flasher = "none"],
     [NoOptions EXCEPT !.image = "no_image"],
     [NoOptions EXCEPT !.image = "zip"],
     [Disk(sd) EXCEPT !.layout = "prep"], [Disk(sd) EXCEPT !.layout = "prep", !.rsync = TRUE],
     [Disk(sd) EXCEPT !.fde = TRUE, !.single = TRUE],
     [Disk(usb) EXCEPT !.layout = "cgpt"]}
=============================================================================
