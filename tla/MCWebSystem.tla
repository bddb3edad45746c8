----------------------------- MODULE MCWebSystem -----------------------------
(* One browser, two languages, one image, SCSI IDs {0, 1}, one config     *)
(* name (the default, so that it is also the one read at start-up), two   *)
(* log levels.                                                             *)
EXTENDS WebSystem

CONSTANTS c1, en, de, n1, n2, dflt

MCAccept == [c \in {c1} |-> en]
MCIds == {0, 1}
MCMemos == {"", "memo"}
MCCfgNames == {dflt}
MCLogLevels == {"info", "debug"}
MCApps == {"rascsi", "ls"}
MCAllowedApps == {"rascsi", "rasctl", "rasdump", "scsimon"}

(* No action reads resp, the answer of the previous request, so states    *)
(* that differ only in it have the same successors: they are checked once. *)
(* Every property here looks at the answer of the step it judges (resp'), *)
(* which is computed on each transition.                                   *)
MCView == <<session, backendLocale, files, props, devs, reserved, memo,
            configs, logLevel, pi, pending>>
=============================================================================
