----------------------------- MODULE WebSystem ------------------------------
(***************************************************************************)
(* The whole web process beside the backend: the file and device routes   *)
(* of WebDevices, plus the config routes (config_save, config_load), the   *)
(* system routes (log_level, restart, shutdown), upload_file and           *)
(* download_file, and the life cycle of the Pi: a reboot or a power cut    *)
(* restarts the backend and the web process, which reloads the default    *)
(* config at start (web.py __main__) and runs detect_locale again before   *)
(* its first request.  Disk state (images, sidecars, configs) and the      *)
(* browsers' signed session cookies survive; RESERVATIONS, held in the     *)
(* web process, and the backend's devices do not.                          *)
(*                                                                         *)
(* reserve_id and release_id make two backend calls, get_reserved_ids()    *)
(* then reserve_scsi_ids(list): pending holds the list read by the first   *)
(* while the route waits for the second.  bjoern serves one request at a   *)
(* time, so no other web request runs in between; a power cut, and in     *)
(* ExternalSpec another backend client, can.                               *)
(***************************************************************************)
EXTENDS WebPages, TLC

CONSTANTS
    CfgNames,     \* config file names (without the suffix)
    Default,      \* DEFAULT_CONFIG, read at start-up when it exists
    NoConfig,     \* no such config file
    LogLevels,    \* levels the backend accepts
    DefaultLevel, \* the backend's log level when it starts
    NoLevel,      \* the level field is missing or empty
    Idle          \* no route is waiting between its two backend calls

ASSUME Default \in CfgNames /\ DefaultLevel \in LogLevels /\ SourceLang \in Langs

VARIABLES
    configs,      \* [CfgNames -> Snapshot \cup {NoConfig}]: CFG_DIR's configs
    logLevel,     \* the backend's log level
    pi,           \* "up", "rebooting", "halting" (requested) or "down"
    pending       \* the reserve/release route between its two calls, or Idle

sysVars == <<configs, logLevel, pi, pending>>
sysRest == <<files, props, devs, reserved, memo, configs, logLevel, pi, pending>>
svars == <<session, backendLocale, resp, files, props, devs, reserved, memo,
           configs, logLevel, pi, pending>>

DevVals == Names \cup {NoMedium, Free}

\* What write_config stores and read_config restores.
Snapshot == [devs: [Ids -> DevVals], reserved: SUBSET Ids, memo: [Ids -> Memos]]

Pending == [client: Clients, op: {"reserve_id", "release_id"}, id: Ids,
            m: Memos, ids: SUBSET Ids]

SysTypeOK ==
    /\ SessionTypeOK
    /\ files \subseteq Names
    /\ props \subseteq Names
    /\ devs \in [Ids -> DevVals]
    /\ reserved \subseteq Ids
    /\ memo \in [Ids -> Memos]
    /\ configs \in [CfgNames -> Snapshot \cup {NoConfig}]
    /\ resp \in Responses(Names \cup Ids \cup CfgNames \cup {NoId, NoName})
    /\ logLevel \in LogLevels
    /\ pi \in {"up", "rebooting", "halting", "down"}
    /\ pending \in Pending \cup {Idle}

-----------------------------------------------------------------------------
(* write_config (file_cmds, outside this repository): the devices, the     *)
(* reserved IDs and their memos as they are now.                           *)
write_config == [devs |-> devs, reserved |-> reserved, memo |-> memo]

(* read_config (file_cmds, outside this repository): the config replaces   *)
(* the backend's devices and reservations and the RESERVATIONS memos; it   *)
(* can only succeed when the file exists and its images are on disk.       *)
ReadConfigOK(cfg) ==
    cfg # NoConfig /\ \A i \in Ids: cfg.devs[i] \in Names => cfg.devs[i] \in files
read_config(cfg, ok) ==
    IF ok THEN /\ devs' = cfg.devs
               /\ reserved' = cfg.reserved
               /\ memo' = cfg.memo
          ELSE UNCHANGED <<devs, reserved, memo>>

\* Mutant of config_save: the missing name is not replaced by "default".
config_save_noname(c, name) ==
    LET fname == name
    IN /\ UNCHANGED <<files, props, devs, reserved, memo, logLevel, pi, pending>>
       /\ \E ok \in BOOLEAN:
            /\ configs' = IF ok THEN (fname :> write_config) @@ configs
                                ELSE configs
            /\ respond1(c, "config_save", <<name>>, ~ok,
                        IF ok THEN "ConfigSaved" ELSE "ConfigSaveFailed", get_locale(c))

(* config_save: the name field, or "default"; write_config's result goes  *)
(* through add_msg.                                                        *)
config_save(c, name) ==
    LET fname == IF name = NoName THEN Default ELSE name
    IN /\ UNCHANGED <<files, props, devs, reserved, memo, logLevel, pi, pending>>
       /\ \E ok \in BOOLEAN:
            /\ configs' = IF ok THEN (fname :> write_config) @@ configs
                                ELSE configs
            /\ respond1(c, "config_save", <<name>>, ~ok,
                        IF ok THEN "ConfigSaved" ELSE "ConfigSaveFailed", get_locale(c))

\* Mutant of config_load: the two answers of the load branch swapped.
config_load_swapped(c, name, act) ==
    /\ UNCHANGED <<files, props, logLevel, pi, pending>>
    /\ \/ /\ act = "load"
          /\ LET cfg == IF name = NoName THEN NoConfig ELSE configs[name]
             IN \E ok \in Outcome(ReadConfigOK(cfg)):
                  /\ read_config(cfg, ok)
                  /\ respond1(c, "config_load", <<name>>, ok,
                              IF ok THEN "ConfigLoaded" ELSE "ConfigLoadFailed", get_locale(c))
          /\ UNCHANGED configs
       \/ /\ act = "delete" /\ name = NoName
          /\ crash(c, "config_load", <<name>>)
          /\ UNCHANGED <<devs, reserved, memo, configs>>
       \/ /\ act = "delete" /\ name # NoName
          /\ \E ok \in Outcome(configs[name] # NoConfig):
               /\ configs' = IF ok THEN [configs EXCEPT ![name] = NoConfig] ELSE configs
               /\ respond1(c, "config_load", <<name>>, ~ok,
                           IF ok THEN "FileDeleted" ELSE "DeleteFailed", get_locale(c))
          /\ UNCHANGED <<devs, reserved, memo>>
       \/ /\ act = "none"
          /\ respond1(c, "config_load", <<name>>, TRUE, "ActionMissing", SourceLang)
          /\ UNCHANGED <<devs, reserved, memo, configs>>

(* config_load: "load" is tested before "delete".  A missing name is read  *)
(* as the file "None", which does not exist; deleting it raises in         *)
(* Path(CFG_DIR) / None.  With neither field the answer is an English      *)
(* literal.                                                                *)
config_load(c, name, act) ==
    /\ UNCHANGED <<files, props, logLevel, pi, pending>>
    /\ \/ /\ act = "load"
          /\ LET cfg == IF name = NoName THEN NoConfig ELSE configs[name]
             IN \E ok \in Outcome(ReadConfigOK(cfg)):
                  /\ read_config(cfg, ok)
                  /\ respond1(c, "config_load", <<name>>, ~ok,
                              IF ok THEN "ConfigLoaded" ELSE "ConfigLoadFailed", get_locale(c))
          /\ UNCHANGED configs
       \/ /\ act = "delete" /\ name = NoName
          /\ crash(c, "config_load", <<name>>)
          /\ UNCHANGED <<devs, reserved, memo, configs>>
       \/ /\ act = "delete" /\ name # NoName
          /\ \E ok \in Outcome(configs[name] # NoConfig):
               /\ configs' = IF ok THEN [configs EXCEPT ![name] = NoConfig] ELSE configs
               /\ respond1(c, "config_load", <<name>>, ~ok,
                           IF ok THEN "FileDeleted" ELSE "DeleteFailed", get_locale(c))
          /\ UNCHANGED <<devs, reserved, memo>>
       \/ /\ act = "none"
          /\ respond1(c, "config_load", <<name>>, TRUE, "ActionMissing", SourceLang)
          /\ UNCHANGED <<devs, reserved, memo, configs>>

(* log_level: the level field, or "info"; a refusal answers with the      *)
(* backend's own message.                                                  *)
log_level(c, lvl) ==
    LET level == IF lvl = NoLevel THEN "info" ELSE lvl
    IN /\ UNCHANGED <<files, props, devs, reserved, memo, configs, pi, pending>>
       /\ \/ /\ level \in LogLevels
             /\ logLevel' = level
             /\ respond1(c, "log_level", <<>>, FALSE, "LogLevelSet", get_locale(c))
          \/ /\ respond1(c, "log_level", <<>>, TRUE, "BackendMsg", backendLocale)
             /\ UNCHANGED logLevel

(* restart / shutdown: ractl_cmd.shutdown_pi asks the backend to reboot or *)
(* halt the Pi; its result is not looked at and the answer is an empty     *)
(* success.                                                                *)
shutdown_pi(c, op, mode) ==
    /\ UNCHANGED <<files, props, devs, reserved, memo, configs, logLevel, pending>>
    /\ \E ok \in BOOLEAN: pi' = IF ok THEN mode ELSE pi
    /\ response(c, op, <<>>, FALSE, <<>>)

(* upload_file: login_required written out by hand (the refusal is a bare *)
(* 403 with the auth message); upload_with_dropzonejs (web_utils, outside  *)
(* this repository) stores the file in the AFP or the image directory.     *)
upload_file(c, dest, n) ==
    /\ UNCHANGED <<props, devs, reserved, memo, configs, logLevel, pi, pending>>
    /\ \E ok \in BOOLEAN:
         /\ files' = IF ok /\ dest = "images" THEN files \cup {n} ELSE files
         /\ respond1(c, "upload_file", <<n>>, ~ok,
                     IF ok THEN "Uploaded" ELSE "UploadFailed", get_locale(c))

(* download_file: the URL's last path element is saved in the AFP or the  *)
(* image directory; a failure names the URL, then the backend's message.  *)
download_file(c, dest, n) ==
    /\ UNCHANGED <<props, devs, reserved, memo, configs, logLevel, pi, pending>>
    /\ \/ /\ files' = IF dest = "images" THEN files \cup {n} ELSE files
          /\ respond1(c, "download_file", <<n>>, FALSE, "Downloaded", get_locale(c))
       \/ /\ response(c, "download_file", <<n>>, TRUE,
                      <<UiMsg(c, "DownloadFailed", "error"), BackendMsg("error")>>)
          /\ UNCHANGED files

(* The first backend call of reserve_id / release_id: get_reserved_ids().  *)
(* The route holds the list it returned until its second call.             *)
get_reserved_ids(c, op, id, m) ==
    /\ pending' = [client |-> c, op |-> op, id |-> id, m |-> m, ids |-> reserved]
    /\ UNCHANGED <<resp, files, props, devs, reserved, memo, configs, logLevel, pi>>

(* The rest of the waiting route, from the list it read: reserve_id or     *)
(* release_id with that list.                                              *)
ReservationRest ==
    /\ pending # Idle
    /\ pending' = Idle
    /\ LET p == pending
       IN IF p.op = "reserve_id" THEN reserve_id(p.client, p.id, p.m, p.ids)
                                 ELSE release_id(p.client, p.id, p.ids)
    /\ UNCHANGED <<session, backendLocale, configs, logLevel, pi>>

-----------------------------------------------------------------------------
\* Mutant of Boot: detect_locale takes the browser's Accept-Language match.
Boot_accept(c0) ==
    /\ pi' = "up"
    /\ pending' = Idle
    /\ logLevel' = DefaultLevel
    /\ \E ok \in Outcome(ReadConfigOK(configs[Default])):
         IF ok THEN read_config(configs[Default], TRUE)
               ELSE /\ devs' = [id \in Ids |-> Free]
                    /\ reserved' = {}
                    /\ memo' = [id \in Ids |-> ""]
    /\ session' = [session EXCEPT ![c0].lang = Accept[c0]]
    /\ backendLocale' = Accept[c0]
    /\ resp' = [client |-> c0, op |-> "detect_locale", args |-> <<>>,
                status |-> "success", msgs |-> <<>>]
    /\ UNCHANGED <<files, props, configs>>

(* Start of the Pi: the backend comes up empty at its default log level;   *)
(* the web process starts with RESERVATIONS all "" and, when the default   *)
(* config exists, has it read (the result is not looked at).  The first    *)
(* request, of browser c0, runs detect_locale on c0's surviving cookie.    *)
Boot(c0) ==
    /\ pi' = "up"
    /\ pending' = Idle
    /\ logLevel' = DefaultLevel
    /\ \E ok \in Outcome(ReadConfigOK(configs[Default])):
         IF ok THEN read_config(configs[Default], TRUE)
               ELSE /\ devs' = [id \in Ids |-> Free]
                    /\ reserved' = {}
                    /\ memo' = [id \in Ids |-> ""]
    /\ session' = [session EXCEPT ![c0].lang = get_locale(c0)]
    /\ backendLocale' = get_locale(c0)
    /\ resp' = [client |-> c0, op |-> "detect_locale", args |-> <<>>,
                status |-> "success", msgs |-> <<>>]
    /\ UNCHANGED <<files, props, configs>>

\* A requested reboot, or a power cut at any time while the Pi runs.
Reboot == pi # "down" /\ \E c0 \in Clients: Boot(c0)

\* A requested halt takes effect; the route in flight, if any, is lost.
Halt ==
    /\ pi = "halting"
    /\ pi' = "down"
    /\ pending' = Idle
    /\ UNCHANGED <<session, backendLocale, resp, files, props, devs, reserved,
                   memo, configs, logLevel>>

PowerOn == pi = "down" /\ \E c0 \in Clients: Boot(c0)

-----------------------------------------------------------------------------
(* One web request, served while no other is in flight.                    *)
SysRequest(c) ==
    \/ DevRouteNext(c) /\ UNCHANGED sysVars
    \/ FileRoute(c) /\ UNCHANGED <<devs, reserved, memo>> /\ UNCHANGED sysVars
    \/ \E id \in Ids \cup {NoId}, m \in Memos:
         Gated(c, "reserve_id", <<id>>,
               IF id = NoId THEN reserve_id(c, id, m, reserved) /\ UNCHANGED sysVars
                            ELSE get_reserved_ids(c, "reserve_id", id, m),
               sysRest)
    \/ \E id \in Ids:
         Gated(c, "release_id", <<id>>, get_reserved_ids(c, "release_id", id, ""), sysRest)
    \/ \E name \in CfgNames \cup {NoName}:
         \/ Gated(c, "config_save", <<name>>, config_save(c, name), sysRest)
         \/ \E act \in {"load", "delete", "none"}:
              Gated(c, "config_load", <<name>>, config_load(c, name, act), sysRest)
    \/ \E lvl \in LogLevels \cup {NoLevel}:
         Gated(c, "log_level", <<>>, log_level(c, lvl), sysRest)
    \/ Gated(c, "restart", <<>>, shutdown_pi(c, "restart", "rebooting"), sysRest)
    \/ Gated(c, "shutdown", <<>>, shutdown_pi(c, "shutdown", "halting"), sysRest)
    \/ \E dest \in {"afp", "images"}, n \in Names:
         \/ Gated(c, "upload_file", <<n>>, upload_file(c, dest, n), sysRest)
         \/ Gated(c, "download_file", <<n>>, download_file(c, dest, n), sysRest)
    \/ PageRoute(c) /\ UNCHANGED sysVars
    \/ SessionNext /\ UNCHANGED sysRest

SysInit ==
    /\ DevInit
    /\ configs \in [CfgNames -> {NoConfig}]
    /\ logLevel = DefaultLevel
    /\ pi = "up"
    /\ pending = Idle

SysNext ==
    \/ /\ pi # "down" /\ pending = Idle
       /\ \E c \in Clients: SysRequest(c)
    \/ ReservationRest
    \/ Reboot
    \/ Halt
    \/ PowerOn

SysSpec == SysInit /\ [][SysNext]_svars

-----------------------------------------------------------------------------
(* Other clients of the backend (rasctl, a second web UI): RESERVE_IDS     *)
(* replaces the whole reserved list with IDs that have no device.          *)
ExternalReserve ==
    /\ \E ids \in SUBSET {i \in Ids: devs[i] = Free}: reserved' = ids
    /\ UNCHANGED <<session, backendLocale, resp, files, props, devs, memo,
                   configs, logLevel, pi, pending>>

\* The rascsi service restarts on its own; the web process keeps running.
BackendRestart ==
    /\ pi # "down"
    /\ devs' = [id \in Ids |-> Free]
    /\ reserved' = {}
    /\ logLevel' = DefaultLevel
    /\ UNCHANGED <<session, backendLocale, resp, files, props, memo, configs,
                   pi, pending>>

ExternalSpec == SysInit /\ [][SysNext \/ ExternalReserve \/ BackendRestart]_svars

-----------------------------------------------------------------------------
(***************************************************************************)
(* Properties (MemoOnlyForReserved and ErrorAnswerChangesNoDevice are      *)
(* those of WebDevices, here under restarts, config loads and the split    *)
(* reserve/release route).                                                 *)
(***************************************************************************)

(* reserve_id / release_id ("Reserves a SCSI ID", "Releases the           *)
(* reservation of a SCSI ID"): the call that sends the list back changes   *)
(* the reservation of the requested ID and of no other.                    *)
OnlyOwnReservation ==
    [][ReservationRest =>
         \A i \in Ids \ {pending.id}: (i \in reserved') = (i \in reserved)]_svars

(* Spec 4.4: a language chosen with change_language stays the session's   *)
(* language for the rest of the session, across reboots of the Pi (the     *)
(* cookie survives; detect_locale runs again for the first request, and    *)
(* login, logout and every other route leave it alone).                    *)
LanguageSticky ==
    [][\A c \in Clients:
         session[c].lang # NoLang /\ session'[c].lang # session[c].lang
            => resp'.op = "change_language" /\ resp'.client = c]_svars

(* Spec 7: restart and shutdown answer success only when the backend took *)
(* the reboot or halt request.                                             *)
ShutdownAnswered ==
    [][\A c \in Clients:
         (resp' # resp /\ resp'.client = c /\ resp'.status = "success"
          /\ resp'.op \in {"restart", "shutdown"})
           => pi' = IF resp'.op = "restart" THEN "rebooting" ELSE "halting"]_svars
=============================================================================
