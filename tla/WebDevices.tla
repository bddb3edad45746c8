----------------------------- MODULE WebDevices -----------------------------
(***************************************************************************)
(* The device routes of web.py: attach_device, attach_image, detach,       *)
(* detach_all, eject, reserve_id, release_id and download_to_iso.  They    *)
(* drive the backend's SCSI ID table and the process-global RESERVATIONS   *)
(* memo table kept beside the backend's list of reserved IDs.              *)
(*                                                                         *)
(* devs[id] is what the backend has at that SCSI ID: Free, a device with   *)
(* NoMedium, or a device with an image file.  The backend refuses to put a *)
(* device on an occupied or reserved ID, to attach a missing image, to     *)
(* reserve an ID in use, to detach a free ID and to eject an empty device; *)
(* any call may also fail for reasons of its own.                          *)
(***************************************************************************)
EXTENDS WebFiles

CONSTANTS
    Ids,          \* SCSI IDs a request may name
    NoId,         \* the scsi_id field is missing or empty
    NoName,       \* the file_name field is missing or empty
    Free,         \* nothing attached at an ID
    NoMedium,     \* a device without an image (peripheral, ejected drive)
    Memos         \* memo texts, "" included

ASSUME "" \in Memos /\ {NoId, Free, NoMedium, NoName} \cap (Ids \cup Names) = {}

VARIABLES
    devs,         \* [Ids -> Names \cup {NoMedium, Free}]: the backend's devices
    reserved,     \* the backend's reserved IDs
    memo          \* RESERVATIONS: [Ids -> Memos]

devVars == <<devs, reserved, memo>>
restVars == <<files, props, devs, reserved, memo>>
allVars == <<session, backendLocale, resp, files, props, devs, reserved, memo>>

\* The backend takes a new device at id.
CanAttach(id) == devs[id] = Free /\ id \notin reserved

-----------------------------------------------------------------------------
(* attach_device: a device without an image.  A missing SCSI ID is        *)
(* refused; a network "interface" parameter needs the bridge to be set up, *)
(* and without it the attach is never tried.  int(unit) then raises when   *)
(* the unit field is missing or empty (~unit).                             *)
attach_device(c, id, iface, unit) ==
    /\ UNCHANGED <<files, props, reserved, memo>>
    /\ \/ /\ id = NoId
          /\ respond1(c, "attach_device", <<id>>, TRUE, "NoScsiId", get_locale(c))
          /\ UNCHANGED devs
       \/ /\ id # NoId /\ iface
          /\ response(c, "attach_device", <<id>>, TRUE,
                      <<UiMsg(c, "BridgeNotConfigured", "error"),
                        UiMsg(c, "FollowInstructions", "error")>>)
          /\ UNCHANGED devs
       \/ /\ id # NoId /\ ~unit
          /\ crash(c, "attach_device", <<id>>)
          /\ UNCHANGED devs
       \/ /\ id # NoId /\ unit
          /\ \/ /\ CanAttach(id)
                /\ devs' = [devs EXCEPT ![id] = NoMedium]
                /\ respond1(c, "attach_device", <<id>>, FALSE, "AttachedDevice", get_locale(c))
             \/ /\ respond1(c, "attach_device", <<id>>, TRUE, "BackendMsg", backendLocale)
                /\ UNCHANGED devs

(* attach_image: the expected block size comes from the device type, if   *)
(* one was given, then from the image's properties file, if it exists      *)
(* (reading it may fail).  After a successful attach the image size is     *)
(* checked against it: a mismatch adds a warning; with neither a type nor  *)
(* a properties file the size is unbound and the route raises, the image   *)
(* staying attached.  int(unit) raises, before anything else is asked of   *)
(* the backend, when the unit field is missing or empty (~unit).           *)
attach_image(c, id, n, typed, fits, unit) ==
    /\ UNCHANGED <<files, props, reserved, memo>>
    /\ \/ /\ id = NoId
          /\ respond1(c, "attach_image", <<id, n>>, TRUE, "NoScsiId", get_locale(c))
          /\ UNCHANGED devs
       \/ /\ id # NoId /\ n = NoName
          /\ respond1(c, "attach_image", <<id, n>>, TRUE, "NoImageFile", get_locale(c))
          /\ UNCHANGED devs
       \/ /\ id # NoId /\ n # NoName /\ ~unit
          /\ crash(c, "attach_image", <<id, n>>)
          /\ UNCHANGED devs
       \/ /\ id # NoId /\ n # NoName /\ unit /\ n \in props
          /\ respond1(c, "attach_image", <<id, n>>, TRUE, "PropsReadFailed", get_locale(c))
          /\ UNCHANGED devs
       \/ /\ id # NoId /\ n # NoName /\ unit
          /\ response(c, "attach_image", <<id, n>>, TRUE,
                      <<UiMsg(c, "AttachFailed", "error"), BackendMsg("error")>>)
          /\ UNCHANGED devs
       \/ /\ id # NoId /\ n # NoName /\ unit /\ CanAttach(id) /\ n \in files
          /\ devs' = [devs EXCEPT ![id] = n]
          /\ IF ~typed /\ n \notin props
             THEN crash(c, "attach_image", <<id, n>>)
             ELSE response(c, "attach_image", <<id, n>>, FALSE,
                           <<UiMsg(c, "AttachedImage", "success")>>
                             \o (IF fits THEN <<>>
                                 ELSE <<UiMsg(c, "BlockSizeMismatch", "warning")>>))

\* detach_all: one backend call.
detach_all(c) ==
    /\ UNCHANGED <<files, props, reserved, memo>>
    /\ \/ /\ devs' = [id \in Ids |-> Free]
          /\ respond1(c, "detach_all", <<>>, FALSE, "DetachedAll", get_locale(c))
       \/ /\ respond1(c, "detach_all", <<>>, TRUE, "BackendMsg", backendLocale)
          /\ UNCHANGED devs

\* detach: frees the ID of a device.
detach(c, id) ==
    /\ UNCHANGED <<files, props, reserved, memo>>
    /\ \/ /\ devs[id] # Free
          /\ devs' = [devs EXCEPT ![id] = Free]
          /\ respond1(c, "detach", <<id>>, FALSE, "Detached", get_locale(c))
       \/ /\ response(c, "detach", <<id>>, TRUE,
                      <<UiMsg(c, "DetachFailed", "error"), BackendMsg("error")>>)
          /\ UNCHANGED devs

\* eject: removes the medium, the device stays attached.
eject(c, id) ==
    /\ UNCHANGED <<files, props, reserved, memo>>
    /\ \/ /\ devs[id] \in Names
          /\ devs' = [devs EXCEPT ![id] = NoMedium]
          /\ respond1(c, "eject", <<id>>, FALSE, "Ejected", get_locale(c))
       \/ /\ response(c, "eject", <<id>>, TRUE,
                      <<UiMsg(c, "EjectFailed", "error"), BackendMsg("error")>>)
          /\ UNCHANGED devs

\* Mutant of reserve_id: the memo is stored before the backend answered.
reserve_id_memofirst(c, id, m, ids) ==
    /\ UNCHANGED <<files, props, devs>>
    /\ \/ /\ id = NoId
          /\ crash(c, "reserve_id", <<id>>)
          /\ UNCHANGED <<reserved, memo>>
       \/ /\ id # NoId
          /\ memo' = [memo EXCEPT ![id] = m]
          /\ \/ /\ \A i \in ids \cup {id}: devs[i] = Free
                /\ reserved' = ids \cup {id}
                /\ respond1(c, "reserve_id", <<id>>, FALSE, "Reserved", get_locale(c))
             \/ /\ response(c, "reserve_id", <<id>>, TRUE,
                            <<UiMsg(c, "ReserveFailed", "error"), BackendMsg("error")>>)
                /\ UNCHANGED reserved

(* reserve_id: ids is the reserved list get_reserved_ids() returned; it   *)
(* is sent back with this ID added, and on success the memo is stored in   *)
(* RESERVATIONS.  A missing ID raises in list.extend, before the second    *)
(* call.  The backend refuses to reserve an ID that has a device.          *)
reserve_id(c, id, m, ids) ==
    /\ UNCHANGED <<files, props, devs>>
    /\ \/ /\ id = NoId
          /\ crash(c, "reserve_id", <<id>>)
          /\ UNCHANGED <<reserved, memo>>
       \/ /\ id # NoId /\ \A i \in ids \cup {id}: devs[i] = Free
          /\ reserved' = ids \cup {id}
          /\ memo' = [memo EXCEPT ![id] = m]
          /\ respond1(c, "reserve_id", <<id>>, FALSE, "Reserved", get_locale(c))
       \/ /\ id # NoId
          /\ response(c, "reserve_id", <<id>>, TRUE,
                      <<UiMsg(c, "ReserveFailed", "error"), BackendMsg("error")>>)
          /\ UNCHANGED <<reserved, memo>>

\* Mutants of release_id: the memo is never cleared; the memo is cleared
\* before the backend has answered.
release_id_keepmemo(c, id, ids) ==
    /\ UNCHANGED <<files, props, devs, memo>>
    /\ \/ /\ id \notin ids
          /\ crash(c, "release_id", <<id>>)
          /\ UNCHANGED reserved
       \/ /\ id \in ids
          /\ reserved' = ids \ {id}
          /\ respond1(c, "release_id", <<id>>, FALSE, "Released", get_locale(c))
       \/ /\ id \in ids
          /\ response(c, "release_id", <<id>>, TRUE,
                      <<UiMsg(c, "ReleaseFailed", "error"), BackendMsg("error")>>)
          /\ UNCHANGED reserved
release_id_clearfirst(c, id, ids) ==
    /\ UNCHANGED <<files, props, devs>>
    /\ \/ /\ id \notin ids
          /\ crash(c, "release_id", <<id>>)
          /\ UNCHANGED <<reserved, memo>>
       \/ /\ id \in ids
          /\ memo' = [memo EXCEPT ![id] = ""]
          /\ \/ /\ reserved' = ids \ {id}
                /\ respond1(c, "release_id", <<id>>, FALSE, "Released", get_locale(c))
             \/ /\ response(c, "release_id", <<id>>, TRUE,
                            <<UiMsg(c, "ReleaseFailed", "error"), BackendMsg("error")>>)
                /\ UNCHANGED reserved

(* release_id: the ID is removed from the list ids that get_reserved_ids() *)
(* returned, which raises when it is not in it (list.remove); the rest of  *)
(* the list is sent back, and on success the memo is cleared.              *)
release_id(c, id, ids) ==
    /\ UNCHANGED <<files, props, devs>>
    /\ \/ /\ id \notin ids
          /\ crash(c, "release_id", <<id>>)
          /\ UNCHANGED <<reserved, memo>>
       \/ /\ id \in ids
          /\ reserved' = ids \ {id}
          /\ memo' = [memo EXCEPT ![id] = ""]
          /\ respond1(c, "release_id", <<id>>, FALSE, "Released", get_locale(c))
       \/ /\ id \in ids
          /\ response(c, "release_id", <<id>>, TRUE,
                      <<UiMsg(c, "ReleaseFailed", "error"), BackendMsg("error")>>)
          /\ UNCHANGED <<reserved, memo>>

(* download_to_iso: the backend downloads a URL into a new CD-ROM image n, *)
(* then the image is attached at id.  A failed attach answers with its own *)
(* error; the messages collected for the download are dropped.             *)
download_to_iso(c, id, n) ==
    /\ UNCHANGED <<props, reserved, memo>>
    /\ \/ /\ response(c, "download_to_iso", <<id, n>>, TRUE,
                      <<UiMsg(c, "IsoFailed", "error"), UiMsg(c, "IsoMsg", "error")>>)
          /\ UNCHANGED <<files, devs>>
       \/ /\ files' = files \cup {n}
          /\ \/ /\ CanAttach(id)
                /\ devs' = [devs EXCEPT ![id] = n]
                /\ response(c, "download_to_iso", <<id, n>>, FALSE,
                            <<UiMsg(c, "IsoMsg", "success"),
                              UiMsg(c, "SavedImage", "success"),
                              UiMsg(c, "AttachedTo", "success")>>)
             \/ /\ response(c, "download_to_iso", <<id, n>>, TRUE,
                            <<UiMsg(c, "AttachManually", "error"), BackendMsg("error")>>)
                /\ UNCHANGED devs

-----------------------------------------------------------------------------
(* The backend starts with nothing attached and nothing reserved.          *)
DevInit ==
    /\ SessionInit
    /\ files \in SUBSET Names
    /\ props \in SUBSET files
    /\ devs = [id \in Ids |-> Free]
    /\ reserved = {}
    /\ memo = [id \in Ids |-> ""]

(* The device routes other than the two that read the reserved list.      *)
DevRouteNext(c) ==
    \/ \E id \in Ids \cup {NoId}:
        \/ \E iface, unit \in BOOLEAN:
             Gated(c, "attach_device", <<id>>, attach_device(c, id, iface, unit), restVars)
        \/ \E n \in Names \cup {NoName}, typed, fits, unit \in BOOLEAN:
             Gated(c, "attach_image", <<id, n>>, attach_image(c, id, n, typed, fits, unit), restVars)
    \/ \E id \in Ids:
        \/ Gated(c, "detach", <<id>>, detach(c, id), restVars)
        \/ Gated(c, "eject", <<id>>, eject(c, id), restVars)
        \/ \E n \in Names:
             Gated(c, "download_to_iso", <<id, n>>, download_to_iso(c, id, n), restVars)
    \/ Gated(c, "detach_all", <<>>, detach_all(c), restVars)

(* reserve_id and release_id in one step: nobody else drives the backend, *)
(* so the list read by get_reserved_ids() is the current one.              *)
ReservationNext(c) ==
    \/ \E id \in Ids \cup {NoId}, m \in Memos:
         Gated(c, "reserve_id", <<id>>, reserve_id(c, id, m, reserved), restVars)
    \/ \E id \in Ids:
         Gated(c, "release_id", <<id>>, release_id(c, id, reserved), restVars)

DevNext == \E c \in Clients: DevRouteNext(c) \/ ReservationNext(c)

DevSpecNext ==
    \/ SessionNext /\ UNCHANGED <<files, props, devs, reserved, memo>>
    \/ DevNext

DevSpec == DevInit /\ [][DevSpecNext]_allVars
-----------------------------------------------------------------------------
(***************************************************************************)
(* Properties                                                              *)
(***************************************************************************)

(* reserve_id / release_id: RESERVATIONS holds a memo only for an ID the  *)
(* backend has reserved, whatever the order of reservations, releases and *)
(* failures of the browsers.                                               *)
MemoOnlyForReserved ==
    \A id \in Ids: memo[id] # "" => id \in reserved

(* Every device route: a request answered with an error attached,         *)
(* detached, ejected, reserved and released nothing (the bridge check of  *)
(* attach_device and the failed attach of download_to_iso included).      *)
ErrorAnswerChangesNoDevice ==
    [][resp'.status = "error" => UNCHANGED devVars]_allVars

(* Spec 7: every change of the backend's devices made by a request is     *)
(* confirmed by a success answer; no route attaches and then fails.        *)
DeviceChangeAnswered ==
    [][devs' # devs => resp'.status = "success"]_allVars

(* Spec 7: every route ends in a well-formed answer, never in an         *)
(* exception that Flask turns into a 500: a stale or duplicated release,   *)
(* a missing SCSI ID on reserve, a missing unit on attach, a config delete *)
(* or a disk-info or download request without a name.                      *)
RequestsAnswered == [][resp'.status # "crash"]_allVars

(* Spec 4.2 (download-convert-attach): the answer keeps the messages of    *)
(* the steps already done, so a converted image that could not be attached *)
(* is still named as saved.                                                *)
ConvertedImageReported ==
    [][resp'.op = "download_to_iso" /\ files' # files
         => \E i \in 1..Len(resp'.msgs): resp'.msgs[i].k = "SavedImage"]_allVars
=============================================================================
