------------------------------ MODULE WebFiles ------------------------------
(***************************************************************************)
(* The image-file routes of web.py: each one orchestrates a call on the    *)
(* image file (required: its failure ends the route) and a call on the     *)
(* image's sidecar properties file in CFG_DIR, and answers with the ordered *)
(* messages of the steps.                                                  *)
(*                                                                         *)
(* files are the images in the image directory, props the names that have *)
(* a "<image>.properties" file in CFG_DIR.  A file is a model value; the   *)
(* suffixes, sizes and drive catalogue entries are left out.  The backend  *)
(* (and the disk under it) may fail any call; a call that needs a file to  *)
(* exist, or not to, can only succeed when that holds.                     *)
(***************************************************************************)
EXTENDS WebSession, SequencesExt

CONSTANTS
    Names         \* image file names a request may carry

VARIABLES
    files,        \* images present in the image directory
    props         \* images that have a properties file in CFG_DIR

fileVars == <<files, props>>
vars == <<session, backendLocale, resp, files, props>>

\* The results a backend call can return when success needs pre.
Outcome(pre) == IF pre THEN BOOLEAN ELSE {FALSE}

\* A translated message (_() or ReturnCodeMapper.add_msg): the UI locale.
UiMsg(c, k, cat) == Msg(k, cat, get_locale(c))

\* process["msg"] straight from the backend: the locale it was handed.
BackendMsg(cat) == Msg("BackendMsg", cat, backendLocale)

HasError(msgs) == \E i \in 1..Len(msgs): msgs[i].cat = "error"

TypeOK ==
    /\ SessionTypeOK
    /\ files \subseteq Names
    /\ props \subseteq Names
    /\ resp \in Responses(Names)

-----------------------------------------------------------------------------
(* login_required wrapped around a route body; a refused request leaves    *)
(* rest, the variables of the routes, alone.                               *)
Gated(c, op, args, Body, rest) ==
    \/ /\ Authorized(c)
       /\ Body
       /\ UNCHANGED <<session, backendLocale>>
    \/ /\ ~Authorized(c)
       /\ Deny(c, op, args)
       /\ UNCHANGED rest

\* Mutants of SidecarMsgs: a failed sidecar step reported as a success, or
\* with the Bootstrap class "danger" instead of the category "error".
SidecarMsgs_silent(c, exists, ok) ==
    IF ~exists THEN <<>>
    ELSE <<UiMsg(c, IF ok THEN "PropsMirrored" ELSE "PropsMirrorFailed", "success")>>
SidecarMsgs_danger(c, exists, ok) ==
    IF ~exists THEN <<>>
    ELSE IF ok THEN <<UiMsg(c, "PropsMirrored", "success")>>
    ELSE <<UiMsg(c, "PropsMirrorFailed", "danger")>>

(* The sidecar step of delete/rename/copy: run only when the properties   *)
(* file exists; its result is appended as a success or error message.      *)
SidecarMsgs(c, exists, ok) ==
    IF ~exists THEN <<>>
    ELSE IF ok THEN <<UiMsg(c, "PropsMirrored", "success")>>
    ELSE <<UiMsg(c, "PropsMirrorFailed", "error")>>

(* drive_create: create the image (its failure ends the route with the    *)
(* backend's message), then write its properties file (its failure also   *)
(* ends the route with an error, the new image staying on disk).           *)
drive_create(c, n) ==
    \/ /\ respond1(c, "drive_create", <<n>>, TRUE, "BackendMsg", backendLocale)
       /\ UNCHANGED fileVars
    \/ /\ n \notin files
       /\ files' = files \cup {n}
       /\ \/ /\ props' = props \cup {n}
             /\ response(c, "drive_create", <<n>>, FALSE,
                         <<UiMsg(c, "ImageCreated", "success"),
                           UiMsg(c, "PropsWritten", "success")>>)
          \/ /\ respond1(c, "drive_create", <<n>>, TRUE, "PropsWriteFailed",
                         get_locale(c))
             /\ UNCHANGED props

(* drive_cdrom: write a properties file for the named CD-ROM image; that  *)
(* the image exists is not checked.                                        *)
drive_cdrom(c, n) ==
    /\ UNCHANGED files
    /\ \/ /\ props' = props \cup {n}
          /\ respond1(c, "drive_cdrom", <<n>>, FALSE, "PropsWritten", get_locale(c))
       \/ /\ respond1(c, "drive_cdrom", <<n>>, TRUE, "PropsWriteFailed", get_locale(c))
          /\ UNCHANGED props

(* create_file: create the image, then, if a drive was chosen, write its  *)
(* properties file (failure ends the route with an error).  On success the *)
(* second message is the properties result, or the creation result when   *)
(* no drive was chosen.                                                    *)
create_file(c, n, drive) ==
    \/ /\ respond1(c, "create_file", <<n>>, TRUE, "BackendMsg", backendLocale)
       /\ UNCHANGED fileVars
    \/ /\ n \notin files
       /\ files' = files \cup {n}
       /\ \/ /\ ~drive
             /\ response(c, "create_file", <<n>>, FALSE,
                         <<UiMsg(c, "ImageCreated", "success"), BackendMsg("success")>>)
             /\ UNCHANGED props
          \/ /\ drive
             /\ props' = props \cup {n}
             /\ response(c, "create_file", <<n>>, FALSE,
                         <<UiMsg(c, "ImageCreated", "success"),
                           UiMsg(c, "PropsWritten", "success")>>)
          \/ /\ drive
             /\ respond1(c, "create_file", <<n>>, TRUE, "PropsWriteFailed", get_locale(c))
             /\ UNCHANGED props

(* delete: delete the image; if "<n>.properties" exists, delete it too.    *)
delete(c, n) ==
    \/ /\ respond1(c, "delete", <<n>>, TRUE, "BackendMsg", backendLocale)
       /\ UNCHANGED fileVars
    \/ /\ n \in files
       /\ files' = files \ {n}
       /\ \E ok \in Outcome(n \in props):
            /\ props' = IF ok THEN props \ {n} ELSE props
            /\ response(c, "delete", <<n>>, FALSE,
                        <<UiMsg(c, "ImageDeleted", "success")>>
                          \o SidecarMsgs(c, n \in props, ok))

(* rename: the backend renames the image (it refuses an existing target); *)
(* if "<n>.properties" exists, it is renamed to "<m>.properties"           *)
(* (Path.rename replaces an existing target).                              *)
rename(c, n, m) ==
    \/ /\ respond1(c, "rename", <<n, m>>, TRUE, "BackendMsg", backendLocale)
       /\ UNCHANGED fileVars
    \/ /\ n \in files /\ m \notin files
       /\ files' = (files \ {n}) \cup {m}
       /\ \E ok \in Outcome(n \in props):
            /\ props' = IF ok THEN (props \ {n}) \cup {m} ELSE props
            /\ response(c, "rename", <<n, m>>, FALSE,
                        <<UiMsg(c, "ImageRenamed", "success")>>
                          \o SidecarMsgs(c, n \in props, ok))

(* copy: the backend copies the image (it refuses an existing target); if *)
(* "<n>.properties" exists, it is copied to "<m>.properties" (shutil.copy  *)
(* replaces an existing target).                                           *)
copy(c, n, m) ==
    \/ /\ respond1(c, "copy", <<n, m>>, TRUE, "BackendMsg", backendLocale)
       /\ UNCHANGED fileVars
    \/ /\ n \in files /\ m \notin files
       /\ files' = files \cup {m}
       /\ \E ok \in Outcome(n \in props):
            /\ props' = IF ok THEN props \cup {m} ELSE props
            /\ response(c, "copy", <<n, m>>, FALSE,
                        <<UiMsg(c, "ImageCopied", "success")>>
                          \o SidecarMsgs(c, n \in props, ok))

\* Mutant of extract_image: the extraction is reported after the moves.
extract_image_extractedlast(c) ==
    \/ /\ respond1(c, "extract_image", <<>>, TRUE, "ExtractFailed", get_locale(c))
       /\ UNCHANGED fileVars
    \/ \E members \in SUBSET Names \ {{}}:
       \E withProps \in SUBSET members:
       \E moved \in SUBSET withProps:
         /\ files' = files \cup members
         /\ props' = props \cup moved
         /\ LET order == SetToSeq(withProps)
                MoveMsg(x) == IF x \in moved
                              THEN UiMsg(c, "PropsMoved", "success")
                              ELSE UiMsg(c, "PropsMoveFailed", "error")
            IN response(c, "extract_image", <<>>, FALSE,
                        [i \in 1..Len(order) |-> MoveMsg(order[i])]
                          \o <<UiMsg(c, "Extracted", "success")>>)

(* extract_image: the backend extracts members of an archive into the     *)
(* image directory and moves each properties file among them to CFG_DIR,  *)
(* each move on its own.  On success the answer lists the extraction,     *)
(* then one success or error message per properties file, in order.       *)
extract_image(c) ==
    \/ /\ respond1(c, "extract_image", <<>>, TRUE, "ExtractFailed", get_locale(c))
       /\ UNCHANGED fileVars
    \/ \E members \in SUBSET Names \ {{}}:
       \E withProps \in SUBSET members:
       \E moved \in SUBSET withProps:
         /\ files' = files \cup members
         /\ props' = props \cup moved
         /\ LET order == SetToSeq(withProps)
                MoveMsg(x) == IF x \in moved
                              THEN UiMsg(c, "PropsMoved", "success")
                              ELSE UiMsg(c, "PropsMoveFailed", "error")
            IN response(c, "extract_image", <<>>, FALSE,
                        <<UiMsg(c, "Extracted", "success")>>
                          \o [i \in 1..Len(order) |-> MoveMsg(order[i])])

-----------------------------------------------------------------------------
Init ==
    /\ SessionInit
    /\ files \in SUBSET Names
    /\ props \in SUBSET files

FileRoute(c) ==
    \/ \E n \in Names:
        \/ Gated(c, "drive_create", <<n>>, drive_create(c, n), fileVars)
        \/ Gated(c, "drive_cdrom", <<n>>, drive_cdrom(c, n), fileVars)
        \/ \E drive \in BOOLEAN:
             Gated(c, "create_file", <<n>>, create_file(c, n, drive), fileVars)
        \/ Gated(c, "delete", <<n>>, delete(c, n), fileVars)
        \/ \E m \in Names:
             \/ Gated(c, "rename", <<n, m>>, rename(c, n, m), fileVars)
             \/ Gated(c, "copy", <<n, m>>, copy(c, n, m), fileVars)
    \/ Gated(c, "extract_image", <<>>, extract_image(c), fileVars)

FileNext == \E c \in Clients: FileRoute(c)

Next ==
    \/ SessionNext /\ UNCHANGED fileVars
    \/ FileNext

Spec == Init /\ [][Next]_vars
-----------------------------------------------------------------------------
(***************************************************************************)
(* Properties                                                              *)
(***************************************************************************)
\* The sidecar of image n after a delete/rename/copy of n (to m) followed it.
SidecarFollowed(op, args) ==
    LET n == args[1] IN
    n \in props =>
        CASE op = "delete" -> n \notin props'
          [] op = "rename" -> n \notin props' /\ args[2] \in props'
          [] op = "copy"   -> args[2] \in props'

(* delete/rename/copy: once the image step succeeded, an answer without   *)
(* an error message means the image's properties file followed the image,  *)
(* and an error message means no properties file was touched: a partial   *)
(* failure is neither silent nor invented.                                 *)
SidecarOutcomeReported ==
    [][resp'.op \in {"delete", "rename", "copy"} /\ resp'.status = "success"
         => IF HasError(resp'.msgs) THEN UNCHANGED props
            ELSE SidecarFollowed(resp'.op, resp'.args)]_vars

ImageAcks == {"ImageCreated", "ImageRenamed", "ImageCopied", "Extracted"}

(* Spec 4.2/8 (create-with-properties): a request that left a new image on *)
(* disk answers success and says so, even when the properties file step    *)
(* after it failed.                                                        *)
NewImageReported ==
    [][files' \ files # {} =>
         /\ resp'.status = "success"
         /\ \E i \in 1..Len(resp'.msgs):
              resp'.msgs[i].k \in ImageAcks /\ resp'.msgs[i].cat = "success"]_vars

(* Spec 3 (Message): every message of an answer is in the locale of the   *)
(* session that made the request, backend messages included.              *)
MessagesInSessionLocale ==
    \A i \in 1..Len(resp.msgs): resp.msgs[i].lang = get_locale(resp.client)

-----------------------------------------------------------------------------
(***************************************************************************)
(* Refinement: delete, rename and copy (mutate-image-and-sidecar) and     *)
(* extract_image (extract-archive) implement the orchestrator of spec     *)
(* 4.2.  Their step plans: the image step is required, the sidecar step    *)
(* optional; the extraction is required, each properties-file move         *)
(* optional.  The last answer maps to the orchestrator's operation,        *)
(* message categories and overall status.                                  *)
(***************************************************************************)
OrchPlan ==
    [o \in {"delete", "rename", "copy"} |-> <<"required", "optional">>]
      @@ ("extract_image" :> (<<"required">> \o [i \in 1..Cardinality(Names) |-> "optional"]))

Orch == INSTANCE Orchestrator
          WITH Ops <- DOMAIN OrchPlan,
               Plan <- OrchPlan,
               op <- resp.op,
               log <- [i \in 1..Len(resp.msgs) |-> resp.msgs[i].cat],
               ok <- resp.status = "success"

(* The image-file routes follow the step policy of spec 4.2: one message   *)
(* per executed step in execution order, a failed required step ends and  *)
(* fails the route, a failed optional step is reported without failing it. *)
OrchSpec == Orch!Spec
=============================================================================
