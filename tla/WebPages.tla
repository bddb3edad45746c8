------------------------------ MODULE WebPages ------------------------------
(***************************************************************************)
(* The routes of web.py that only read: index, env, drive_list,           *)
(* show_diskinfo, show_manpage, show_logs, device_info, download and       *)
(* send_pwa_files.  Only download is behind login_required; none changes   *)
(* the backend, the files or the session; what they render (listings, disk *)
(* info, man pages, logs) is left out.  What is kept is how each one ends: *)
(* a page, an error answer, an HTTP error of Flask, or an exception.       *)
(***************************************************************************)
EXTENDS WebDevices

CONSTANTS
    WebToken,     \* the web UI was started with --password (RASCSI_TOKEN)
    Apps,         \* app names a manpage request may give
    AllowedApps,  \* app_allowlist of show_manpage
    SourceLang    \* the language of strings the code does not pass to _()

ASSUME WebToken \in BOOLEAN /\ SourceLang \in Langs

\* A rendered template (or a JSON body): success and no message.
page(c, op, args) == response(c, op, args, FALSE, <<>>)

(* abort(code, text) and Flask's NotFound: an HTTP error page, not the    *)
(* response() envelope; abort's text goes through _().                    *)
http_error(c, op, args, k, l) == respond1(c, op, args, TRUE, k, l)

-----------------------------------------------------------------------------
(* index: is_token_auth() asks the backend, at every request, whether it   *)
(* takes commands without a token (rascsi's own start option).  When it    *)
(* does not and the web UI was started without --password, the page is    *)
(* refused with 403; otherwise it is rendered.                             *)
index(c) ==
    \E tokenAuth \in BOOLEAN:
        \/ /\ ~tokenAuth /\ ~WebToken
           /\ http_error(c, "index", <<>>, "PasswordProtected", get_locale(c))
        \/ /\ tokenAuth \/ WebToken
           /\ page(c, "index", <<>>)

\* env and drive_list render what they read.
env(c) == page(c, "env", <<>>)

drive_list(c) == page(c, "drive_list", <<>>)

(* show_diskinfo: image_dir + "/" + file_name raises when the field is     *)
(* missing; otherwise disktype's return code picks the page or the error.  *)
show_diskinfo(c, n) ==
    \/ /\ n = NoName
       /\ crash(c, "show_diskinfo", <<n>>)
    \/ /\ n # NoName
       /\ \E ok \in BOOLEAN:
            IF ok THEN page(c, "show_diskinfo", <<n>>)
                  ELSE respond1(c, "show_diskinfo", <<n>>, TRUE, "DiskInfoFailed", get_locale(c))

(* show_manpage: an app outside the allowlist is refused before the man    *)
(* page is read; reading it may fail.                                      *)
show_manpage(c, app) ==
    \/ /\ app \notin AllowedApps
       /\ respond1(c, "show_manpage", <<>>, TRUE, "NotRecognizedApp", get_locale(c))
    \/ /\ app \in AllowedApps
       /\ \E ok \in BOOLEAN:
            IF ok THEN page(c, "show_manpage", <<>>)
                  ELSE respond1(c, "show_manpage", <<>>, TRUE, "ManpageFailed", get_locale(c))

\* show_logs: journalctl's return code picks the page or the error.
show_logs(c) ==
    \E ok \in BOOLEAN:
        IF ok THEN page(c, "show_logs", <<>>)
              ELSE respond1(c, "show_logs", <<>>, TRUE, "LogsFailed", get_locale(c))

\* device_info: list_devices' status picks the page or "No devices attached".
device_info(c) ==
    \E ok \in BOOLEAN:
        IF ok THEN page(c, "device_info", <<>>)
              ELSE respond1(c, "device_info", <<>>, TRUE, "NoDevicesAttached", get_locale(c))

(* download: send_from_directory(image_dir, file_name) raises on a missing *)
(* name, answers Flask's 404 (in English) for a file not in the image      *)
(* directory, and sends the file otherwise.                                *)
download(c, n) ==
    \/ /\ n = NoName
       /\ crash(c, "download", <<n>>)
    \/ /\ n # NoName /\ n \notin files
       /\ http_error(c, "download", <<n>>, "NotFound", SourceLang)
    \/ /\ n # NoName /\ n \in files
       /\ page(c, "download", <<n>>)

\* send_pwa_files: a static file of the pwa directory, or Flask's 404.
send_pwa_files(c) ==
    \E found \in BOOLEAN:
        IF found THEN page(c, "send_pwa_files", <<>>)
                 ELSE http_error(c, "send_pwa_files", <<>>, "NotFound", SourceLang)

-----------------------------------------------------------------------------
(* A request for one of these pages, from any browser, logged in or not   *)
(* (download through the gate).  The name fields range over the images and *)
(* the missing field.                                                      *)
PageRoute(c) ==
    /\ \/ index(c)
       \/ env(c)
       \/ drive_list(c)
       \/ show_logs(c)
       \/ device_info(c)
       \/ send_pwa_files(c)
       \/ \E app \in Apps: show_manpage(c, app)
       \/ \E n \in Names \cup {NoName}:
            \/ show_diskinfo(c, n)
            \/ Gated(c, "download", <<n>>, download(c, n), <<>>)
    /\ UNCHANGED <<session, backendLocale, files, props, devs, reserved, memo>>
=============================================================================
