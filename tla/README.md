# TLA+ model of the RaSCSI web interface (`src/python/web/src/web.py`)

This directory holds TLA+ models of the Flask front end of RaSCSI. The front
end turns each user action into one or more calls on the RaSCSI backend and
on the files of the image and config directories. Then it answers with a
status and an ordered list of categorised, translated messages. The models
check how those calls are ordered and gated. They also check how partial
failures are reported and how a route's effects match its answer.

## 1. Inventory

### The parts and their state

| Part | Code | State it keeps |
|---|---|---|
| Session context | `get_locale`, `detect_locale`, `login`, `logout`, `change_language` | per browser: `session["username"]`, `session["language"]`; per process: `ractl_cmd.locale` / `file_cmd.locale` |
| Access gate | `login_required` (and the copy inside `upload_file`) | none; it reads `auth_active(AUTH_GROUP)` and the session |
| Response composer | `response()` | none; it builds status + messages; the HTML path queues them with `flash()` in the session |
| Image-file routes | `drive_create`, `drive_cdrom`, `create_file`, `delete`, `rename`, `copy`, `extract_image` | image files in the image dir; `<image>.properties` sidecars in `CFG_DIR` |
| Device routes | `attach_device`, `attach_image`, `detach`, `detach_all`, `eject`, `download_to_iso` | the backend's device table (SCSI ID → device/medium) |
| Reservations | `reserve_id`, `release_id` | the backend's reserved-ID list; `RESERVATIONS`, a process-global memo table |
| Config | `config_save`, `config_load` | config files in `CFG_DIR`; loading replaces the backend's devices |
| Uploads/downloads | `upload_file`, `download_file`, `download` | files in the image dir / AFP dir |
| System | `log_level`, `restart`, `shutdown` | backend log level; the process itself |
| Read-only pages | `index`, `env`, `drive_list`, `show_diskinfo`, `show_manpage`, `show_logs`, `device_info`, `download` (gated), `send_pwa_files` | none |

### How they interact

Every route of the mutating kind is wrapped in `login_required`. The route
calls the backend through `ractl_cmd`/`file_cmd`. Each call returns a dict
`{status, msg, ...}`. `ReturnCodeMapper.add_msg` rewrites `msg` into the UI
language when the result has a return code. Otherwise `msg` is the backend's
text, in the locale the command objects were last given. The route then
calls `response()`, which returns JSON or flashes the messages and
redirects. bjoern serves one request at a time, so a route runs to
completion before the next one starts. Several browsers (sessions) still
interleave at request granularity. They share the backend, the files, the
`RESERVATIONS` table and the process-global locale.

### What is hard

- **Partial failure.** A route makes two or three backend calls that cannot
  be made atomic: create then write properties, act on the image then on
  its sidecar, download then attach. Each route has its own policy on
  whether a later failure fails the route.
- **Shared process state.** The backend locale and `RESERVATIONS` are
  shared by all sessions. They are updated apart from the backend state they
  describe.
- **Interleaving of sessions.** Login and logout happen in one browser
  while another browser acts. Stale pages send a second release or a
  rename onto a name that has changed meanwhile.
- **Exceptions after effects.** Some routes raise a Python exception after
  the backend has already acted. The client then gets a 500 with no answer.

### What makes each part correct

- Image-file routes: a created image is reported, even when a later step
  fails. A sidecar failure is reported, not silent and not invented.
- Device routes: an error answer changes no device. Every change of a
  device is confirmed by a success answer.
- Reservations: a memo exists only for a reserved ID.
- Every route: it ends in an answer, never in an exception (spec §7).
- Session: each message is in the requesting session's locale. A language
  the user chose stays the session's language, also across reboots.
- Config and restart: memos and reservations still agree after a reboot
  or a config load. That holds because the model treats `read_config` as
  one call that restores devices, reservations and memos together, so it
  is no check of the real multi-call load. A reserve or release touches only its own ID, even with another backend
  client. Restart and shutdown report whether the backend took the
  request.
- Orchestration: the image-file routes follow spec 4.2's step policy.

## 2. Modules

| Module | Models | Variables | Actions |
|---|---|---|---|
| `WebSession` | session, locale, gate, `response()` | `session`, `backendLocale`, `resp` | `login`, `logout`, `change_language`; operators `get_locale`, `response`, `respond1`, `Authorized`, `Deny`; `SessionInit` = state after `detect_locale` |
| `WebFiles` (extends `WebSession`) | image-file routes | `files`, `props` | `drive_create`, `drive_cdrom`, `create_file`, `delete`, `rename`, `copy`, `extract_image`, each wrapped by `Gated` |
| `WebDevices` (extends `WebFiles`) | device and reservation routes | `devs`, `reserved`, `memo` | `attach_device`, `attach_image`, `detach`, `detach_all`, `eject`, `reserve_id`, `release_id`, `download_to_iso` |
| `WebPages` (extends `WebDevices`) | read-only pages | none | `index`, `env`, `drive_list`, `show_diskinfo`, `show_manpage`, `show_logs`, `device_info`, `download`, `send_pwa_files`; `PageRoute(c)` offers them all |
| `WebSystem` (extends `WebPages`) | config, system, upload/download routes; Pi life cycle; other backend clients | `configs`, `logLevel`, `pi`, `pending` | `config_save`, `config_load`, `log_level`, `shutdown_pi` (restart, shutdown), `upload_file`, `download_file`, `get_reserved_ids` + `ReservationRest` (reserve/release split at their two backend calls); environment: `Reboot`, `Halt`, `PowerOn` (all via `Boot`), and in `ExternalSpec` `ExternalReserve`, `BackendRestart` |
| `Orchestrator` | spec 4.2's step policy, abstract | `op`, `log`, `ok` | `Run(o)`, `Refuse(o)`, `Other` |
| `MCWebFiles`, `MCWebDevices`, `MCWebSystem` | model-checking instances | | |

How the code maps to the model:

- Each route is one action whose name is the Python function's name. Its
  early returns are disjuncts guarded by the code's conditions. Each
  backend call is a choice between success and failure, and success is only
  possible when the backend could succeed: the file exists, the ID is free
  and unreserved, and so on.
- `resp` is the answer of the last request: client, route, arguments,
  status (`success`/`error`/`crash`, where `crash` is an exception that
  escapes the route) and messages. A message is `[k, cat, lang]`. `k` is an
  abstract text, `cat` its category and `lang` the language it is in.
  Messages made with `_()` or `ReturnCodeMapper.add_msg` are in
  `get_locale(c)`. Raw backend messages are in `backendLocale`.
- `files`/`props` are sets of image names. The image suffix and size and
  the drive catalogue are left out. Only whether a properties file exists
  matters to any property.
- The JSON and HTML answers are the same `resp` record, because
  `response()` builds both from the same status and list. `flash()`
  queuing is not modelled (see section 4).
- A page that renders a template answers success with no message
  (`page`). `abort(403)` and Flask's 404 are error answers (`http_error`),
  not exceptions. An exception inside a page (`show_diskinfo` or `download`
  without a file name) is `crash`.

- In `WebSystem`, `reserve_id`/`release_id` are two steps, because the
  route makes two backend calls: `get_reserved_ids` stores the list it read
  in `pending`, and `ReservationRest` is the rest of the route with that
  list (`reserve_id(c, id, m, ids)` / `release_id(c, id, ids)` of
  `WebDevices`). No other web request runs in between, since bjoern is
  single-threaded. A power cut can come in between. In `ExternalSpec`,
  another backend client can too.
- `Boot` is the start of the Pi after a reboot, a power cut or a power-on.
  The backend comes up empty, and `RESERVATIONS` is re-initialised. The
  default config is read when it exists, and its result is ignored, as at
  web.py:1164. `detect_locale` runs for the first browser on its surviving
  cookie. Images, sidecars and configs are on disk and survive. So do the
  signed session cookies, because the secret key is fixed.
- `Orchestrator` is the abstract side of a refinement. `WebFiles` maps the
  last answer to the orchestrator's variables: its operation, the
  categories of its messages and its status. `OrchSpec` is the orchestrator's
  `Spec` under that mapping. The plans come from spec 4.2. For delete,
  rename and copy, the image step is required and the sidecar step is
  optional (skipped when there is no sidecar). For extract_image, the
  extraction is required and each move is optional.

Assumptions that come from code outside this repository (`rascsi.*`,
`web_utils`, `return_code_mapper`):

- `add_msg` translates through the UI locale.
- `get_reserved_ids` returns the IDs as strings, so `remove(scsi_id)`
  succeeds exactly when the ID is reserved.
- The backend's image rename and copy refuse an existing target; `Path.rename` and `shutil.copy`, used for the properties file, replace one.
- `write_config`/`read_config` (spec_modelled): a config is a snapshot of
  the devices, the reserved IDs and their memos. Loading it is one call.
  On success it replaces all three; on failure it changes nothing. It can
  only succeed when the file exists and its images are on disk. The real
  `read_config` makes several backend calls, so a half-loaded config is
  possible. That case is listed as a hazard and not explored.
- `upload_with_dropzonejs` (spec_modelled) stores one file or fails.

## 3. Runs

| Run | Checks | Result |
|---|---|---|
| `files` (pass) | `OrchSpec`: delete/rename/copy/extract_image refine `Orchestrator`; `TypeOK`; `SidecarOutcomeReported`: after the image step of delete/rename/copy, no error message ⇒ the sidecar followed, an error message ⇒ no sidecar changed | holds, 31,666 states |
| `files_new_image_reported` (violation) | `NewImageReported`: a request that leaves a new image answers success and names it (spec §4.2/§8) | violated by `drive_create` when the properties write fails |
| `files_session_locale` (violation) | `MessagesInSessionLocale` (spec §3) | violated: a backend message for browser 2 is in browser 1's language |
| `devices_change_answered` (violation) | `DeviceChangeAnswered`: a device change comes with a success answer (spec §7) | violated: `attach_image` without type or properties file attaches, then raises |
| `system_requests_answered` (violation) | `RequestsAnswered`: no route ends in an exception (spec §7). It is an action property on `resp'`, checked on every transition; an invariant on `resp` would be blind under `MCView`, which leaves `resp` out | violated: TLC's shortest trace is `show_diskinfo` without a file name (web.py:449), a page that needs no login. The other raising paths break the same property: `int(unit)` on a missing unit (596, 636); the unbound block size (670); `reserve_id` without an ID (767); `release_id` of an unreserved ID (790); `config_load` delete without a name (427); `download` without a name (955). TLC reaches each of them under this cfg when the property is narrowed to that route |
| `system` (pass) | `SysTypeOK`; `MemoOnlyForReserved` and `ErrorAnswerChangesNoDevice` over every route (the read-only pages included), config save/load, log level, reboot/halt/power cuts (also between the two calls of reserve/release); `LanguageSticky`: a session's language changes only by that browser's `change_language`, also when `detect_locale` runs again after a reboot (spec §4.4) | holds, 270,400 states |
| `system_stale_memo` (violation) | `MemoOnlyForReserved` with another backend client / a rascsi restart (`ExternalSpec`) | violated: rasctl rewrites the reserved list, the memo of the web's reservation stays |
| `system_lost_reservation` (violation) | `OnlyOwnReservation`: the second call of reserve/release changes only the requested ID (`ExternalSpec`) | violated: rasctl reserves ID 1 between `get_reserved_ids` and `reserve_scsi_ids` of a web reserve of ID 0; the web writes back {0} |
| `system_shutdown_answered` (violation) | `ShutdownAnswered`: restart/shutdown answer success only when the backend took the request | violated: the result of `shutdown_pi` is dropped |
| `devices_converted_image` (violation) | `ConvertedImageReported` (spec §4.2 step 3) | violated: `download_to_iso` drops "saved as" when the attach fails |

Each property of a passing run has a mutant in `PROJECT.json` that the run
catches. Examples: a failed sidecar step reported as success, or with
Bootstrap's "danger" category; `reserve_id` storing the memo
before the backend answered; `config_load` with its two answers swapped;
`extract_image` reporting the extraction after the moves (breaks the
refinement); `detect_locale` at boot taking the Accept-Language match
instead of the stored language.

### Bounds

- `files`: 2 browsers with different Accept-Language, 2 languages, 2 image
  names, auth on. Two browsers are the least that lets one log in while the
  other does not, and lets the two sessions disagree on the locale. Two
  names are the least for a rename or copy between distinct images.
- `devices_*` violation runs: 1 browser (logged in or out), 1 language,
  2 images, SCSI IDs {0, 1}, memos {"", "memo"}.
- `system`: 1 browser, 2 languages (its Accept-Language is `en`, so a
  change to `de` followed by a reboot is the case `LanguageSticky` is
  about), **1** image, SCSI IDs {0, 1}, memos
  {"", "memo"}. Two IDs allow one to be occupied while the other is
  reserved. One config name (the default, so a saved config is also
  the one read at boot), log levels {info, debug}. With 2 images the run
  takes more than 3 minutes. Two-image questions (rename/copy, stale
  sidecars) belong to `files`. One image is enough for a config to name
  an image that was deleted later. `MCView` leaves `resp` out of the state
  fingerprint. No action reads `resp`, and every property judges the
  answer of the step it looks at (`resp'`). Action properties are checked
  on every transition, also on one that leads to a state already seen.
- Pages in `system`: app names {rascsi, ls}, one allowed and one not, and
  `WebToken = FALSE`, so that `index` can be both refused and rendered
  (the backend's token setting is a choice at each request).
- Nothing is counted, so no counter needs a cap. Every run explores its
  whole state graph.
- Deadlock is checked. Every route has an error path, so some request is
  always possible. In `WebSystem`, a halted Pi can always be powered on
  again, and a route waiting between its two calls can always finish.

### Fairness

There is none, and no liveness property is checked. The refinement is
checked as a safety property too, because the abstract spec has no
fairness. Every action is a request that a browser may never send, a
restart that may never come, or another backend client that may never act.
The code gives no guarantee for any of them. Weak fairness on such an
action would assume the user keeps clicking. The one step the server takes
on its own is the rest of a reserve/release route (`ReservationRest`).
Fairness on it would be justified, but it makes a liveness property
trivial: the step is always enabled while `pending` is set, and it always
clears `pending`. No bug in the route's code could break such a property;
only a power cut could, and `Reboot` clears `pending` too. The route's
failures are all safety failures, and the safety runs catch them.

## 4. Not modelled (yet), and why

- The JSON/HTML envelope, templates and status codes. They are
  presentation.
- The `flash()` queue. HTML answers queue their messages in the session
  cookie. The only code that takes them out is `get_flashed_messages` in
  the Jinja templates, and the templates are not in this repository. A
  model of when messages are shown would be invented, not translated.
- What the read-only pages render. Their actions keep only how each one
  ends.
- Path traversal through `show_diskinfo` (web.py:449): a `../` name makes
  `disktype` read any file. The model's names are images, so no run covers
  it; it is listed as a hazard.
- Deleting or renaming an image that is attached to a device. web.py does
  not look at the device table before it does either; whether rascsi
  refuses is outside this repository. It is listed as a hazard.
- CLI and start-up: argument parsing, logging set-up and the drive
  catalogue. The default-config load is modelled in `Boot`.
- A forged session cookie. The secret key is a literal in the source
  (web.py:1109), so anyone can sign a cookie with a username in it. Modelling
  an attacker who sets the flag would only restate that; it is listed as a
  hazard.
- A threaded server. bjoern is single-threaded, so checks such as
  `is_file()` followed by an action are atomic here.
- `change_language` with a missing or unknown locale. The route stores the
  locale in the session and in the backend objects before `Locale.parse`
  raises (web.py:1086-1091). What the backend then does with a `None` or
  unknown locale is decided in `ractl_cmds`, outside this repository.
  The model offers only the UI's languages; the case is listed as a hazard.
- A missing `unit` field is modelled as a raise (`~unit`). The LUN itself
  is not: a device sits at a SCSI ID, as if at LUN 0.

## 5. Plan for the next sittings

1. **Flash queue**: only if the templates become part of the repository
   (see section 4).
2. **Half-loaded configs**: if `read_config` gets a faithful multi-call
   model (detach_all, reserve, attach per device), check
   `ErrorAnswerChangesNoDevice` for `config_load` and at boot.
3. **More of the orchestrator**: add `attach_image` and `download_to_iso`
   to the refinement. This needs a plan with advisory warnings and more
   than one message per failed step. The mapping from the step log would
   then need the message keys, not only the categories.
4. **Two browsers in `WebSystem`** with a symmetry set, so that
   `LanguageSticky` also covers `detect_locale` run for another browser
   after a reboot. This needs a faster state space.
