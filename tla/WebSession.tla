----------------------------- MODULE WebSession -----------------------------
(***************************************************************************)
(* The cross-cutting layer of web.py that every route goes through:        *)
(*   - the Flask session of each browser (logged-in user, language),       *)
(*   - the process-global locale handed to the backend command objects     *)
(*     (ractl_cmd.locale / file_cmd.locale),                               *)
(*   - the login_required gate,                                            *)
(*   - get_locale, and response() which turns (error, message) into the    *)
(*     status and the ordered list of (text, category) messages.           *)
(*                                                                         *)
(* The web server (bjoern) runs one request at a time, so each route is    *)
(* one atomic action; requests of different browsers interleave.           *)
(* resp records what the last request answered, so that properties can    *)
(* relate a request's effects to its answer.                               *)
(***************************************************************************)
EXTENDS Naturals, Sequences

CONSTANTS
    Clients,      \* browsers, each with its own session cookie
    Langs,        \* LANGUAGES the UI is translated to
    Accept,       \* [Clients -> Langs]: best_match of each browser's Accept-Language
    AuthActive,   \* auth_active(AUTH_GROUP)["status"]: the group exists on the host
    NoLang        \* "language" not in session

ASSUME Accept \in [Clients -> Langs] /\ AuthActive \in BOOLEAN /\ NoLang \notin Langs

VARIABLES
    session,        \* [Clients -> [user: BOOLEAN, lang: Langs \cup {NoLang}]]
    backendLocale,  \* ractl_cmd.locale = file_cmd.locale, one per process
    resp            \* the answer of the last request

sessionVars == <<session, backendLocale, resp>>

Categories == {"success", "warning", "error"}

\* A message: an abstract text, its category and the language it is in.
Msg(k, cat, l) == [k |-> k, cat |-> cat, lang |-> l]

\* The answers a request can get; Args are the values its parameters take.
Responses(Args) ==
    [client: Clients, op: STRING, args: Seq(Args),
     status: {"success", "error", "crash"},
     msgs: Seq([k: STRING, cat: Categories, lang: Langs])]

SessionTypeOK ==
    /\ session \in [Clients -> [user: BOOLEAN, lang: Langs \cup {NoLang}]]
    /\ backendLocale \in Langs

-----------------------------------------------------------------------------
(* get_locale: the language stored in the session, else the best match of *)
(* the browser's Accept-Language header (or "en").                         *)
get_locale(c) ==
    IF session[c].lang # NoLang THEN session[c].lang ELSE Accept[c]

(* response(): status is "error" iff error; a single message gets the      *)
(* status as its category, a list of (text, category) is kept as given.    *)
response(c, op, args, error, messages) ==
    resp' = [client |-> c, op |-> op, args |-> args,
             status |-> IF error THEN "error" ELSE "success",
             msgs |-> messages]

\* response(message=m): one message whose category is the status.
respond1(c, op, args, error, k, l) ==
    response(c, op, args, error,
             <<Msg(k, IF error THEN "error" ELSE "success", l)>>)

\* An exception escapes the route: Flask answers 500 with no envelope.
crash(c, op, args) ==
    resp' = [client |-> c, op |-> op, args |-> args, status |-> "crash",
             msgs |-> <<>>]

(* login_required: the route body runs only when authentication is off    *)
(* or this session carries a username.                                     *)
Authorized(c) == ~AuthActive \/ session[c].user

\* The gate's refusal: response(error=True, message=auth["msg"]).
Deny(c, op, args) ==
    /\ respond1(c, op, args, TRUE, "AuthRequired", get_locale(c))
    /\ UNCHANGED <<session, backendLocale>>

-----------------------------------------------------------------------------
(* detect_locale (before_first_request) has run for the process's first   *)
(* request: that browser's session holds its language and the backend     *)
(* objects were given it.  Every other session is empty.                   *)
SessionInit ==
    \E c0 \in Clients:
        /\ session = [c \in Clients |->
                        [user |-> FALSE,
                         lang |-> IF c = c0 THEN Accept[c0] ELSE NoLang]]
        /\ backendLocale = Accept[c0]
        /\ resp = [client |-> c0, op |-> "detect_locale", args |-> <<>>,
                   status |-> "success", msgs |-> <<>>]

(* login: a member of AUTH_GROUP (so only when the group exists) with a   *)
(* valid password gets a username in its session; any caller may give bad *)
(* credentials, which leaves an earlier login in place.                    *)
login(c) ==
    /\ \/ /\ AuthActive
          /\ session' = [session EXCEPT ![c].user = TRUE]
          /\ response(c, "login", <<>>, FALSE, <<>>)
       \/ /\ respond1(c, "login", <<>>, TRUE, "LoginFailed", get_locale(c))
          /\ UNCHANGED session
    /\ UNCHANGED backendLocale

\* logout: session.pop("username").
logout(c) ==
    /\ session' = [session EXCEPT ![c].user = FALSE]
    /\ response(c, "logout", <<>>, FALSE, <<>>)
    /\ UNCHANGED backendLocale

(* change_language: not gated; stores the language in this session and    *)
(* hands it to the process-global backend command objects.                 *)
change_language(c, l) ==
    /\ session' = [session EXCEPT ![c].lang = l]
    /\ backendLocale' = l
    /\ respond1(c, "change_language", <<>>, FALSE, "LanguageChanged", l)

SessionNext ==
    \E c \in Clients:
        \/ login(c)
        \/ logout(c)
        \/ \E l \in Langs: change_language(c, l)
=============================================================================
