----------------------------- MODULE AccessGate -----------------------------
(***************************************************************************)
(* Who may do what at the localhost API: the two middlewares of            *)
(* src-tauri/src/server/auth.rs as operators on a request, and the order   *)
(* server/mod.rs wraps them in (cors around require_token around the       *)
(* handler).                                                               *)
(*                                                                         *)
(* A request is a record of what the middlewares look at.  A header's text *)
(* is abstracted to the parts its parsing tells apart.                     *)
(***************************************************************************)
EXTENDS FiniteSets

CONSTANTS
    ApiToken,     \* the config's api_token
    OtherTokens   \* what else may be presented as a token

ASSUME TokenAssumption == ApiToken \notin OtherTokens

Absent == [absent |-> TRUE]

\* The routes, by what they do.  "pairId" is /api/pair/{32 hex digits}, "pairOther"
\* any other id; "info" asks a machine, "settings" and "machines" are the calls that
\* change them, "respond" is /api/pairing/respond, "read" every other GET.
Path == {"health", "pair", "pairId", "pairOther", "discover", "settings", "info",
         "machines", "send", "respond", "read"}

\* A Host header, its port left out; "[::1]" is bracketed.
HostName == {"127.0.0.1", "localhost", "::1", "127.0.0.1.elsewhere", "elsewhere"}
Host     == [name : HostName, bracketed : BOOLEAN]

\* An Origin header; port says whether it names one.
Scheme   == {"http", "https", "tauri", "file"}
SiteName == {"localhost", "127.0.0.1", "tauri.localhost", "emberdesign.net",
             "v2.emberdesign.net", "elsewhere"}
Origin   == [scheme : Scheme, site : SiteName, port : BOOLEAN]
Star     == [star |-> TRUE]

\* authorization is what follows "Bearer ", if the header says that.
Request ==
    [path : Path, preflight : BOOLEAN, host : Host \cup {Absent},
     origin : Origin \cup {Absent},
     authorization : {ApiToken, Absent} \cup OtherTokens,
     x_ember_token : {ApiToken, Absent} \cup OtherTokens]

PUBLIC_PATHS  == {"health"}
EMBER_ORIGINS == [scheme : {"https"}, site : {"emberdesign.net", "v2.emberdesign.net"},
                  port : {FALSE}]

-----------------------------------------------------------------------------
token_exempt_prefix(path) ==   \* mutant: path.starts_with("/api/pair")
    path \in PUBLIC_PATHS \cup {"pair", "pairId", "pairOther", "respond"}

token_exempt(path) == path \in PUBLIC_PATHS \cup {"pair", "pairId"}

\* Without brackets the name ends at the first colon, so "::1" is no name.
host_is_loopback(h) ==
    h.name \in {"127.0.0.1", "localhost"} \/ (h.name = "::1" /\ h.bracketed)

LocalHost(r) == r.host = Absent \/ host_is_loopback(r.host)

\* The port only matters to an exact match.
origin_allowed(o, allowlist) ==
    \/ o \in EMBER_ORIGINS
    \/ Star \in allowlist \/ o \in allowlist
    \/ o.scheme \in {"http", "https"}
       /\ o.site \in {"localhost", "127.0.0.1", "tauri.localhost"}
    \/ o = [scheme |-> "tauri", site |-> "localhost", port |-> FALSE]

\* cors: may the page that sent r read the answer?
ReadableIfExempt(r, allowlist) ==   \* mutant: takes token-free for origin-agnostic
    /\ r.origin # Absent
    /\ token_exempt(r.path) \/ origin_allowed(r.origin, allowlist)

Readable(r, allowlist) ==
    /\ r.origin # Absent
    /\ r.path \in PUBLIC_PATHS \/ origin_allowed(r.origin, allowlist)

\* The Authorization header goes before x-ember-token, even when it is wrong.
Presented(r) == IF r.authorization # Absent THEN r.authorization ELSE r.x_ember_token

Admitted(r) == token_exempt(r.path) \/ Presented(r) = ApiToken

\* update_settings: every entry must be "*" or have a web scheme.
ValidOrigins(origins) ==
    \A o \in origins : o = Star \/ o.scheme \in {"http", "https", "tauri"}
=============================================================================
