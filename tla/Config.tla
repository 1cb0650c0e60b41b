------------------------------- MODULE Config -------------------------------
(***************************************************************************)
(* How the daemon's configuration is put together (Load and its helpers in *)
(* internals/config/config.go): built-in defaults, then agent.yml, then    *)
(* the command line, then the environment, then defaults for what is zero, *)
(* then the WebSocket URL derived from the API URL.                        *)
(*                                                                         *)
(* A source gives every key a value or leaves it Unset. The empty string   *)
(* is Unset in every source (no code tells them apart); zero and negative  *)
(* numbers are values. A session token is a positive number, a             *)
(* registration token a model value, which is what the prefix of a --token *)
(* tells. A URL is [scheme, host, path], the path a sequence of segments.  *)
(* Keys nothing reads (log_dir, socket_path, log_level) are left out;      *)
(* agent_id and server_id travel with the session.                         *)
(***************************************************************************)
EXTENDS Integers, Sequences, SequencesExt

CONSTANT Unset   \* a key that a source does not give

IntKeys == {"poll", "heartbeat", "update"}
Keys == IntKeys \cup {"session", "token", "api", "ws", "db", "dataDir", "auto"}

Nothing == [k \in Keys |-> Unset]

\* A database path: the directory and the file in it.
AgentDB(dir) == <<dir, "agent.db">>
EkiliedDB(dir) == <<dir, "ekilied.db">>

Defaults ==
    [Nothing EXCEPT !.poll = 5, !.heartbeat = 30, !.update = 86400, !.auto = TRUE,
                    !.db = AgentDB("opt"), !.dataDir = "opt"]

\* The layers, key by key: what key k is after the layer when it was v before it.

\* applyYAML: every key the file has, zero or not.
ApplyYAML(k, v, file) == IF file[k] # Unset THEN file[k] ELSE v

\* WithFlags: numbers only when positive; --data-dir moves the database unless --db-path is there.
WithFlags(k, v, flags) ==
    IF k = "db" /\ flags.db = Unset /\ flags.dataDir # Unset THEN EkiliedDB(flags.dataDir)
    ELSE IF flags[k] # Unset /\ (k \in IntKeys => flags[k] > 0) THEN flags[k] ELSE v

\* applyEnvOverrides: any number that parses; EKILIED_DATA_DIR moves the database, to another file
\* name, unless EKILIED_DB_PATH is there (--db-path does not count).
ApplyEnvOverrides(k, v, env) ==
    IF k = "db" /\ env.db = Unset /\ env.dataDir # Unset THEN AgentDB(env.dataDir)
    ELSE IF env[k] # Unset THEN env[k] ELSE v

\* SetDefaults: only what is zero or empty. A negative interval stays.
SetDefaults(k, v) == IF v = Unset \/ (k \in IntKeys /\ v = 0) THEN Defaults[k] ELSE v

\* deriveWsURL: the agent's endpoint under the API URL's host, once.
Endpoint == <<"api", "v1", "agents", "ws">>
Invalid == [scheme |-> "", host |-> "", path |-> <<>>]
DeriveWsURL(api) ==
    LET scheme == [https |-> "wss", http |-> "ws", wss |-> "wss", ws |-> "ws"]
        given == IF api.scheme = "" THEN "https" ELSE api.scheme
        path == IF IsSuffix(<<"">>, api.path) THEN Front(api.path) ELSE api.path  \* trailing slash
    IN  IF api.host = "" \/ given \notin DOMAIN scheme THEN Invalid
        ELSE [scheme |-> scheme[given], host |-> api.host,
              path |-> IF IsSuffix(Endpoint, path) THEN path
                       ELSE IF IsSuffix(<<"api", "v1">>, path) THEN path \o <<"agents", "ws">>
                       ELSE path \o Endpoint]

HasSession(cfg) == cfg.session # Unset
NeedsRegistration(cfg) == cfg.token # Unset /\ ~HasSession(cfg)

WithWsURL(cfg) ==
    IF cfg.ws = Unset /\ cfg.api # Unset THEN [cfg EXCEPT !.ws = DeriveWsURL(cfg.api)] ELSE cfg

\* A variant with one plausible bug: the command line is applied after the environment.
LayeredFlagsLast(file, flags, env) ==
    WithWsURL([k \in Keys |->
        SetDefaults(k, WithFlags(k, ApplyEnvOverrides(k,
            ApplyYAML(k, Defaults[k], file), env), flags))])

\* Load before its checks, and what makes them fail.
Layered(file, flags, env) ==
    WithWsURL([k \in Keys |->
        SetDefaults(k, ApplyEnvOverrides(k, WithFlags(k,
            ApplyYAML(k, Defaults[k], file), flags), env))])

LoadFails(cfg) == cfg.ws = Invalid \/ (cfg.api = Unset /\ ~HasSession(cfg))

\* SaveSession: the credential lines of the file are replaced or appended, every other key stays.
SaveSession(file, session) == [file EXCEPT !.session = session]

\* MarshalSetup: the whole file that --setup writes.
MarshalSetup(session, api, ws, poll) ==
    [Nothing EXCEPT !.session = session, !.api = api, !.ws = ws, !.poll = poll]
=============================================================================
