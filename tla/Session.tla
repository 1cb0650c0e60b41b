------------------------------- MODULE Session ------------------------------
(***************************************************************************)
(* Booting, registering and keeping a session (cmd/ekilied/main.go,        *)
(* RegisterAndSave and Start in internals/agent/agent.go, Register in      *)
(* internals/agent/websocket.go). Two processes: the daemon, which its     *)
(* service manager starts again whenever it ends, and `ekilied --setup`,   *)
(* run by an operator at any time. They share agent.yml; the identity row  *)
(* in the SQLite database is the daemon's. A crash loses what is in        *)
(* memory, which is the configuration cfg, and nothing else.               *)
(*                                                                         *)
(* The control plane is external: a registration token works once, and a   *)
(* session is the number of its issue. The calls that make up one          *)
(* transaction, or one replacement of agent.yml by a rename, are one step; *)
(* setup writes in place, which is two: the file is empty in between.      *)
(***************************************************************************)
EXTENDS Config

CONSTANTS
    Tokens,              \* registration tokens
    Files, Flags, Envs,  \* what agent.yml, the command line and the environment may hold
    SetupURL,            \* --api-url of a setup
    Told,                \* what registration responses set: [poll, ws], 0 and Unset for none
    MaxCrashes,          \* bound: crashes, failed writes and lost answers
    MaxSetups,           \* bound: runs of setup
    MaxRotations         \* bound: token_rotated messages

ASSUME SessionAssumption ==
    /\ Unset \notin Tokens /\ \A t \in Told : t.poll \in Nat
    /\ MaxCrashes \in Nat /\ MaxSetups \in Nat /\ MaxRotations \in Nat

ASSUME SourcesAssumption ==
    /\ Unset \notin Int /\ Unset # Invalid
    /\ \A c \in Files \cup Flags \cup Envs :
           /\ c = [k \in Keys |-> c[k]]
           /\ c.session \in Nat \cup {Unset} /\ c.token \in Tokens \cup {Unset}

\* A WebSocket URL follows from the API URL of a setup, which a request reached, and from any that
\* the daemon's operator passes: with one that gives none, a start would depend on the ws_url that
\* happens to be in agent.yml. (What agent.yml says at first needs no assumption.)
ASSUME URLsAssumption ==
    /\ SetupURL # Unset /\ DeriveWsURL(SetupURL) # Invalid
    /\ \A c \in Flags \cup Envs : c.api # Unset => DeriveWsURL(c.api) # Invalid
    /\ \A x \in Told \cup Flags \cup Envs : x.ws # Invalid

VARIABLES
    flags, env,     \* the daemon's command line and environment, the same at every start
    file,           \* agent.yml
    db,             \* session token of the live identity row, by database path
    burned, issued, \* control plane: used registration tokens, number of sessions issued
    pc, cfg,        \* the daemon: down, loaded, ready, answered, identified, saved, running
    spc, sgot,      \* setup: idle, registered, truncated (it has emptied agent.yml and holds it
                    \*   open), unlinked (the same, and the daemon has put another file in its
                    \*   place); the session it was given
    \* history
    emptied,        \* a setup has emptied agent.yml, or written it without a session, and no
                    \*   session has been written to it since
    replaced,       \* since the daemon loaded or wrote agent.yml a token_rotated, or a setup, has
                    \*   replaced its session
    crashes, setups, rotations

inputs == <<flags, env>>
plane == <<burned, issued>>
daemon == <<pc, cfg>>
setupVars == <<spc, sgot, setups>>
history == <<emptied, replaced>>
vars == <<inputs, file, db, plane, daemon, setupVars, history, crashes, rotations>>

DBPaths ==
    {Defaults.db} \cup {Layered(f, g, v).db : f \in Files, g \in Flags, v \in Envs}

\* Session 1 exists from the start: one that an operator passes by hand or that an earlier setup got.
Init ==
    /\ flags \in Flags /\ env \in Envs /\ file \in Files
    /\ db = [p \in DBPaths |-> Unset]
    /\ burned = {} /\ issued = 1
    /\ pc = "down" /\ cfg = Nothing
    /\ spc = "idle" /\ sgot = Unset
    /\ emptied = FALSE /\ replaced = FALSE
    /\ crashes = 0 /\ setups = 0 /\ rotations = 0

Down == pc' = "down" /\ cfg' = Nothing

\* The tickers of heartbeatLoop and updateCheckLoop panic unless their interval is positive.
TickersStart(c) == c.heartbeat > 0 /\ (c.auto => c.update > 0)

\* A file renamed over agent.yml takes it away from a setup that holds it open.
Unlink == spc' = IF spc = "truncated" THEN "unlinked" ELSE spc

-----------------------------------------------------------------------------
(* Variants with one plausible bug each, used to show that the properties can fail. *)

\* The database is not asked when a registration token is there.
RestoredWithoutToken(c) ==
    IF ~HasSession(c) /\ c.token = Unset /\ db[c.db] # Unset
    THEN [c EXCEPT !.session = db[c.db]] ELSE c

\* The answer is used without being saved.
RegisterUnsaved ==
    /\ pc = "ready" /\ NeedsRegistration(cfg) /\ cfg.token \notin burned
    /\ burned' = burned \cup {cfg.token} /\ issued' = issued + 1
    /\ pc' = "saved" /\ cfg' = [cfg EXCEPT !.session = issued + 1]
    /\ UNCHANGED <<inputs, file, db, setupVars, history, crashes, rotations>>

\* SaveSession does not look at what it is given.
WriteBackUnchecked ==
    /\ pc = "identified" /\ pc' = "saved" /\ file' = SaveSession(file, cfg.session)
    /\ emptied' = FALSE /\ replaced' = FALSE /\ Unlink
    /\ UNCHANGED <<inputs, db, plane, cfg, sgot, setups, crashes, rotations>>

-----------------------------------------------------------------------------
(* The daemon: main. *)

\* What restoreSessionFromDB makes of a loaded configuration. It runs only without a session.
Restored(c) ==
    IF ~HasSession(c) /\ db[c.db] # Unset THEN [c EXCEPT !.session = db[c.db]] ELSE c

\* config.Load, then the database is opened. When Load fails the process exits, to be started again.
Boot ==
    /\ pc = "down"
    /\ cfg' \in {Layered(file, flags, env)} /\ ~LoadFails(cfg')
    /\ pc' = "loaded" /\ replaced' = FALSE
    /\ UNCHANGED <<inputs, file, db, plane, setupVars, emptied, crashes, rotations>>

RestoreSession ==
    /\ pc = "loaded" /\ pc' = "ready" /\ cfg' = Restored(cfg)
    /\ UNCHANGED <<inputs, file, db, plane, setupVars, history, crashes, rotations>>

\* POST /agents/register is answered: with a session, or, since the code looks no further than the
\* status, without one. The poll interval and WebSocket URL it sets count until the next start.
Register ==
    /\ pc = "ready" /\ NeedsRegistration(cfg) /\ cfg.token \notin burned
    /\ burned' = burned \cup {cfg.token} /\ issued' = issued + 1
    /\ pc' = "answered"
    /\ \E s \in {issued + 1, Unset}, t \in Told :
           cfg' = [cfg EXCEPT !.session = s, !.poll = IF t.poll > 0 THEN t.poll ELSE @,
                              !.ws = IF t.ws # Unset THEN t.ws ELSE @]
    /\ UNCHANGED <<inputs, file, db, setupVars, history, crashes, rotations>>

\* The control plane took the token, the answer never came: fatal.
RegisterLost ==
    /\ pc = "ready" /\ NeedsRegistration(cfg) /\ cfg.token \notin burned
    /\ crashes < MaxCrashes /\ crashes' = crashes + 1
    /\ burned' = burned \cup {cfg.token} /\ issued' = issued + 1
    /\ Down
    /\ UNCHANGED <<inputs, file, db, setupVars, history, rotations>>

\* The token is refused, or the control plane cannot be reached: fatal.
RegisterFails ==
    /\ pc = "ready" /\ NeedsRegistration(cfg)
    /\ Down
    /\ UNCHANGED <<inputs, file, db, plane, setupVars, history, crashes, rotations>>

\* saveIdentity: one transaction takes the place of every live row.
SaveIdentity ==
    /\ pc = "answered" /\ pc' = "identified"
    /\ db' = [db EXCEPT ![cfg.db] = cfg.session]
    /\ UNCHANGED <<inputs, file, plane, cfg, setupVars, history, crashes, rotations>>

\* SaveSession: a temporary file renamed over agent.yml. It refuses an empty token, which is fatal.
WriteBack ==
    /\ pc = "identified"
    /\ IF HasSession(cfg)
         THEN /\ file' = SaveSession(file, cfg.session) /\ Unlink
              /\ emptied' = FALSE /\ replaced' = FALSE
              /\ pc' = "saved" /\ UNCHANGED cfg
         ELSE Down /\ UNCHANGED <<file, spc, history>>
    /\ UNCHANGED <<inputs, db, plane, sgot, setups, crashes, rotations>>

\* Start: the loops run; a ticker that panics takes the process with it.
Start ==
    /\ pc = "saved" \/ (pc = "ready" /\ ~NeedsRegistration(cfg))
    /\ IF TickersStart(cfg) THEN pc' = "running" /\ UNCHANGED cfg ELSE Down
    /\ UNCHANGED <<inputs, file, db, plane, setupVars, history, crashes, rotations>>

\* token_rotated: in memory only.
Rotate ==
    /\ pc = "running" /\ HasSession(cfg) /\ rotations < MaxRotations
    /\ rotations' = rotations + 1 /\ issued' = issued + 1
    /\ cfg' = [cfg EXCEPT !.session = issued + 1] /\ replaced' = TRUE
    /\ UNCHANGED <<inputs, file, db, burned, pc, setupVars, emptied, crashes>>

\* A crash, a stop, or a write that fails, which is fatal.
Crash ==
    /\ pc # "down" /\ crashes < MaxCrashes /\ crashes' = crashes + 1
    /\ Down
    /\ UNCHANGED <<inputs, file, db, plane, setupVars, history, rotations>>

-----------------------------------------------------------------------------
(* ekilied --setup: runSetup. Its token comes from its own command line. *)

\* The same Register: the answer may be without a session here too.
SetupRegister(t) ==
    /\ spc = "idle" /\ setups < MaxSetups /\ t \notin burned
    /\ setups' = setups + 1
    /\ burned' = burned \cup {t} /\ issued' = issued + 1
    /\ spc' = "registered" /\ sgot' \in {issued + 1, Unset}
    /\ UNCHANGED <<inputs, file, db, daemon, history, crashes, rotations>>

\* os.WriteFile opens agent.yml and empties it.
SetupTruncate ==
    /\ spc = "registered" /\ spc' = "truncated"
    /\ file' = Nothing /\ emptied' = TRUE
    /\ UNCHANGED <<inputs, db, plane, daemon, sgot, setups, replaced, crashes, rotations>>

\* Then it writes a file made from nothing, whatever the answer was: nobody looks at the session
\* as SaveSession does. The database is left as it is.
SetupWrite ==
    /\ spc \in {"truncated", "unlinked"} /\ spc' = "idle" /\ sgot' = Unset
    /\ IF spc = "truncated"
         THEN /\ \E t \in Told :
                     LET poll == IF t.poll > 0 THEN t.poll ELSE Defaults.poll
                     IN  file' = MarshalSetup(sgot, SetupURL, t.ws, poll)
              /\ emptied' = (sgot = Unset) /\ replaced' = TRUE
         ELSE UNCHANGED <<file, history>>
    /\ UNCHANGED <<inputs, db, plane, daemon, setups, crashes, rotations>>

\* It ends before it opens the file, its answer is lost, or it ends before it writes.
SetupEnds ==
    /\ spc # "idle" /\ spc' = "idle" /\ sgot' = Unset
    /\ UNCHANGED <<inputs, file, db, plane, daemon, setups, history, crashes, rotations>>

-----------------------------------------------------------------------------
Boots == Boot \/ RestoreSession \/ SaveIdentity \/ WriteBack \/ Start

Next ==
    \/ Boots \/ Register \/ RegisterLost \/ RegisterFails \/ Rotate \/ Crash
    \/ \E t \in Tokens : SetupRegister(t)
    \/ SetupTruncate \/ SetupWrite \/ SetupEnds

Spec == Init /\ [][Next]_vars

\* The unit has Restart=always, a started process runs on, and a registration request ends within the
\* client's 30 seconds. Nothing makes it succeed, and nothing makes an operator run setup.
LiveSpec == Spec /\ WF_vars(Boots) /\ WF_vars(Register \/ RegisterFails)

-----------------------------------------------------------------------------
(* Properties. *)

Sessions == Nat \cup {Unset}

TypeOK ==
    /\ flags \in Flags /\ env \in Envs
    /\ DOMAIN file = Keys /\ DOMAIN cfg = Keys
    /\ file.session \in Sessions /\ cfg.session \in Sessions
    /\ \A p \in DOMAIN db : db[p] \in Sessions
    /\ burned \subseteq Tokens /\ issued \in Nat
    /\ pc \in {"down", "loaded", "ready", "answered", "identified", "saved", "running"}
    /\ pc = "saved" => HasSession(cfg)
    /\ spc \in {"idle", "registered", "truncated", "unlinked"} /\ sgot \in Sessions
    /\ emptied \in BOOLEAN /\ replaced \in BOOLEAN

\* What the next start would go on with.
Recovered == Restored(Layered(file, flags, env))

\* README "Configuration": later sources override earlier ones, an agent.yml or a variable that says
\* zero means the default, and a flag counts as given only with a positive number. Left out are
\* update_check_interval, whose flag has a default and so hides the file's value, and the keys
\* derived from others (ws, db).
LayersInOrder ==
    LET loaded == Layered(file, flags, env)
        sources == <<file, flags, env>>
        value(k) == LET given == {i \in 1 .. 3 : /\ sources[i][k] # Unset
                                                 /\ k \in IntKeys /\ i = 2 => sources[i][k] > 0}
                    IN  IF given = {} THEN Defaults[k]
                        ELSE sources[CHOOSE i \in given : \A j \in given : j <= i][k]
    IN  \A k \in Keys \ {"update", "db", "ws"} :
            loaded[k] = IF k \in IntKeys /\ value(k) = 0 THEN Defaults[k] ELSE value(k)

\* A daemon that runs with a session can crash: the next start finds a session in agent.yml or in
\* the database, whatever way this one came by its own, and the same one unless a rotation, which
\* is kept in memory only, or a setup has replaced it meanwhile. It may find none after a setup
\* that emptied agent.yml and was cut short, or was answered without a session, which SaveSession
\* refuses and runSetup does not: the session that only the file had is gone then.
SurvivesCrash ==
    (pc = "running" /\ HasSession(cfg) /\ ~emptied) =>
        /\ ~LoadFails(Layered(file, flags, env)) /\ HasSession(Recovered)
        /\ replaced \/ Recovered.session = cfg.session

\* An identity is saved: the daemon's registration is in the database, or it is about to start
\* with a session in agent.yml.
Stored == (HasSession(cfg) /\ pc = "identified") \/ (HasSession(file) /\ pc = "down")

\* A start that cannot go on with what is saved: an interval stops it, or it loaded agent.yml while
\* that was emptied, and nothing else has a session.
Hindered == pc = "loaded" /\ (~TickersStart(cfg) \/ (emptied /\ ~HasSession(Restored(cfg))))

\* README "Session lifecycle": a saved identity is resumed instead of a re-registration, which the
\* used token would doom. After finitely many crashes, once an identity is saved, the daemon ends
\* up running with a session, unless a start is hindered or agent.yml is left empty for good.
StoredIsResumed ==
    [](Stored => <>((HasSession(cfg) /\ pc = "running") \/ Hindered) \/ <>[]emptied)
=============================================================================
