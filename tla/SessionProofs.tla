----------------------------- MODULE SessionProofs -----------------------------
(***************************************************************************)
(* Theorems about Session, for any tokens, files, command lines,           *)
(* environments, crashes, setups and rotations. The argument for           *)
(* SurvivesCrash: a session that the daemon goes on with is in a source,   *)
(* or in the database under the path that the sources give, unless a setup *)
(* has emptied agent.yml (Resumable); and it is the one that the next      *)
(* start would take from there, for one that registers has none in its     *)
(* command line or environment to hide the new one (SameSession).          *)
(***************************************************************************)
EXTENDS Session, SequenceTheorems, TLAPS

\* What the sources make of agent.yml, as it is now.
Loaded == Layered(file, flags, env)

Pcs == {"down", "loaded", "ready", "answered", "identified", "saved", "running"}
Typed ==
    /\ flags \in Flags /\ env \in Envs
    /\ file = [k \in Keys |-> file[k]] /\ cfg = [k \in Keys |-> cfg[k]]
    /\ file.session \in Sessions /\ cfg.session \in Sessions
    /\ {file.token, cfg.token} \subseteq Tokens \cup {Unset}
    /\ db = [p \in DBPaths |-> db[p]] /\ \A p \in DBPaths : db[p] \in Sessions
    /\ burned \subseteq Tokens /\ issued \in Nat
    /\ pc \in Pcs /\ (pc = "saved" => HasSession(cfg))
    /\ spc \in {"idle", "registered", "truncated", "unlinked"} /\ sgot \in Sessions
    /\ emptied \in BOOLEAN /\ replaced \in BOOLEAN

\* No file but an operator's names a database.
PathsKnown ==
    /\ Files # {} /\ (file.db = Unset \/ \E f \in Files : f.db = file.db)
    /\ pc # "down" => cfg.db \in DBPaths

\* What a setup leaves has a usable URL or none.
EmptiedFile ==
    emptied => file.ws # Invalid /\ (file.api # Unset => DeriveWsURL(file.api) # Invalid)

\* Unless a setup has emptied the file, what the daemon holds could be found again: before the
\* database is asked nothing but the sources counts, and afterwards a session is in them or in the
\* database.
Resumable ==
    pc # "down" /\ ~emptied =>
        /\ ~LoadFails(Loaded)
        /\ pc = "loaded" => HasSession(Loaded) \/ (Loaded.db = cfg.db /\ ~HasSession(cfg))
        /\ pc \in {"ready", "saved", "running"} /\ HasSession(cfg) =>
               HasSession(Loaded) \/ db[Loaded.db] # Unset

\* Who registers has no session in its command line or environment; and what the daemon loaded is
\* what the next start would find, as long as nothing has replaced it.
SameSession ==
    /\ pc \in {"answered", "identified"} \/ (pc \in {"loaded", "ready"} /\ ~HasSession(cfg)) =>
           flags.session = Unset /\ env.session = Unset
    /\ ~emptied /\ ~replaced =>
           /\ pc = "loaded" => cfg.session = Loaded.session /\ cfg.db = Loaded.db
           /\ pc \in {"ready", "saved", "running"} /\ HasSession(cfg) =>
                  cfg.session = Recovered.session

IInv == Typed /\ PathsKnown /\ EmptiedFile /\ Resumable /\ SameSession

-----------------------------------------------------------------------------
(* What Layered computes. *)

Base(f, g, v) ==
    [k \in Keys |-> SetDefaults(k, ApplyEnvOverrides(k, WithFlags(k, ApplyYAML(k, Defaults[k], f), g), v))]

LEMMA LayeredIsBase ==
  ASSUME NEW f, NEW g, NEW v
  PROVE  /\ Layered(f, g, v) = [k \in Keys |-> Layered(f, g, v)[k]]
         /\ \A k \in Keys \ {"ws"} : Layered(f, g, v)[k] = Base(f, g, v)[k]
         /\ Layered(f, g, v).ws = IF Base(f, g, v).ws = Unset /\ Base(f, g, v).api # Unset
                                  THEN DeriveWsURL(Base(f, g, v).api) ELSE Base(f, g, v).ws
<1> DEFINE b == Base(f, g, v)
<1>1. b = [k \in Keys |-> b[k]]
  BY DEF Base
<1>2. Layered(f, g, v) = WithWsURL(b)
  BY DEF Layered, Base
<1>3. "ws" \in Keys
  BY DEF Keys
<1> HIDE DEF b
<1>4. /\ WithWsURL(b) = [k \in Keys |-> WithWsURL(b)[k]]
      /\ \A k \in Keys \ {"ws"} : WithWsURL(b)[k] = b[k]
      /\ WithWsURL(b).ws = IF b.ws = Unset /\ b.api # Unset THEN DeriveWsURL(b.api) ELSE b.ws
  BY <1>1, <1>3 DEF WithWsURL
<1>5. QED
  BY <1>2, <1>4 DEF b

\* The value of a key that is neither a number nor the database.
LEMMA BaseValue ==
  ASSUME NEW f, NEW g, NEW v, NEW k \in Keys \ (IntKeys \cup {"db"})
  PROVE  Base(f, g, v)[k] = IF v[k] # Unset THEN v[k] ELSE IF g[k] # Unset THEN g[k]
                            ELSE IF f[k] # Unset THEN f[k] ELSE Defaults[k]
BY DEF Base, SetDefaults, ApplyEnvOverrides, WithFlags, ApplyYAML

LEMMA DefaultsUnset == 
  /\ Defaults.session = Unset /\ Defaults.token = Unset
  /\ Defaults.api = Unset /\ Defaults.ws = Unset
BY DEF Defaults, Nothing, Keys, IntKeys

LEMMA NothingUnset == Nothing = [k \in Keys |-> Nothing[k]] /\ \A k \in Keys : Nothing[k] = Unset
BY DEF Nothing

LEMMA LayeredSession ==
  ASSUME NEW f, NEW g, NEW v
  PROVE  HasSession(Layered(f, g, v)) <=> f.session # Unset \/ g.session # Unset \/ v.session # Unset
<1>1. Layered(f, g, v).session = Base(f, g, v).session
  BY LayeredIsBase DEF Keys
<1>2. "session" \in Keys \ (IntKeys \cup {"db"})
  BY DEF Keys, IntKeys
<1>3. QED
  BY <1>1, <1>2, BaseValue, DefaultsUnset DEF HasSession

LEMMA LayeredSessionValue ==
  ASSUME NEW f, NEW g, NEW v, f.session # Unset, g.session = Unset, v.session = Unset
  PROVE  Layered(f, g, v).session = f.session
<1>1. Layered(f, g, v).session = Base(f, g, v).session
  BY LayeredIsBase DEF Keys
<1>2. "session" \in Keys \ (IntKeys \cup {"db"})
  BY DEF Keys, IntKeys
<1>3. QED
  BY <1>1, <1>2, BaseValue

LEMMA LayeredAPI ==
  ASSUME NEW f, NEW g, NEW v
  PROVE  Layered(f, g, v).api = Unset <=> f.api = Unset /\ g.api = Unset /\ v.api = Unset
<1>1. Layered(f, g, v).api = Base(f, g, v).api
  BY LayeredIsBase DEF Keys
<1>2. "api" \in Keys \ (IntKeys \cup {"db"})
  BY DEF Keys, IntKeys
<1>3. QED
  BY <1>1, <1>2, BaseValue, DefaultsUnset

\* Usable URLs make a usable URL.
LEMMA LayeredWs ==
  ASSUME NEW f, NEW g \in Flags, NEW v \in Envs,
         f.ws # Invalid, f.api # Unset => DeriveWsURL(f.api) # Invalid
  PROVE  Layered(f, g, v).ws # Invalid
<1> DEFINE b == Base(f, g, v)
<1>1. /\ b.ws = IF v.ws # Unset THEN v.ws ELSE IF g.ws # Unset THEN g.ws
                ELSE IF f.ws # Unset THEN f.ws ELSE Unset
      /\ b.api = IF v.api # Unset THEN v.api ELSE IF g.api # Unset THEN g.api
                 ELSE IF f.api # Unset THEN f.api ELSE Unset
  <2>1. {"ws", "api"} \subseteq Keys \ (IntKeys \cup {"db"})
    BY DEF Keys, IntKeys
  <2> HIDE DEF b
  <2>2. QED
    BY <2>1, BaseValue, DefaultsUnset DEF b
<1> HIDE DEF b
<1>2. b.ws # Invalid /\ (b.api # Unset => DeriveWsURL(b.api) # Invalid)
  BY <1>1, URLsAssumption, SourcesAssumption
<1>3. QED
  BY <1>2, LayeredIsBase DEF b

\* Files that agree on the keys but for the session.
LEMMA LayeredAgrees ==
  ASSUME NEW f, NEW h, NEW g, NEW v, \A k \in Keys \ {"session"} : h[k] = f[k]
  PROVE  \A k \in Keys \ {"session"} : Layered(h, g, v)[k] = Layered(f, g, v)[k]
<1>1. \A k \in Keys \ {"session"} : Base(h, g, v)[k] = Base(f, g, v)[k]
  BY DEF Base, ApplyYAML
<1>2. {"ws", "api"} \subseteq Keys \ {"session"}
  BY DEF Keys
<1>3. QED
  BY <1>1, <1>2, LayeredIsBase

\* The database depends on the file's key for it, if on the file at all.
LEMMA LayeredDB ==
  ASSUME NEW f, NEW h, NEW g, NEW v, h.db = f.db
  PROVE  Layered(h, g, v).db = Layered(f, g, v).db
<1>1. "db" \in Keys \ {"ws"}
  BY DEF Keys
<1>2. Base(h, g, v).db = Base(f, g, v).db
  BY <1>1 DEF Base, ApplyYAML
<1>3. QED
  BY <1>1, <1>2, LayeredIsBase

LEMMA LayeredDBUnset ==
  ASSUME NEW f, NEW h, NEW g, NEW v, h.db = Unset
  PROVE  Layered(h, g, v).db \in {Defaults.db, Layered(f, g, v).db}
<1>1. "db" \in Keys \ {"ws"} /\ "db" \notin IntKeys
  BY DEF Keys, IntKeys
<1>2. Base(h, g, v).db \in {Defaults.db, Base(f, g, v).db}
  BY <1>1 DEF Base, ApplyYAML, WithFlags, ApplyEnvOverrides, SetDefaults
<1>3. QED
  BY <1>1, <1>2, LayeredIsBase

LEMMA LoadedSession ==
  HasSession(Loaded) <=> file.session # Unset \/ flags.session # Unset \/ env.session # Unset
BY LayeredSession DEF Loaded

LEMMA LoadedDBKnown == ASSUME Typed, PathsKnown PROVE Loaded.db \in DBPaths
<1>1. CASE file.db = Unset
  <2>1. PICK f \in Files : TRUE
    BY DEF PathsKnown
  <2>2. Loaded.db \in {Defaults.db, Layered(f, flags, env).db}
    BY <1>1, LayeredDBUnset DEF Loaded
  <2>3. QED
    BY <2>2 DEF Typed, DBPaths
<1>2. ASSUME NEW f \in Files, f.db = file.db PROVE Loaded.db \in DBPaths
  <2>1. Loaded.db = Layered(f, flags, env).db
    BY <1>2, LayeredDB DEF Loaded
  <2>2. QED
    BY <2>1 DEF Typed, DBPaths
<1>3. QED
  BY <1>1, <1>2 DEF PathsKnown

-----------------------------------------------------------------------------
(* The steps. *)

LEMMA InitIInv == Init => IInv
<1> SUFFICES ASSUME Init PROVE IInv
  OBVIOUS
<1>1. Nothing = [k \in Keys |-> Nothing[k]] /\ Nothing.session = Unset /\ Nothing.token = Unset
  BY NothingUnset DEF Keys
<1>2. Typed
  BY <1>1, SourcesAssumption DEF Init, Typed, Sessions, Pcs
<1>3. PathsKnown /\ EmptiedFile /\ Resumable /\ SameSession
  BY DEF Init, PathsKnown, EmptiedFile, Resumable, SameSession
<1>4. QED
  BY <1>2, <1>3 DEF IInv

\* A session is put into a record that has the key.
LEMMA RestoredSession ==
  ASSUME NEW c, c = [k \in Keys |-> c[k]]
  PROVE  /\ Restored(c).session = IF HasSession(c) THEN c.session ELSE db[c.db]
         /\ Restored(c).db = c.db /\ Restored(c).token = c.token
         /\ Restored(c) = [k \in Keys |-> Restored(c)[k]]
<1>1. {"session", "db", "token"} \subseteq Keys
  BY DEF Keys
<1>2. QED
  BY <1>1 DEF Restored, HasSession

LEMMA RecoveredSession ==
  Recovered.session = IF HasSession(Loaded) THEN Loaded.session ELSE db[Loaded.db]
<1>1. Loaded = [k \in Keys |-> Loaded[k]]
  BY LayeredIsBase DEF Loaded
<1>2. Recovered = Restored(Loaded)
  BY DEF Recovered, Loaded
<1> HIDE DEF Loaded
<1>3. QED
  BY <1>1, <1>2, RestoredSession

\* What counts for the next start is the files, and the daemon's own command line and environment.
LEMMA SourcesStay ==
  ASSUME UNCHANGED <<inputs, file, db>>
  PROVE  Loaded' = Loaded /\ Recovered' = Recovered
BY DEF Loaded, Recovered, Restored, HasSession, inputs

\* A daemon that goes down loses its configuration and promises nothing.
LEMMA DownKeeps ==
  ASSUME IInv, Down, burned' \subseteq Tokens, issued' \in Nat,
         UNCHANGED <<inputs, file, db, spc, sgot, history>>
  PROVE  IInv'
<1>1. Nothing = [k \in Keys |-> Nothing[k]] /\ Nothing.session = Unset /\ Nothing.token = Unset
  BY NothingUnset DEF Keys
<1>2. Typed'
  BY <1>1 DEF IInv, Typed, Down, inputs, history, Sessions, Pcs, DBPaths
<1>3. PathsKnown' /\ EmptiedFile'
  BY DEF IInv, PathsKnown, EmptiedFile, history, Down
<1>4. Resumable' /\ SameSession'
  BY DEF Resumable, SameSession, Down
<1>5. QED
  BY <1>2, <1>3, <1>4 DEF IInv

LEMMA BootKeeps == ASSUME IInv, Boot PROVE IInv'
<1>1. /\ cfg' = Loaded /\ ~LoadFails(Loaded) /\ pc' = "loaded" /\ replaced' = FALSE
      /\ UNCHANGED <<inputs, file, db, plane, setupVars, emptied>>
  BY DEF Boot, Loaded
<1>2. Loaded = [k \in Keys |-> Loaded[k]]
  BY LayeredIsBase DEF Loaded
<1>3. Loaded.session \in Sessions /\ Loaded.token \in Tokens \cup {Unset}
  <2>1. /\ Loaded.session = Base(file, flags, env).session
        /\ Loaded.token = Base(file, flags, env).token
    BY LayeredIsBase DEF Loaded, Keys
  <2>2. /\ {file.session, flags.session, env.session, Unset} \subseteq Sessions
        /\ {file.token, flags.token, env.token} \subseteq Tokens \cup {Unset}
    BY SourcesAssumption DEF IInv, Typed, Sessions
  <2>3. {"session", "token"} \subseteq Keys \ (IntKeys \cup {"db"})
    BY DEF Keys, IntKeys
  <2>4. QED
    BY <2>1, <2>2, <2>3, BaseValue, DefaultsUnset
<1>4. Typed'
  <2>1. emptied' \in BOOLEAN /\ replaced' \in BOOLEAN
    BY <1>1, Zenon DEF IInv, Typed
  <2> HIDE DEF Loaded
  <2>2. QED
    BY <1>1, <1>2, <1>3, <2>1 DEF IInv, Typed, inputs, plane, setupVars, Pcs, DBPaths
<1>5. PathsKnown' /\ EmptiedFile'
  BY <1>1, LoadedDBKnown DEF IInv, PathsKnown, EmptiedFile, DBPaths
<1>6. Loaded' = Loaded
  BY <1>1, SourcesStay
<1>7. Resumable'
  BY <1>1, <1>6 DEF Resumable
<1>8. SameSession'
  <2>1. ~HasSession(Loaded) => flags.session = Unset /\ env.session = Unset
    BY LoadedSession
  <2> HIDE DEF Loaded
  <2>2. QED
    BY <1>1, <1>6, <2>1 DEF SameSession, inputs
<1>9. QED
  BY <1>4, <1>5, <1>7, <1>8 DEF IInv

LEMMA RestoreSessionKeeps == ASSUME IInv, RestoreSession PROVE IInv'
<1>1. /\ pc = "loaded" /\ pc' = "ready" /\ cfg' = Restored(cfg)
      /\ UNCHANGED <<inputs, file, db, plane, setupVars, history>>
  BY DEF RestoreSession
<1>2. cfg.db \in DBPaths /\ db[cfg.db] \in Sessions
  BY <1>1 DEF IInv, Typed, PathsKnown
<1>3. /\ cfg' = [k \in Keys |-> cfg'[k]]
      /\ cfg'.session = IF HasSession(cfg) THEN cfg.session ELSE db[cfg.db]
      /\ cfg'.db = cfg.db /\ cfg'.token = cfg.token
  BY <1>1, RestoredSession DEF IInv, Typed
<1>4. Typed'
  BY <1>1, <1>2, <1>3 DEF IInv, Typed, inputs, plane, setupVars, history, Pcs, DBPaths
<1>5. PathsKnown' /\ EmptiedFile'
  BY <1>1, <1>3 DEF IInv, PathsKnown, EmptiedFile, history, DBPaths
<1>6. Loaded' = Loaded /\ Recovered' = Recovered
  BY <1>1, SourcesStay
<1>7. HasSession(cfg') => HasSession(cfg) \/ db[cfg.db] # Unset
  BY <1>3 DEF HasSession
<1>8. Resumable'
  BY <1>1, <1>6, <1>7 DEF IInv, Resumable, history
<1>9. SameSession'
  <2>1. ~HasSession(cfg') => ~HasSession(cfg)
    BY <1>3 DEF HasSession
  <2>2. cfg.session = Loaded.session /\ cfg.db = Loaded.db => cfg'.session = Recovered.session
    BY <1>3, RecoveredSession DEF HasSession
  <2> HIDE DEF Loaded, Recovered
  <2>3. QED
    BY <1>1, <1>6, <2>1, <2>2 DEF IInv, SameSession, inputs, history
<1>10. QED
  BY <1>4, <1>5, <1>8, <1>9 DEF IInv

\* What the running configuration may become without a word to agent.yml or the database.
LEMMA NewConfigKeeps ==
  ASSUME IInv, cfg' = [k \in Keys |-> cfg'[k]], cfg'.session \in Sessions, cfg'.db = cfg.db,
         cfg'.token = cfg.token, pc # "down", pc' \in {"answered", "running"},
         pc' = "answered" => pc = "ready" /\ ~HasSession(cfg),
         pc' = "running" => /\ pc \in {"ready", "saved", "running"}
                            /\ HasSession(cfg') => HasSession(cfg)
                            /\ replaced' \/ (cfg'.session = cfg.session /\ replaced' = replaced),
         issued' \in Nat, burned' \subseteq Tokens, replaced' \in BOOLEAN,
         UNCHANGED <<inputs, file, db, setupVars, emptied>>
  PROVE  IInv'
<1>1. Typed'
  BY DEF IInv, Typed, inputs, setupVars, Pcs, DBPaths
<1>2. PathsKnown' /\ EmptiedFile'
  BY DEF IInv, PathsKnown, EmptiedFile, DBPaths
<1>3. Loaded' = Loaded /\ Recovered' = Recovered
  BY SourcesStay
<1>4. Resumable'
  BY <1>3 DEF IInv, Resumable
<1>5. SameSession'
  BY <1>3 DEF IInv, SameSession, inputs
<1>6. QED
  BY <1>1, <1>2, <1>4, <1>5 DEF IInv

LEMMA RegisterKeeps == ASSUME IInv, Register PROVE IInv'
<1>1. /\ pc = "ready" /\ ~HasSession(cfg) /\ pc' = "answered"
      /\ UNCHANGED <<inputs, file, db, setupVars, emptied, replaced>>
  BY DEF Register, NeedsRegistration, history
<1>2. PICK s \in {issued + 1, Unset}, t \in Told :
          cfg' = [cfg EXCEPT !.session = s, !.poll = IF t.poll > 0 THEN t.poll ELSE @,
                             !.ws = IF t.ws # Unset THEN t.ws ELSE @]
  BY DEF Register
<1>3. s \in Sessions /\ issued' \in Nat
  BY DEF IInv, Typed, Sessions, Register
<1>4. /\ cfg' = [k \in Keys |-> cfg'[k]] /\ cfg'.session = s
      /\ cfg'.db = cfg.db /\ cfg'.token = cfg.token
  BY <1>2 DEF IInv, Typed, Keys, IntKeys
<1>5. burned' \subseteq Tokens /\ replaced' \in BOOLEAN
  BY <1>1 DEF Register, IInv, Typed, NeedsRegistration
<1>6. QED
  BY <1>1, <1>3, <1>4, <1>5, NewConfigKeeps

LEMMA EndsKeep == ASSUME IInv, RegisterLost \/ RegisterFails \/ Crash PROVE IInv'
<1>1. Down /\ UNCHANGED <<inputs, file, db, spc, sgot, history>>
  BY DEF RegisterLost, RegisterFails, Crash, setupVars
<1>2. burned' \subseteq Tokens /\ issued' \in Nat
  BY DEF RegisterLost, RegisterFails, Crash, NeedsRegistration, plane, IInv, Typed
<1>3. QED
  BY <1>1, <1>2, DownKeeps

LEMMA SaveIdentityKeeps == ASSUME IInv, SaveIdentity PROVE IInv'
<1>1. /\ pc = "answered" /\ pc' = "identified" /\ db' = [db EXCEPT ![cfg.db] = cfg.session]
      /\ UNCHANGED <<inputs, file, plane, cfg, setupVars, history>>
  BY DEF SaveIdentity
<1>2. db' = [p \in DBPaths |-> db'[p]] /\ \A p \in DBPaths : db'[p] \in Sessions
  BY <1>1 DEF IInv, Typed
<1>3. Typed'
  <2>1. pc' \in Pcs /\ (pc' = "saved" => HasSession(cfg'))
    BY <1>1 DEF Pcs
  <2>2. UNCHANGED <<flags, env, file, cfg, burned, issued, spc, sgot, emptied, replaced, DBPaths>>
    BY <1>1 DEF inputs, plane, setupVars, history, DBPaths
  <2>3. QED
    BY <1>2, <2>1, <2>2 DEF IInv, Typed
<1>4. PathsKnown' /\ EmptiedFile'
  BY <1>1 DEF IInv, PathsKnown, EmptiedFile, history, DBPaths
<1>5. Resumable'
  BY <1>1 DEF IInv, Resumable, Loaded, inputs, history
<1>6. SameSession'
  BY <1>1 DEF IInv, SameSession, inputs
<1>7. QED
  BY <1>3, <1>4, <1>5, <1>6 DEF IInv

\* Whatever the file had, with a session in it the next start does not fail.
LEMMA SavedLoads ==
  ASSUME IInv, pc # "down", HasSession(cfg),
         file' = SaveSession(file, cfg.session), UNCHANGED inputs
  PROVE  ~LoadFails(Loaded)' /\ HasSession(Loaded)'
<1>1. /\ file'.session = cfg.session /\ "ws" \in Keys \ {"session"}
      /\ \A k \in Keys \ {"session"} : file'[k] = file[k]
  BY DEF SaveSession, IInv, Typed, Keys
<1>2. HasSession(Loaded)'
  BY <1>1, LayeredSession DEF Loaded, HasSession
<1>3. Loaded.ws # Invalid
  <2>1. CASE emptied
    <3>1. file.ws # Invalid /\ (file.api # Unset => DeriveWsURL(file.api) # Invalid)
      BY <2>1 DEF IInv, EmptiedFile
    <3>2. flags \in Flags /\ env \in Envs
      BY DEF IInv, Typed
    <3>3. QED
      BY <3>1, <3>2, LayeredWs DEF Loaded
  <2>2. CASE ~emptied
    BY <2>2 DEF IInv, Resumable, LoadFails
  <2>3. QED
    BY <2>1, <2>2
<1>4. Loaded'.ws = Loaded.ws
  BY <1>1, LayeredAgrees DEF Loaded, inputs
<1>5. QED
  BY <1>2, <1>3, <1>4 DEF LoadFails

LEMMA WriteBackKeeps == ASSUME IInv, WriteBack PROVE IInv'
<1>1. CASE HasSession(cfg)
  <2>1. /\ pc = "identified" /\ pc' = "saved" /\ file' = SaveSession(file, cfg.session)
        /\ emptied' = FALSE /\ replaced' = FALSE /\ Unlink
        /\ UNCHANGED <<inputs, db, plane, cfg, sgot>>
    BY <1>1 DEF WriteBack
  <2>2. /\ file' = [k \in Keys |-> file'[k]] /\ file'.session = cfg.session
        /\ file'.db = file.db /\ file'.token = file.token
    BY <2>1 DEF SaveSession, IInv, Typed, Keys
  <2>3. Typed'
    <3>1. spc' \in {"idle", "registered", "truncated", "unlinked"}
      BY <2>1 DEF Unlink, IInv, Typed
    <3>2. emptied' \in BOOLEAN /\ replaced' \in BOOLEAN
      BY <2>1, Zenon
    <3>3. QED
      BY <1>1, <2>1, <2>2, <3>1, <3>2 DEF IInv, Typed, inputs, plane, Pcs, DBPaths, HasSession
  <2>4. PathsKnown' /\ EmptiedFile'
    BY <2>1, <2>2 DEF IInv, PathsKnown, EmptiedFile, DBPaths
  <2>5. ~LoadFails(Loaded)' /\ HasSession(Loaded)'
    BY <1>1, <2>1, SavedLoads
  <2>6. Resumable'
    BY <1>1, <2>1, <2>5 DEF Resumable
  <2>7. cfg'.session = Recovered'.session
    <3>1. flags'.session = Unset /\ env'.session = Unset
      BY <2>1 DEF IInv, SameSession, inputs
    <3>2. Loaded'.session = file'.session
      BY <1>1, <2>2, <3>1, LayeredSessionValue DEF Loaded, HasSession
    <3>3. Recovered' = Loaded'
      BY <2>5 DEF Recovered, Restored, Loaded
    <3>4. QED
      BY <2>1, <2>2, <2>5, <3>2, <3>3
  <2>8. SameSession'
    BY <2>1, <2>7 DEF SameSession
  <2>9. QED
    BY <2>3, <2>4, <2>6, <2>8 DEF IInv
<1>2. CASE ~HasSession(cfg)
  <2>1. Down /\ UNCHANGED <<inputs, file, db, plane, spc, sgot, history>>
    BY <1>2 DEF WriteBack
  <2>2. QED
    BY <2>1, DownKeeps DEF plane, IInv, Typed
<1>3. QED
  BY <1>1, <1>2

LEMMA StartKeeps == ASSUME IInv, Start PROVE IInv'
<1>1. pc \in {"saved", "ready"} /\ UNCHANGED <<inputs, file, db, plane, setupVars, history>>
  BY DEF Start
<1>2. (pc' = "running" /\ cfg' = cfg) \/ Down
  BY DEF Start
<1>3. CASE pc' = "running" /\ cfg' = cfg
  <2>1. UNCHANGED <<burned, issued, emptied, replaced>>
    BY <1>1 DEF plane, history
  <2>2. QED
    BY <1>1, <1>3, <2>1, NewConfigKeeps DEF IInv, Typed
<1>4. CASE Down
  BY <1>1, <1>4, DownKeeps DEF plane, setupVars, IInv, Typed
<1>5. QED
  BY <1>2, <1>3, <1>4

LEMMA RotateKeeps == ASSUME IInv, Rotate PROVE IInv'
<1>1. /\ pc = "running" /\ pc' = "running" /\ HasSession(cfg)
      /\ cfg' = [cfg EXCEPT !.session = issued + 1] /\ issued' = issued + 1
      /\ replaced' = TRUE /\ UNCHANGED <<inputs, file, db, burned, setupVars, emptied>>
  BY DEF Rotate
<1>2. issued' \in Nat /\ issued' \in Sessions
  BY <1>1 DEF IInv, Typed, Sessions
<1>3. /\ cfg' = [k \in Keys |-> cfg'[k]] /\ cfg'.session = issued'
      /\ cfg'.db = cfg.db /\ cfg'.token = cfg.token
  BY <1>1 DEF IInv, Typed, Keys
<1>4. burned' \subseteq Tokens
  BY <1>1 DEF IInv, Typed
<1>5. QED
  BY <1>1, <1>2, <1>3, <1>4, NewConfigKeeps

LEMMA SetupRegisterKeeps == ASSUME IInv, NEW t \in Tokens, SetupRegister(t) PROVE IInv'
<1>1. /\ burned' = burned \cup {t} /\ issued' = issued + 1 /\ spc' = "registered"
      /\ sgot' \in {issued + 1, Unset} /\ UNCHANGED <<inputs, file, db, daemon, history>>
  BY DEF SetupRegister
<1>2. Typed'
  BY <1>1 DEF IInv, Typed, Sessions, inputs, daemon, history, DBPaths
<1>3. PathsKnown' /\ EmptiedFile'
  BY <1>1 DEF IInv, PathsKnown, EmptiedFile, daemon, history, DBPaths
<1>4. Resumable' /\ SameSession'
  BY <1>1, SourcesStay DEF IInv, Resumable, SameSession, inputs, daemon, history
<1>5. QED
  BY <1>2, <1>3, <1>4 DEF IInv

\* An empty file has nothing in it that a start could stumble over, and nothing to find.
LEMMA SetupTruncateKeeps == ASSUME IInv, SetupTruncate PROVE IInv'
<1>1. /\ spc' = "truncated" /\ file' = Nothing /\ emptied' = TRUE
      /\ UNCHANGED <<inputs, db, plane, daemon, sgot, replaced>>
  BY DEF SetupTruncate
<1>2. /\ file' = [k \in Keys |-> file'[k]] /\ file'.session = Unset /\ file'.token = Unset
      /\ file'.db = Unset /\ file'.ws = Unset /\ file'.api = Unset
  BY <1>1, NothingUnset DEF Keys
<1>3. Typed'
  BY <1>1, <1>2 DEF IInv, Typed, Sessions, inputs, plane, daemon, DBPaths
<1>4. PathsKnown' /\ EmptiedFile'
  BY <1>1, <1>2, SourcesAssumption DEF IInv, PathsKnown, EmptiedFile, daemon, DBPaths
<1>5. Resumable' /\ SameSession'
  BY <1>1 DEF IInv, Resumable, SameSession, inputs, daemon
<1>6. QED
  BY <1>3, <1>4, <1>5 DEF IInv

\* The file that a setup writes has an API URL that a request reached. It has a session, or it
\* counts as emptied.
LEMMA SetupWriteKeeps == ASSUME IInv, SetupWrite, spc = "truncated" PROVE IInv'
<1>1. /\ spc' = "idle" /\ sgot' = Unset /\ emptied' = (sgot = Unset) /\ replaced' = TRUE
      /\ UNCHANGED <<inputs, db, plane, daemon>>
  BY DEF SetupWrite
<1>2. PICK t \in Told : \E poll : file' = MarshalSetup(sgot, SetupURL, t.ws, poll)
  BY DEF SetupWrite
<1>3. /\ file' = [k \in Keys |-> file'[k]]
      /\ file'.session = sgot /\ file'.api = SetupURL /\ file'.ws = t.ws
      /\ file'.db = Unset /\ file'.token = Unset
  BY <1>2 DEF MarshalSetup, Nothing, Keys, IntKeys
<1>4. Typed'
  <2>1. emptied' \in BOOLEAN /\ replaced' \in BOOLEAN
    BY <1>1, Zenon
  <2>2. QED
    BY <1>1, <1>3, <2>1 DEF IInv, Typed, Sessions, inputs, plane, daemon, DBPaths
<1>5. file'.ws # Invalid /\ (file'.api # Unset => DeriveWsURL(file'.api) # Invalid)
  BY <1>3, URLsAssumption
<1>6. PathsKnown' /\ EmptiedFile'
  BY <1>1, <1>3, <1>5 DEF IInv, PathsKnown, EmptiedFile, daemon, DBPaths
<1>7. ~emptied' => HasSession(Loaded)' /\ ~LoadFails(Loaded)'
  <2>1. ~emptied' => HasSession(Loaded)'
    BY <1>1, <1>3, LayeredSession DEF Loaded, HasSession
  <2>2. flags' \in Flags /\ env' \in Envs
    BY <1>4 DEF Typed
  <2>3. Layered(file', flags', env').ws # Invalid
    BY <1>5, <2>2, LayeredWs
  <2>4. QED
    BY <2>1, <2>3 DEF LoadFails, Loaded
<1>8. Resumable'
  BY <1>7 DEF Resumable
<1>9. SameSession'
  BY <1>1 DEF IInv, SameSession, inputs, daemon
<1>10. QED
  BY <1>4, <1>6, <1>8, <1>9 DEF IInv

LEMMA UnchangedKeeps ==
  ASSUME IInv, UNCHANGED <<inputs, file, db, plane, daemon, history>>,
         UNCHANGED <<spc, sgot>> \/ (spc' = "idle" /\ sgot' = Unset)
  PROVE  IInv'
<1>1. Typed'
  BY DEF IInv, Typed, Sessions, inputs, plane, daemon, history, DBPaths
<1>2. PathsKnown' /\ EmptiedFile'
  BY DEF IInv, PathsKnown, EmptiedFile, daemon, history, DBPaths
<1>3. Resumable' /\ SameSession'
  BY SourcesStay DEF IInv, Resumable, SameSession, inputs, daemon, history
<1>4. QED
  BY <1>1, <1>2, <1>3 DEF IInv

LEMMA Inductive == IInv /\ [Next]_vars => IInv'
<1> SUFFICES ASSUME IInv, [Next]_vars PROVE IInv'
  OBVIOUS
<1>1. CASE Boots
  BY <1>1, BootKeeps, RestoreSessionKeeps, SaveIdentityKeeps, WriteBackKeeps, StartKeeps DEF Boots
<1>2. CASE Register \/ RegisterLost \/ RegisterFails \/ Crash \/ Rotate
  BY <1>2, RegisterKeeps, EndsKeep, RotateKeeps
<1>3. ASSUME NEW t \in Tokens, SetupRegister(t) PROVE IInv'
  BY <1>3, SetupRegisterKeeps
<1>4. CASE SetupTruncate \/ (SetupWrite /\ spc = "truncated")
  BY <1>4, SetupTruncateKeeps, SetupWriteKeeps
<1>5. CASE SetupEnds \/ (SetupWrite /\ spc # "truncated")
  BY <1>5, UnchangedKeeps DEF SetupEnds, SetupWrite
<1>6. CASE UNCHANGED vars
  BY <1>6, UnchangedKeeps DEF vars, setupVars
<1>7. QED
  BY <1>1, <1>2, <1>3, <1>4, <1>5, <1>6 DEF Next

-----------------------------------------------------------------------------
\* Every variable holds what the code can put there: agent.yml and the database have a session
\* number or none, tokens are burned once issued, and the daemon goes on from WriteBack only with a
\* session.
THEOREM TypeCorrect == Spec => []TypeOK
<1>1. IInv => TypeOK
  <2> SUFFICES ASSUME IInv PROVE TypeOK
    OBVIOUS
  <2> USE DEF IInv, Typed
  <2>1. flags \in Flags /\ env \in Envs
    OBVIOUS
  <2>2. DOMAIN file = Keys /\ DOMAIN cfg = Keys
    OBVIOUS
  <2>3. file.session \in Sessions /\ cfg.session \in Sessions
    OBVIOUS
  <2>4. \A p \in DOMAIN db : db[p] \in Sessions
    OBVIOUS
  <2>5. burned \subseteq Tokens /\ issued \in Nat
    OBVIOUS
  <2>6. pc \in {"down", "loaded", "ready", "answered", "identified", "saved", "running"}
    BY DEF Pcs
  <2>7. pc = "saved" => HasSession(cfg)
    OBVIOUS
  <2>8. spc \in {"idle", "registered", "truncated", "unlinked"} /\ sgot \in Sessions
    OBVIOUS
  <2>9. emptied \in BOOLEAN /\ replaced \in BOOLEAN
    OBVIOUS
  <2>10. QED
    BY <2>1, <2>2, <2>3, <2>4, <2>5, <2>6, <2>7, <2>8, <2>9, Zenon DEF TypeOK
<1>2. QED
  BY InitIInv, Inductive, <1>1, PTL DEF Spec

\* A daemon that runs with a session, restored, registered, rotated or given by hand, can crash: the
\* next start (config.Load, restoreSessionFromDB) does not fail and finds a session, the same one
\* unless a rotation or a setup has replaced it; except while agent.yml is as a setup left it that
\* was cut short after os.WriteFile had emptied it, or that was answered without a session.
THEOREM SessionsSurvive == Spec => []SurvivesCrash
<1>1. IInv => SurvivesCrash
  <2> SUFFICES ASSUME IInv, pc = "running", HasSession(cfg), ~emptied
               PROVE  /\ ~LoadFails(Loaded) /\ HasSession(Recovered)
                      /\ replaced \/ Recovered.session = cfg.session
    BY DEF SurvivesCrash, Loaded
  <2>1. ~LoadFails(Loaded) /\ (HasSession(Loaded) \/ db[Loaded.db] # Unset)
    BY DEF IInv, Resumable
  <2>2. HasSession(Recovered)
    BY <2>1, RecoveredSession DEF HasSession
  <2>3. replaced \/ Recovered.session = cfg.session
    BY DEF IInv, SameSession
  <2>4. QED
    BY <2>1, <2>2, <2>3
<1>2. QED
  BY InitIInv, Inductive, <1>1, PTL DEF Spec

-----------------------------------------------------------------------------
(* The order of the sources. *)

\* The sources that give key k, of the file (1), the command line (2) and the environment (3).
Given(k) ==
    {i \in 1 .. 3 : /\ <<file, flags, env>>[i][k] # Unset
                    /\ k \in IntKeys /\ i = 2 => <<file, flags, env>>[i][k] > 0}
\* The last of them.
LastGiven(k) ==
    IF Given(k) = {} THEN Defaults[k]
    ELSE <<file, flags, env>>[CHOOSE i \in Given(k) : \A j \in Given(k) : j <= i][k]

LEMMA LargestIsChosen ==
  ASSUME NEW S \in SUBSET (1 .. 3), NEW m \in S, \A j \in S : j <= m
  PROVE  (CHOOSE i \in S : \A j \in S : j <= i) = m
<1>1. \A i \in S : (\A j \in S : j <= i) => i = m
  OBVIOUS
<1>2. QED
  BY <1>1

LEMMA LastGivenValue ==
  ASSUME NEW k
  PROVE  LastGiven(k) = IF env[k] # Unset THEN env[k]
                        ELSE IF flags[k] # Unset /\ (k \in IntKeys => flags[k] > 0) THEN flags[k]
                        ELSE IF file[k] # Unset THEN file[k] ELSE Defaults[k]
<1> DEFINE sources == <<file, flags, env>>
<1>1. sources[1] = file /\ sources[2] = flags /\ sources[3] = env
  OBVIOUS
<1>2. /\ 3 \in Given(k) <=> env[k] # Unset
      /\ 2 \in Given(k) <=> flags[k] # Unset /\ (k \in IntKeys => flags[k] > 0)
      /\ 1 \in Given(k) <=> file[k] # Unset
  BY <1>1 DEF Given
<1>3. Given(k) \in SUBSET (1 .. 3)
  BY DEF Given
<1>4. ASSUME NEW m \in Given(k), \A j \in Given(k) : j <= m PROVE LastGiven(k) = sources[m][k]
  <2>1. (CHOOSE i \in Given(k) : \A j \in Given(k) : j <= i) = m
    BY <1>3, <1>4, LargestIsChosen
  <2>2. QED
    BY <1>4, <2>1, Zenon DEF LastGiven
<1> HIDE DEF sources
<1>5. CASE 3 \in Given(k)
  BY <1>1, <1>2, <1>3, <1>4, <1>5
<1>6. CASE 3 \notin Given(k) /\ 2 \in Given(k)
  BY <1>1, <1>2, <1>3, <1>4, <1>6
<1>7. CASE 3 \notin Given(k) /\ 2 \notin Given(k) /\ 1 \in Given(k)
  BY <1>1, <1>2, <1>3, <1>4, <1>7
<1>8. CASE 3 \notin Given(k) /\ 2 \notin Given(k) /\ 1 \notin Given(k)
  <2>1. Given(k) = {}
    BY <1>3, <1>8
  <2>2. QED
    BY <1>2, <1>8, <2>1 DEF LastGiven
<1>9. QED
  BY <1>5, <1>6, <1>7, <1>8

LEMMA LoadedIsLastGiven ==
  ASSUME NEW k \in Keys \ {"update", "db", "ws"}
  PROVE  Loaded[k] = IF k \in IntKeys /\ LastGiven(k) = 0 THEN Defaults[k] ELSE LastGiven(k)
<1>1. Loaded[k] = Base(file, flags, env)[k]
  BY LayeredIsBase DEF Loaded
<1>2. Base(file, flags, env)[k] = SetDefaults(k, LastGiven(k))
  BY LastGivenValue DEF Base, ApplyEnvOverrides, WithFlags, ApplyYAML
<1>3. QED
  BY <1>1, <1>2, LastGivenValue DEF SetDefaults

\* config.Load: the environment overrides the command line, which overrides agent.yml, which
\* overrides the defaults, key by key; a zero means the default wherever it comes from, and a
\* number on the command line counts only when it is positive.
THEOREM LaterSourcesWin == Spec => []LayersInOrder
<1>1. LayersInOrder
  <2>1. LayersInOrder <=>
            \A k \in Keys \ {"update", "db", "ws"} :
                Loaded[k] = IF k \in IntKeys /\ LastGiven(k) = 0 THEN Defaults[k] ELSE LastGiven(k)
    BY DEF LayersInOrder, LastGiven, Given, Loaded
  <2>2. QED
    BY <2>1, LoadedIsLastGiven
<1>2. QED
  BY <1>1, PTL

-----------------------------------------------------------------------------
(* The WebSocket URL. *)

LEMMA SuffixAligns ==
  ASSUME NEW S, NEW s \in Seq(S), NEW t \in Seq(S)
  PROVE  IsSuffix(s, t) <=> /\ Len(s) <= Len(t)
                            /\ \A i \in 1 .. Len(s) : s[i] = t[Len(t) - Len(s) + i]
<1> DEFINE rs == Reverse(s)
           rt == Reverse(t)
<1>1. Len(s) \in Nat /\ Len(t) \in Nat
  BY LenProperties
<1>2. /\ rs \in Seq(S) /\ Len(rs) = Len(s) /\ \A i \in 1 .. Len(s) : rs[i] = s[(Len(s) - i) + 1]
      /\ rt \in Seq(S) /\ Len(rt) = Len(t) /\ \A i \in 1 .. Len(t) : rt[i] = t[(Len(t) - i) + 1]
  <2>1. ASSUME NEW u \in Seq(S)
        PROVE  /\ Reverse(u) \in Seq(S) /\ Len(Reverse(u)) = Len(u)
               /\ \A i \in 1 .. Len(u) : Reverse(u)[i] = u[(Len(u) - i) + 1]
    <3>1. Len(u) \in Nat /\ \A i \in 1 .. Len(u) : (Len(u) - i) + 1 \in 1 .. Len(u)
      BY LenProperties
    <3>2. Reverse(u) \in [1 .. Len(u) -> S]
      BY <3>1, ElementOfSeq DEF Reverse
    <3>3. QED
      BY <3>1, <3>2, IsASeq, LenProperties DEF Reverse
  <2>2. QED
    BY <2>1
<1> HIDE DEF rs, rt
<1>3. IsSuffix(s, t) <=> Len(s) <= Len(t) /\ SubSeq(rs, 1, Len(s)) = SubSeq(rt, 1, Len(s))
  BY <1>2 DEF IsSuffix, IsPrefix, rs, rt
<1>4. ASSUME Len(s) <= Len(t)
      PROVE  SubSeq(rs, 1, Len(s)) = SubSeq(rt, 1, Len(s))
                 <=> \A i \in 1 .. Len(s) : rs[i] = rt[i]
  <2>1. /\ \A i \in 1 .. Len(s) : SubSeq(rs, 1, Len(s))[i] = rs[i] /\ SubSeq(rt, 1, Len(s))[i] = rt[i]
        /\ SubSeq(rs, 1, Len(s)) = [i \in 1 .. Len(s) |-> rs[i]]
        /\ SubSeq(rt, 1, Len(s)) = [i \in 1 .. Len(s) |-> rt[i]]
    BY <1>1, <1>2, <1>4
  <2>2. QED
    BY <2>1
<1>5. ASSUME Len(s) <= Len(t)
      PROVE  (\A i \in 1 .. Len(s) : rs[i] = rt[i])
                 <=> \A i \in 1 .. Len(s) : s[i] = t[Len(t) - Len(s) + i]
  <2>1. \A i \in 1 .. Len(s) : /\ (Len(s) - i) + 1 \in 1 .. Len(s)
                               /\ Len(s) - ((Len(s) - i) + 1) + 1 = i
                               /\ Len(t) - ((Len(s) - i) + 1) + 1 = Len(t) - Len(s) + i
                               /\ (Len(t) - i) + 1 = Len(t) - Len(s) + ((Len(s) - i) + 1)
                               /\ i \in 1 .. Len(t)
    BY <1>1, <1>5
  <2>2. ASSUME \A i \in 1 .. Len(s) : rs[i] = rt[i], NEW i \in 1 .. Len(s)
        PROVE  s[i] = t[Len(t) - Len(s) + i]
    <3> DEFINE j == (Len(s) - i) + 1
    <3>1. /\ j \in 1 .. Len(s) /\ j \in 1 .. Len(t)
          /\ (Len(s) - j) + 1 = i /\ (Len(t) - j) + 1 = Len(t) - Len(s) + i
      BY <2>1
    <3> HIDE DEF j
    <3>2. rs[j] = s[i] /\ rt[j] = t[Len(t) - Len(s) + i]
      BY <1>2, <3>1
    <3>3. QED
      BY <2>2, <3>1, <3>2
  <2>3. ASSUME \A i \in 1 .. Len(s) : s[i] = t[Len(t) - Len(s) + i], NEW i \in 1 .. Len(s)
        PROVE  rs[i] = rt[i]
    <3>1. rs[i] = s[(Len(s) - i) + 1] /\ rt[i] = t[(Len(t) - i) + 1]
      BY <1>2, <2>1
    <3>2. QED
      BY <2>1, <2>3, <3>1
  <2>4. QED
    BY <2>2, <2>3
<1>6. QED
  BY <1>3, <1>4, <1>5

LEMMA JoinedTail ==
  ASSUME NEW S, NEW t \in Seq(S), NEW w \in Seq(S), NEW i \in 1 .. Len(w)
  PROVE  (t \o w)[Len(t) + i] = w[i]
<1> DEFINE j == Len(t) + i
<1>1. Len(t) \in Nat /\ Len(w) \in Nat
  BY LenProperties
<1>2. j \in 1 .. Len(t) + Len(w) /\ ~(j <= Len(t)) /\ j - Len(t) = i
  BY <1>1
<1> HIDE DEF j
<1>3. (t \o w)[j] = w[j - Len(t)]
  BY <1>2, ConcatProperties
<1>4. QED
  BY <1>2, <1>3 DEF j

LEMMA Joined ==
  ASSUME NEW S, NEW t \in Seq(S), NEW w \in Seq(S)
  PROVE  /\ t \o w \in Seq(S) /\ Len(t \o w) = Len(t) + Len(w)
         /\ \A i \in 1 .. Len(t) : (t \o w)[i] = t[i]
         /\ \A i \in 1 .. Len(w) : (t \o w)[Len(t) + i] = w[i]
<1>1. Len(t) \in Nat /\ Len(w) \in Nat
  BY LenProperties
<1>2. t \o w \in Seq(S) /\ Len(t \o w) = Len(t) + Len(w)
  BY ConcatProperties
<1>3. \A i \in 1 .. Len(t) : (t \o w)[i] = t[i]
  BY <1>1, ConcatProperties
<1>4. \A i \in 1 .. Len(w) : (t \o w)[Len(t) + i] = w[i]
  BY JoinedTail, Zenon
<1>5. QED
  BY <1>2, <1>3, <1>4

LEMMA ShortTuples ==
  ASSUME NEW S, NEW a \in S, NEW b \in S
  PROVE  /\ <<a>> \in Seq(S) /\ Len(<<a>>) = 1 /\ <<a>>[1] = a
         /\ <<a, b>> \in Seq(S) /\ Len(<<a, b>>) = 2 /\ <<a, b>>[1] = a /\ <<a, b>>[2] = b
OBVIOUS

LEMMA FourTuples ==
  ASSUME NEW S, NEW a \in S, NEW b \in S, NEW c \in S, NEW d \in S
  PROVE  /\ <<a, b, c, d>> \in Seq(S) /\ Len(<<a, b, c, d>>) = 4
         /\ <<a, b, c, d>>[1] = a /\ <<a, b, c, d>>[2] = b
         /\ <<a, b, c, d>>[3] = c /\ <<a, b, c, d>>[4] = d
OBVIOUS

EndpointSegments == {"api", "v1", "agents", "ws", ""}

LEMMA EndpointIs ==
  ASSUME NEW S, EndpointSegments \subseteq S
  PROVE  /\ Endpoint \in Seq(S) /\ Len(Endpoint) = 4
         /\ Endpoint[1] = "api" /\ Endpoint[2] = "v1" /\ Endpoint[3] = "agents" /\ Endpoint[4] = "ws"
<1>1. "api" \in S /\ "v1" \in S /\ "agents" \in S /\ "ws" \in S
  BY DEF EndpointSegments
<1>2. QED
  BY <1>1, FourTuples, Zenon DEF Endpoint

\* A path of four segments or more ends in the endpoint when its last four are those.
LEMMA EndsInEndpoint ==
  ASSUME NEW S, EndpointSegments \subseteq S, NEW t \in Seq(S), NEW n \in Nat, Len(t) = n + 4
  PROVE  IsSuffix(Endpoint, t) <=> /\ t[n + 1] = "api" /\ t[n + 2] = "v1"
                                   /\ t[n + 3] = "agents" /\ t[n + 4] = "ws"
<1>1. IsSuffix(Endpoint, t) <=> 4 <= Len(t) /\ \A i \in 1 .. 4 : Endpoint[i] = t[Len(t) - 4 + i]
  <2>1. Endpoint \in Seq(S) /\ Len(Endpoint) = 4
    BY EndpointIs
  <2>2. IsSuffix(Endpoint, t) <=> /\ Len(Endpoint) <= Len(t)
                                  /\ \A i \in 1 .. Len(Endpoint) :
                                         Endpoint[i] = t[Len(t) - Len(Endpoint) + i]
    BY <2>1, SuffixAligns
  <2>3. QED
    BY <2>1, <2>2
<1>2. 4 <= Len(t) /\ \A i \in 1 .. 4 : Len(t) - 4 + i = n + i
  OBVIOUS
<1>3. IsSuffix(Endpoint, t) <=> \A i \in 1 .. 4 : Endpoint[i] = t[n + i]
  BY <1>1, <1>2
<1>4. \A i : i \in 1 .. 4 <=> i = 1 \/ i = 2 \/ i = 3 \/ i = 4
  OBVIOUS
<1>5. (\A i \in 1 .. 4 : Endpoint[i] = t[n + i]) <=>
          /\ Endpoint[1] = t[n + 1] /\ Endpoint[2] = t[n + 2]
          /\ Endpoint[3] = t[n + 3] /\ Endpoint[4] = t[n + 4]
  BY <1>4
<1>6. QED
  BY <1>3, <1>5, EndpointIs

LEMMA EndpointAppended ==
  ASSUME NEW S, EndpointSegments \subseteq S, NEW t \in Seq(S)
  PROVE  t \o Endpoint \in Seq(S) /\ IsSuffix(Endpoint, t \o Endpoint)
<1> DEFINE u == t \o Endpoint
<1>1. /\ u \in Seq(S) /\ Len(u) = Len(t) + 4 /\ Len(t) \in Nat
      /\ \A i \in 1 .. 4 : u[Len(t) + i] = Endpoint[i]
  <2>1. Endpoint \in Seq(S) /\ Len(Endpoint) = 4
    BY EndpointIs
  <2>2. /\ u \in Seq(S) /\ Len(u) = Len(t) + Len(Endpoint)
        /\ \A i \in 1 .. Len(Endpoint) : u[Len(t) + i] = Endpoint[i]
    <3>1. \A w \in Seq(S) : /\ t \o w \in Seq(S) /\ Len(t \o w) = Len(t) + Len(w)
                             /\ \A i \in 1 .. Len(w) : (t \o w)[Len(t) + i] = w[i]
      BY Joined
    <3>2. QED
      BY <2>1, <3>1, Zenon
  <2>3. Len(t) \in Nat
    BY LenProperties
  <2> HIDE DEF u
  <2>4. QED
    BY <2>1, <2>2, <2>3
<1> HIDE DEF u
<1>2. /\ u[Len(t) + 1] = "api" /\ u[Len(t) + 2] = "v1"
      /\ u[Len(t) + 3] = "agents" /\ u[Len(t) + 4] = "ws"
  BY <1>1, EndpointIs
<1>3. IsSuffix(Endpoint, u)
  BY <1>1, <1>2, EndsInEndpoint
<1>4. QED
  BY <1>1, <1>3 DEF u

LEMMA PairReplaced ==
  ASSUME NEW S, NEW t \in Seq(S), NEW front \in Seq(S), Len(front) = 2, IsSuffix(front, t),
         NEW w \in Seq(S), NEW n, n = Len(t) - 2
  PROVE  Len(w) = 2 =>
             /\ t \o w \in Seq(S) /\ n \in Nat /\ Len(t \o w) = n + 4
             /\ (t \o w)[n + 1] = front[1] /\ (t \o w)[n + 2] = front[2]
             /\ (t \o w)[n + 3] = w[1] /\ (t \o w)[n + 4] = w[2]
<1> DEFINE u == t \o w
<1>1. n \in Nat /\ Len(t) = n + 2 /\ \A i \in 1 .. 2 : front[i] = t[n + i]
  <2>1. Len(t) \in Nat
    BY LenProperties
  <2>2. Len(front) <= Len(t) /\ \A i \in 1 .. Len(front) : front[i] = t[Len(t) - Len(front) + i]
    BY SuffixAligns
  <2>3. QED
    BY <2>1, <2>2
<1>2. /\ u \in Seq(S) /\ Len(u) = Len(t) + Len(w)
      /\ \A i \in 1 .. Len(t) : u[i] = t[i]
      /\ \A i \in 1 .. Len(w) : u[Len(t) + i] = w[i]
  BY Joined
<1> HIDE DEF u
<1> HAVE Len(w) = 2
<1>3. /\ Len(u) = n + 4 /\ n + 1 \in 1 .. Len(t) /\ n + 2 \in 1 .. Len(t)
      /\ Len(t) + 1 = n + 3 /\ Len(t) + 2 = n + 4 /\ 1 \in 1 .. Len(w) /\ 2 \in 1 .. Len(w)
  BY <1>1, <1>2
<1>4. u[n + 1] = front[1] /\ u[n + 2] = front[2]
  BY <1>1, <1>2, <1>3
<1>5. u[n + 3] = w[1] /\ u[n + 4] = w[2]
  BY <1>2, <1>3
<1>6. QED
  BY <1>1, <1>2, <1>3, <1>4, <1>5 DEF u

LEMMA EndpointCompleted ==
  ASSUME NEW S, EndpointSegments \subseteq S, NEW t \in Seq(S), IsSuffix(<<"api", "v1">>, t)
  PROVE  /\ t \o <<"agents", "ws">> \in Seq(S)
         /\ IsSuffix(Endpoint, t \o <<"agents", "ws">>)
<1>1. "api" \in S /\ "v1" \in S /\ "agents" \in S /\ "ws" \in S
  BY DEF EndpointSegments
<1>2. /\ <<"api", "v1">> \in Seq(S) /\ Len(<<"api", "v1">>) = 2
      /\ <<"api", "v1">>[1] = "api" /\ <<"api", "v1">>[2] = "v1"
  BY <1>1, ShortTuples, Zenon
<1>3. /\ <<"agents", "ws">> \in Seq(S) /\ Len(<<"agents", "ws">>) = 2
      /\ <<"agents", "ws">>[1] = "agents" /\ <<"agents", "ws">>[2] = "ws"
  BY <1>1, ShortTuples, Zenon
<1>4. SUFFICES ASSUME NEW front \in Seq(S), Len(front) = 2, IsSuffix(front, t),
                      front[1] = "api", front[2] = "v1",
                      NEW w \in Seq(S), Len(w) = 2, w[1] = "agents", w[2] = "ws"
               PROVE  t \o w \in Seq(S) /\ IsSuffix(Endpoint, t \o w)
  BY <1>2, <1>3, Zenon
<1> DEFINE n == Len(t) - 2
           u == t \o w
<1>5. /\ u \in Seq(S) /\ n \in Nat /\ Len(u) = n + 4
      /\ u[n + 1] = front[1] /\ u[n + 2] = front[2] /\ u[n + 3] = w[1] /\ u[n + 4] = w[2]
  <2>1. \A k : k = n => /\ u \in Seq(S) /\ k \in Nat /\ Len(u) = k + 4
                        /\ u[k + 1] = front[1] /\ u[k + 2] = front[2]
                        /\ u[k + 3] = w[1] /\ u[k + 4] = w[2]
    <3>1. Len(front) = 2 /\ IsSuffix(front, t) /\ Len(w) = 2
      BY <1>4
    <3>2. QED
      BY <3>1, PairReplaced
  <2>2. QED
    BY <2>1, Zenon
<1> HIDE DEF n, u
<1>6. /\ u[n + 1] = "api" /\ u[n + 2] = "v1" /\ u[n + 3] = "agents" /\ u[n + 4] = "ws"
  BY <1>4, <1>5, Zenon
<1>7. IsSuffix(Endpoint, u)
  BY <1>5, <1>6, EndsInEndpoint, Zenon
<1>8. QED
  BY <1>5, <1>7, Zenon DEF u

\* A path that ends in the endpoint has no slash at its end.
LEMMA NoSlashAfterEndpoint ==
  ASSUME NEW S, EndpointSegments \subseteq S, NEW t \in Seq(S), IsSuffix(Endpoint, t)
  PROVE  ~IsSuffix(<<"">>, t)
<1> DEFINE n == Len(t) - 4
           slash == <<"">>
<1>1. n \in Nat /\ Len(t) = n + 4
  BY EndpointIs, SuffixAligns, LenProperties
<1>2. slash \in Seq(S) /\ Len(slash) = 1 /\ slash[1] = ""
  <2>1. "" \in S
    BY DEF EndpointSegments
  <2>2. QED
    BY <2>1, ShortTuples, Zenon
<1> HIDE DEF n, slash
<1>3. t[n + 4] = "ws"
  BY <1>1, EndsInEndpoint
<1>4. ASSUME IsSuffix(slash, t) PROVE t[n + 4] = ""
  <2>1. \A i \in 1 .. Len(slash) : slash[i] = t[Len(t) - Len(slash) + i]
    BY <1>2, <1>4, SuffixAligns
  <2>2. 1 \in 1 .. Len(slash) /\ Len(t) - Len(slash) + 1 = n + 4
    <3>1. Len(slash) = 1
      BY <1>2, Zenon
    <3>2. QED
      BY <1>1, <3>1
  <2>3. slash[1] = t[n + 4]
    BY <2>1, <2>2
  <2>4. QED
    BY <1>2, <2>3
<1>5. QED
  BY <1>3, <1>4 DEF slash

-----------------------------------------------------------------------------
\* What deriveWsURL makes of a URL that has a host and a scheme it knows.
DerivedPath(path) ==
    IF IsSuffix(Endpoint, path) THEN path
    ELSE IF IsSuffix(<<"api", "v1">>, path) THEN path \o <<"agents", "ws">>
    ELSE path \o Endpoint

LEMMA DerivedPathEnds ==
  ASSUME NEW S, EndpointSegments \subseteq S, NEW t \in Seq(S)
  PROVE  /\ DerivedPath(t) \in Seq(S)
         /\ IsSuffix(Endpoint, DerivedPath(t)) /\ ~IsSuffix(<<"">>, DerivedPath(t))
<1>1. DerivedPath(t) \in Seq(S) /\ IsSuffix(Endpoint, DerivedPath(t))
  <2>1. CASE IsSuffix(Endpoint, t)
    BY <2>1, Zenon DEF DerivedPath
  <2>2. CASE ~IsSuffix(Endpoint, t) /\ IsSuffix(<<"api", "v1">>, t)
    <3>1. DerivedPath(t) = t \o <<"agents", "ws">>
      BY <2>2, Zenon DEF DerivedPath
    <3>2. /\ t \o <<"agents", "ws">> \in Seq(S)
          /\ IsSuffix(Endpoint, t \o <<"agents", "ws">>)
      BY <2>2, EndpointCompleted
    <3>3. QED
      BY <3>1, <3>2, Zenon
  <2>3. CASE ~IsSuffix(Endpoint, t) /\ ~IsSuffix(<<"api", "v1">>, t)
    <3>1. DerivedPath(t) = t \o Endpoint
      BY <2>3, Zenon DEF DerivedPath
    <3>2. t \o Endpoint \in Seq(S) /\ IsSuffix(Endpoint, t \o Endpoint)
      BY EndpointAppended
    <3>3. QED
      BY <3>1, <3>2, Zenon
  <2>4. QED
    BY <2>1, <2>2, <2>3, Zenon
<1>2. ~IsSuffix(<<"">>, DerivedPath(t))
  BY <1>1, NoSlashAfterEndpoint
<1>3. QED
  BY <1>1, <1>2

LEMMA SlashDropped ==
  ASSUME NEW S, NEW slash \in Seq(S), Len(slash) = 1, NEW t \in Seq(S), IsSuffix(slash, t)
  PROVE  Front(t) \in Seq(S)
<1>1. Len(t) \in Nat
  BY LenProperties
<1>2. Len(t) - 1 \in Nat
  <2>1. Len(slash) <= Len(t)
    BY SuffixAligns
  <2>2. QED
    BY <1>1, <2>1
<1>3. \A i \in 1 .. Len(t) - 1 : i \in 1 .. Len(t)
  BY <1>1
<1>4. \A i \in 1 .. Len(t) - 1 : t[i] \in S
  BY <1>3, ElementOfSeq, Zenon
<1>5. [i \in 1 .. Len(t) - 1 |-> t[i]] \in Seq(S)
  BY <1>2, <1>4, IsASeq
<1>6. Front(t) = [i \in 1 .. Len(t) - 1 |-> t[i]]
  BY <1>1, <1>2 DEF Front
<1>7. QED
  BY <1>5, <1>6

Trimmed(path) == IF IsSuffix(<<"">>, path) THEN Front(path) ELSE path

LEMMA TrimmedIsPath ==
  ASSUME NEW S, EndpointSegments \subseteq S, NEW path \in Seq(S)
  PROVE  Trimmed(path) \in Seq(S)
<1>1. <<"">> \in Seq(S) /\ Len(<<"">>) = 1
  <2>1. "" \in S
    BY DEF EndpointSegments
  <2>2. QED
    BY <2>1, ShortTuples, Zenon
<1>2. IsSuffix(<<"">>, path) => Front(path) \in Seq(S)
  BY <1>1, SlashDropped, Zenon
<1>3. QED
  BY <1>2, Zenon DEF Trimmed

Schemes == [https |-> "wss", http |-> "ws", wss |-> "wss", ws |-> "ws"]
SchemeGiven(scheme) == IF scheme = "" THEN "https" ELSE scheme

LEMMA SchemesSettle ==
  ASSUME NEW s \in DOMAIN Schemes
  PROVE  /\ Schemes[s] \in DOMAIN Schemes /\ Schemes[Schemes[s]] = Schemes[s]
         /\ SchemeGiven(Schemes[s]) = Schemes[s]
<1>1. s \in {"https", "http", "wss", "ws"}
  BY DEF Schemes
<1>2. /\ Schemes["https"] = "wss" /\ Schemes["http"] = "ws"
      /\ Schemes["wss"] = "wss" /\ Schemes["ws"] = "ws"
      /\ "wss" \in DOMAIN Schemes /\ "ws" \in DOMAIN Schemes
  BY DEF Schemes
<1>3. Schemes[s] = "wss" \/ Schemes[s] = "ws"
  BY <1>1, <1>2
<1>4. QED
  BY <1>2, <1>3 DEF SchemeGiven

\* DeriveWsURL in the terms above.
LEMMA DerivedURL ==
  ASSUME NEW api
  PROVE  DeriveWsURL(api) =
             IF api.host = "" \/ SchemeGiven(api.scheme) \notin DOMAIN Schemes THEN Invalid
             ELSE [scheme |-> Schemes[SchemeGiven(api.scheme)], host |-> api.host,
                   path |-> DerivedPath(Trimmed(api.path))]
BY Zenon DEF DeriveWsURL, Schemes, SchemeGiven, Trimmed, DerivedPath

\* The URL that the daemon derives from its API URL ends in the endpoint of the agents' socket, and
\* deriving once more changes nothing: whatever part of the endpoint an api_url has already, with a
\* slash at its end or without, it is not given twice (the comment on deriveWsURL).
THEOREM EndpointOnce ==
  ASSUME NEW Segments, EndpointSegments \subseteq Segments,
         NEW api, api.path \in Seq(Segments), DeriveWsURL(api) # Invalid
  PROVE  /\ IsSuffix(Endpoint, DeriveWsURL(api).path)
         /\ DeriveWsURL(DeriveWsURL(api)) = DeriveWsURL(api)
<1> DEFINE sch == Schemes[SchemeGiven(api.scheme)]
           path == DerivedPath(Trimmed(api.path))
           url == [scheme |-> sch, host |-> api.host, path |-> path]
<1>1. api.host # "" /\ SchemeGiven(api.scheme) \in DOMAIN Schemes /\ DeriveWsURL(api) = url
  BY DerivedURL, Zenon
<1>2. sch \in DOMAIN Schemes /\ Schemes[sch] = sch /\ SchemeGiven(sch) = sch
  BY <1>1, SchemesSettle, Zenon
<1>3. IsSuffix(Endpoint, path) /\ ~IsSuffix(<<"">>, path)
  <2>1. Trimmed(api.path) \in Seq(Segments)
    BY TrimmedIsPath
  <2>2. QED
    BY <2>1, DerivedPathEnds
<1> HIDE DEF sch, path
<1>4. DerivedPath(Trimmed(path)) = path
  BY <1>3, Zenon DEF Trimmed, DerivedPath
<1>5. url.scheme = sch /\ url.host = api.host /\ url.path = path
  OBVIOUS
<1>6. url = [scheme |-> sch, host |-> api.host, path |-> path]
  OBVIOUS
<1> HIDE DEF url
<1>7. DeriveWsURL(url) = [scheme |-> Schemes[SchemeGiven(url.scheme)], host |-> url.host,
                          path |-> DerivedPath(Trimmed(url.path))]
  BY <1>1, <1>2, <1>5, DerivedURL, Zenon
<1>8. DeriveWsURL(url) = url
  BY <1>2, <1>4, <1>5, <1>6, <1>7, Zenon
<1>9. QED
  BY <1>1, <1>3, <1>5, <1>8, Zenon
=============================================================================
