---------------------------- MODULE HostFilesProofs ----------------------------
(***************************************************************************)
(* Theorems about what the jobs of HostJobs leave on the host, for any     *)
(* number of goroutines, sites, programs, keys, jobs and crashes. The      *)
(* argument: whoever leaves supervisord or nginx behind its files is still *)
(* on its way to the reload, unless it failed or was cut short             *)
(* (SupervisorDue, NginxDue); and the job that has authorized_keys in its  *)
(* memory, and the file empty, is alone with it (KeysInHand).              *)
(***************************************************************************)
EXTENDS HostJobsProofs, SequenceTheorems, FiniteSetTheorems, WellFoundedInduction

Due(p, acts, pcs) == job[p].pc \in pcs /\ Req(p).act \in acts
SupervisorDue ==
    "supervisor" \notin torn /\ progs # conf =>
        \E p \in Workers : Due(p, SupervisorActs, {"stop", "unlink", "update"})
NginxPcs == {"unlinkVhost", "linkVhost", "test", "reload"}
NginxDue ==
    "nginx" \notin torn /\ served # Enabled =>
        \E p \in Workers : Due(p, NginxActs, NginxPcs)

\* The jobs that change the keys: several add, or one is alone.
OneRemoves ==
    \A p, q \in Working(KeyActs) : p # q => Req(p).act = "ssh_key_add" /\ Req(q).act = "ssh_key_add"
KeysInHand ==
    /\ OneRemoves
    /\ (\A p \in Workers : ~At(p, {"ssh_key_remove"}, "write")) => ToSet(keys) = wanted
    /\ \A p \in Workers :
           Due(p, {"ssh_key_remove"}, {"truncate", "write"}) => ToSet(job[p].seen) = wanted
KeysKept == ~tangled => KeysInHand

Keys == ToSet(OldKeys) \cup {r.arg : r \in Requests}
\* What the jobs carry with them.
Carried ==
    /\ started \in Nat
    /\ \A p \in Workers : job[p] # Idle =>
           /\ job[p].num \in 1 .. started /\ job[p].seen \in Seq(Keys)
           /\ Due(p, NginxActs, NginxPcs) => vhost[Site(p)] # None
LocksOfHolders == locked = {Site(p) : p \in Holders}
ProgramOf(f) == {None} \cup [num : 1 .. started, site : {s \in Sites : IsStrictPrefix(s, f)}]
ProgramsTyped ==
    /\ conf = [f \in Programs |-> conf[f]] /\ progs = [f \in Programs |-> progs[f]]
    /\ \A f \in Programs : {conf[f], progs[f]} \subseteq ProgramOf(f)
SitesTyped == \A s \in Sites : site[s].dir = TRUE \/ site[s] = NoCheckout
VhostsTyped ==
    /\ vhost = [s \in Sites |-> vhost[s]]
    /\ linked \subseteq Sites /\ \A s \in linked : vhost[s] # None
KeysTyped == keys \in Seq(Keys) /\ torn \subseteq {"supervisor", "nginx"}

FilesTyped ==
    Carried /\ LocksOfHolders /\ ProgramsTyped /\ SitesTyped /\ VhostsTyped /\ KeysTyped
FilesInv == FilesTyped /\ SupervisorDue /\ NginxDue /\ KeysKept

-----------------------------------------------------------------------------
(* What a step of p leaves of the records of the jobs. *)

Carries(p) ==
    /\ Only(p)
    /\ \/ job'[p] = Idle
       \/ /\ job'[p].req = job[p].req /\ job'[p].num = job[p].num
          /\ job'[p].seen \in {job[p].seen, keys}

LEMMA CarriesPc ==
  ASSUME JobShapes, NEW p \in Workers, NEW pc, job' = [job EXCEPT ![p].pc = pc]
  PROVE  Carries(p) /\ job'[p].pc = pc /\ job'[p].req = job[p].req /\ job'[p].seen = job[p].seen
BY DEF JobShapes, JobShape, Fields, Carries, Only

LEMMA CarriesFiles ==
  ASSUME JobShapes, NEW p \in Workers, NEW pc, NEW files,
         job' = [job EXCEPT ![p].files = files, ![p].pc = pc]
  PROVE  Carries(p) /\ job'[p].pc = pc /\ job'[p].req = job[p].req
BY DEF JobShapes, JobShape, Fields, Carries, Only

LEMMA CarriesTarget ==
  ASSUME JobShapes, NEW p \in Workers, NEW pc, NEW target,
         job' = [job EXCEPT ![p].target = target, ![p].pc = pc]
  PROVE  Carries(p) /\ job'[p].pc = pc /\ job'[p].req = job[p].req
BY DEF JobShapes, JobShape, Fields, Carries, Only

LEMMA CarriesSeen ==
  ASSUME JobShapes, NEW p \in Workers, NEW pc,
         job' = [job EXCEPT ![p].seen = keys, ![p].pc = pc]
  PROVE  Carries(p) /\ job'[p].pc = pc /\ job'[p].req = job[p].req /\ job'[p].seen = keys
BY DEF JobShapes, JobShape, Fields, Carries, Only

LEMMA CarriesRev ==
  ASSUME JobShapes, NEW p \in Workers, NEW pc, NEW rev,
         job' = [job EXCEPT ![p].rev = rev, ![p].pc = pc]
  PROVE  Carries(p) /\ job'[p].pc = pc /\ job'[p].req = job[p].req
BY DEF JobShapes, JobShape, Fields, Carries, Only

LEMMA EndCarries ==
  ASSUME JobShapes, NEW p \in Workers, End(p)
  PROVE  Carries(p) /\ job'[p] = Idle
BY DEF JobShapes, End, Carries, Only

LEMMA GotoCarries ==
  ASSUME JobShapes, NEW p \in Workers, NEW pc, Goto(p, pc)
  PROVE  Carries(p) /\ job'[p].pc = pc /\ job'[p].req = job[p].req /\ job'[p].seen = job[p].seen
BY CarriesPc DEF Goto

LEMMA CheckedOutCarries ==
  ASSUME JobShapes, NEW p \in Workers, NEW rev, CheckedOut(p, rev)
  PROVE  Carries(p)
BY CarriesRev, EndCarries DEF CheckedOut

LEMMA StepCarries ==
  ASSUME JobShapes, NEW p \in Workers, Step(p)
  PROVE  Carries(p)
<1>1. CASE WriteConf(p) \/ StatGit(p) \/ Fetch(p) \/ CommandBegins(p) \/ StatEnv(p)
           \/ BootstrapEnv(p) \/ ScriptBegins(p) \/ CreateSite(p) \/ WriteVhost(p)
           \/ UnlinkVhost(p) \/ TruncateKeys(p)
  <2>1. \E pc : Goto(p, pc)
    BY <1>1 DEF WriteConf, StatGit, Fetch, CommandBegins, StatEnv, BootstrapEnv, ScriptBegins,
                CreateSite, WriteVhost, UnlinkVhost, TruncateKeys
  <2>2. QED
    BY <2>1, GotoCarries
<1>2. CASE RemoveSiteDir(p) \/ GitFails(p) \/ ScriptEnds(p) \/ WriteEnvContent(p)
           \/ AppendKey(p) \/ WriteKeys(p)
  BY <1>2, EndCarries DEF RemoveSiteDir, GitFails, ScriptEnds, WriteEnvContent, AppendKey, WriteKeys
<1>3. CASE Update(p) \/ UpdateFails(p) \/ LinkVhost(p) \/ TestNginx(p) \/ ReloadNginx(p)
  <2>1. End(p) \/ \E pc : Goto(p, pc)
    BY <1>3 DEF Update, UpdateFails, AfterUpdate, LinkVhost, TestNginx, ReloadNginx, NginxJobFails
  <2>2. QED
    BY <2>1, GotoCarries, EndCarries
<1>4. CASE ListPrograms(p) \/ RemoveConf(p)
  BY <1>4, CarriesFiles DEF ListPrograms, RemoveConf
<1>5. CASE StopProgram(p)
  BY <1>5, CarriesTarget DEF StopProgram
<1>6. CASE TryAcquire(p)
  BY <1>6, CarriesPc, EndCarries DEF TryAcquire
<1>7. CASE Clone(p) \/ Checkout(p)
  <2>1. \E rev : CheckedOut(p, rev)
    BY <1>7 DEF Clone, Checkout
  <2>2. QED
    BY <2>1, CheckedOutCarries
<1>8. CASE ReadKeys(p)
  BY <1>8, CarriesSeen, EndCarries DEF ReadKeys
<1>9. QED
  BY <1>1, <1>2, <1>3, <1>4, <1>5, <1>6, <1>7, <1>8 DEF Step

LEMMA DueElsewhere ==
  ASSUME NEW p, Only(p), NEW q \in Workers, q # p, NEW acts, NEW pcs, Due(q, acts, pcs)
  PROVE  Due(q, acts, pcs)'
BY DEF Only, Due, Req

-----------------------------------------------------------------------------
(* Supervisor and nginx. *)

ReloadPcs == {"stop", "unlink", "update"}

LEMMA SupervisorStep ==
  ASSUME JobShapes, SupervisorDue, NEW p \in Workers, Step(p)
  PROVE  SupervisorDue'
<1>1. Only(p)
  BY StepCarries DEF Carries
<1>2. ASSUME Due(p, SupervisorActs, ReloadPcs)' PROVE SupervisorDue'
  BY <1>2 DEF SupervisorDue, ReloadPcs
<1>3. CASE WriteConf(p)
  <2>1. At(p, {"daemon_create"}, "begin") /\ Goto(p, "update")
    BY <1>3 DEF WriteConf
  <2>2. QED
    BY <1>2, <2>1, GotoCarries DEF Due, At, Req, SupervisorActs, ReloadPcs
<1>4. CASE RemoveConf(p)
  <2>1. job'[p].pc \in ReloadPcs /\ job'[p].req = job[p].req
    BY <1>4, CarriesFiles DEF RemoveConf, ReloadPcs
  <2>2. QED
    BY <1>2, <1>4, <2>1 DEF RemoveConf, Due, At, Req, SupervisorActs
<1>5. CASE StopProgram(p)
  <2>1. job'[p].pc \in ReloadPcs /\ job'[p].req = job[p].req
    BY <1>5, CarriesTarget DEF StopProgram, ReloadPcs
  <2>2. QED
    BY <1>2, <1>5, <2>1 DEF StopProgram, Due, At, Req, SupervisorActs
<1>6. CASE Update(p) \/ UpdateFails(p)
  BY <1>6 DEF Update, UpdateFails, SupervisorDue
<1>7. CASE ~(WriteConf(p) \/ RemoveConf(p) \/ StopProgram(p) \/ Update(p) \/ UpdateFails(p))
  <2>1. /\ UNCHANGED programs /\ ("supervisor" \in torn <=> "supervisor" \in torn')
        /\ ~Due(p, SupervisorActs, ReloadPcs)
    BY <1>7 DEF Step, programs, Due, At, SupervisorActs, ReloadPcs, NginxActs, KeyActs,
         NginxJobFails, ListPrograms, RemoveSiteDir, TryAcquire, StatGit, Clone, Fetch, Checkout,
         GitFails, CommandBegins, StatEnv, BootstrapEnv, ScriptBegins, ScriptEnds,
         WriteEnvContent, CreateSite, WriteVhost, UnlinkVhost, LinkVhost, TestNginx, ReloadNginx,
         ReadKeys, AppendKey, TruncateKeys, WriteKeys
  <2>2. QED
    BY <1>1, <2>1, DueElsewhere DEF SupervisorDue, ReloadPcs, programs
<1>8. QED
  BY <1>3, <1>4, <1>5, <1>6, <1>7

LEMMA NginxStep ==
  ASSUME JobShapes, NginxDue, NEW p \in Workers, Step(p)
  PROVE  NginxDue'
<1>1. Only(p)
  BY StepCarries DEF Carries
<1>2. ASSUME Due(p, NginxActs, NginxPcs)' PROVE NginxDue'
  BY <1>2 DEF NginxDue
<1>3. ASSUME NEW pc \in NginxPcs, Goto(p, pc), Req(p).act \in NginxActs PROVE NginxDue'
  BY <1>2, <1>3, GotoCarries DEF Due, Req
<1>4. CASE WriteVhost(p) \/ UnlinkVhost(p)
  BY <1>3, <1>4 DEF WriteVhost, UnlinkVhost, At, NginxActs, NginxPcs
<1>5. CASE LinkVhost(p) \/ TestNginx(p)
  <2>1. CASE NginxJobFails(p)
    BY <2>1 DEF NginxJobFails, NginxDue
  <2>2. CASE ~NginxJobFails(p)
    BY <1>3, <1>5, <2>2 DEF LinkVhost, TestNginx, At, NginxPcs
  <2>3. QED
    BY <2>1, <2>2
<1>6. CASE ReloadNginx(p)
  <2>1. "nginx" \in torn' \/ (served' = Enabled /\ UNCHANGED <<vhost, linked>>)
    BY <1>6 DEF ReloadNginx, NginxJobFails
  <2>2. QED
    BY <2>1 DEF NginxDue, Enabled
<1>7. CASE ~(WriteVhost(p) \/ UnlinkVhost(p) \/ LinkVhost(p) \/ TestNginx(p) \/ ReloadNginx(p))
  <2>1. /\ UNCHANGED nginx /\ ("nginx" \in torn <=> "nginx" \in torn')
        /\ ~Due(p, NginxActs, NginxPcs)
    BY <1>7 DEF Step, nginx, Due, At, SupervisorActs, NginxPcs, NginxActs, KeyActs,
         WriteConf, ListPrograms, StopProgram, RemoveConf, Update, UpdateFails,
         RemoveSiteDir, TryAcquire, StatGit, Clone, Fetch, Checkout,
         GitFails, CommandBegins, StatEnv, BootstrapEnv, ScriptBegins, ScriptEnds,
         WriteEnvContent, CreateSite, ReadKeys, AppendKey, TruncateKeys, WriteKeys
  <2>2. Enabled' = Enabled /\ served' = served
    BY <2>1 DEF nginx, Enabled
  <2>3. QED
    BY <1>1, <2>1, <2>2, DueElsewhere DEF NginxDue
<1>8. QED
  BY <1>4, <1>5, <1>6, <1>7

-----------------------------------------------------------------------------
(* What Without removes: by the least prefix for which it would not hold. *)

LEMMA LeastNumber ==
    ASSUME NEW T, T \subseteq Nat, T # {}
    PROVE  \E n \in T : \A m \in T : ~(m < n)
<1>1. IsWellFoundedOn(OpToRel(<, Nat), Nat)
  BY NatLessThanWellFounded
<1>2. PICK n \in T : \A m \in T : ~(<<m, n>> \in OpToRel(<, Nat))
  BY <1>1, WFMin
<1>3. QED
  BY <1>2 DEF OpToRel

KeptBody(s, x, f, n) ==
    IF n = 0 THEN <<>> ELSE IF s[n] = x THEN f[n - 1] ELSE Append(f[n - 1], s[n])
Kept(s, x, f, m) == f = [n \in 0 .. m |-> KeptBody(s, x, f, n)]

LEMMA KeptExists == ASSUME NEW s, NEW x, NEW l \in Nat PROVE \E f : Kept(s, x, f, l)
<1> DEFINE T == {m \in Nat : ~\E f : Kept(s, x, f, m)}
<1> SUFFICES ASSUME T # {} PROVE FALSE
  OBVIOUS
<1>1. PICK m \in T : \A k \in T : ~(k < m)
  BY LeastNumber
<1>2. CASE m = 0
  <2>1. Kept(s, x, [n \in 0 .. 0 |-> <<>>], 0)
    BY DEF Kept, KeptBody
  <2>2. QED
    BY <1>2, <2>1
<1>3. CASE m # 0
  <2>1. m - 1 \in Nat /\ m - 1 \notin T
    BY <1>1, <1>3
  <2>2. PICK f : Kept(s, x, f, m - 1)
    BY <2>1
  <2> DEFINE g == [n \in 0 .. m |-> IF n = m THEN KeptBody(s, x, f, m) ELSE f[n]]
  <2>3. ASSUME NEW n \in 0 .. m PROVE g[n] = KeptBody(s, x, g, n)
    <3>1. n # 0 => n - 1 \in 0 .. m /\ n - 1 # m /\ g[n - 1] = f[n - 1]
      BY <2>1
    <3>2. KeptBody(s, x, g, n) = KeptBody(s, x, f, n)
      BY <3>1 DEF KeptBody
    <3>3. CASE n = m
      BY <3>2, <3>3
    <3>4. CASE n # m
      <4>1. n \in 0 .. (m - 1) /\ g[n] = f[n]
        BY <2>1, <3>4
      <4>2. QED
        BY <2>2, <3>2, <4>1 DEF Kept
    <3>5. QED
      BY <3>3, <3>4
  <2>4. Kept(s, x, g, m)
    BY <2>3 DEF Kept
  <2>5. QED
    BY <2>4
<1>4. QED
  BY <1>2, <1>3

LEMMA WithoutIsKept ==
    ASSUME NEW s, NEW x, Len(s) \in Nat
    PROVE  \E f : Kept(s, x, f, Len(s)) /\ Without(s, x) = f[Len(s)]
<1> DEFINE f == CHOOSE f : Kept(s, x, f, Len(s))
<1>1. Kept(s, x, f, Len(s))
  BY KeptExists
<1>2. Without(s, x) = f[Len(s)]
  BY DEF Without, Kept, KeptBody
<1>3. QED
  BY <1>1, <1>2

\* t has what the first n entries of s have, but for x.
Filtered(S, s, x, n, t) ==
    /\ t \in Seq(S)
    /\ \A y : (\E i \in 1 .. Len(t) : t[i] = y) <=> (y # x /\ \E i \in 1 .. n : s[i] = y)

LEMMA WithoutFilters ==
    ASSUME NEW S, NEW s \in Seq(S), NEW x
    PROVE  Filtered(S, s, x, Len(s), Without(s, x))
<1>1. PICK f : Kept(s, x, f, Len(s)) /\ Without(s, x) = f[Len(s)]
  BY WithoutIsKept
<1>2. Filtered(S, s, x, 0, f[0])
  <2>1. f[0] = <<>>
    BY <1>1 DEF Kept, KeptBody
  <2>2. QED
    BY <2>1 DEF Filtered
<1>3. ASSUME NEW m \in 1 .. Len(s), Filtered(S, s, x, m - 1, f[m - 1])
      PROVE  Filtered(S, s, x, m, f[m])
  <2>1. f[m] = IF s[m] = x THEN f[m - 1] ELSE Append(f[m - 1], s[m])
    <3>1. m \in 0 .. Len(s) /\ m # 0
      OBVIOUS
    <3>2. f[m] = KeptBody(s, x, f, m)
      BY <1>1, <3>1 DEF Kept
    <3>3. QED
      BY <3>1, <3>2 DEF KeptBody
  <2>2. 1 .. m = (1 .. (m - 1)) \cup {m} /\ s[m] \in S
    OBVIOUS
  <2>3. CASE s[m] = x
    BY <1>3, <2>1, <2>2, <2>3 DEF Filtered
  <2>4. CASE s[m] # x
    <3>1. /\ f[m] \in Seq(S) /\ Len(f[m]) = Len(f[m - 1]) + 1 /\ f[m][Len(f[m])] = s[m]
          /\ \A i \in 1 .. Len(f[m - 1]) : f[m][i] = f[m - 1][i]
      BY <1>3, <2>1, <2>2, <2>4, AppendProperties DEF Filtered
    <3>2. 1 .. Len(f[m]) = (1 .. Len(f[m - 1])) \cup {Len(f[m])}
      BY <1>3, <3>1 DEF Filtered
    <3>3. QED
      BY <1>3, <2>2, <2>4, <3>1, <3>2 DEF Filtered
  <2>5. QED
    BY <2>3, <2>4
<1> DEFINE T == {n \in 0 .. Len(s) : ~Filtered(S, s, x, n, f[n])}
<1>4. T = {}
  <2> SUFFICES ASSUME T # {} PROVE FALSE
    OBVIOUS
  <2>1. PICK m \in T : \A k \in T : ~(k < m)
    <3>1. T \subseteq Nat
      OBVIOUS
    <3> HIDE DEF T
    <3>2. QED
      BY <3>1, LeastNumber
  <2>2. m \in 1 .. Len(s)
    BY <1>2
  <2>3. m - 1 \in 0 .. Len(s) /\ m - 1 \notin T
    BY <2>1, <2>2
  <2>4. QED
    BY <1>3, <2>2, <2>3
<1>5. QED
  BY <1>1, <1>4

LEMMA WithoutRemoves ==
    ASSUME NEW S, NEW s \in Seq(S), NEW x
    PROVE  Without(s, x) \in Seq(S) /\ ToSet(Without(s, x)) = ToSet(s) \ {x}
<1> DEFINE t == Without(s, x)
<1>1. Filtered(S, s, x, Len(s), t)
  BY WithoutFilters
<1> HIDE DEF t
<1>2. t \in Seq(S) /\ \A y : (\E i \in 1 .. Len(t) : t[i] = y)
                               <=> (y # x /\ \E i \in 1 .. Len(s) : s[i] = y)
  BY <1>1 DEF Filtered
<1>3. DOMAIN t = 1 .. Len(t) /\ DOMAIN s = 1 .. Len(s)
  BY <1>2
<1>4. ToSet(t) = ToSet(s) \ {x}
  BY <1>2, <1>3 DEF ToSet
<1>5. QED
  BY <1>2, <1>4 DEF t

LEMMA AppendAdds ==
    ASSUME NEW S, NEW s \in Seq(S), NEW x \in S
    PROVE  Append(s, x) \in Seq(S) /\ ToSet(Append(s, x)) = ToSet(s) \cup {x}
<1> DEFINE t == Append(s, x)
<1>1. Append(s, x) \in Seq(S)
  BY AppendProperties
<1>2. Len(t) = Len(s) + 1 /\ t[Len(s) + 1] = x /\ \A i \in 1 .. Len(s) : t[i] = s[i]
  BY AppendProperties
<1>3. DOMAIN t = (1 .. Len(s)) \cup {Len(s) + 1} /\ DOMAIN s = 1 .. Len(s)
  BY <1>1, <1>2
<1> HIDE DEF t
<1>4. ToSet(t) = ToSet(s) \cup {x}
  BY <1>2, <1>3 DEF ToSet
<1>5. QED
  BY <1>1, <1>4 DEF t

-----------------------------------------------------------------------------
(* authorized_keys. *)

LEMMA AloneUnlessAdding ==
  ASSUME OneRemoves, NEW p \in Working({"ssh_key_remove"}), NEW q \in Workers, q # p
  PROVE  q \notin Working(KeyActs)
<1>1. p \in Working(KeyActs) /\ Req(p).act # "ssh_key_add"
  BY DEF Working, KeyActs
<1>2. QED
  BY <1>1 DEF OneRemoves

\* A step that ends no job with keys in its hand and leaves the file alone.
LEMMA KeysUntouched ==
  ASSUME JobShapes, KeysKept, NEW p \in Workers, Carries(p), UNCHANGED sshKeys,
         ~Due(p, {"ssh_key_remove"}, {"truncate", "write"}),
         job[p] # Idle,
         job'[p] = Idle \/ Req(p).act \notin KeyActs
  PROVE  KeysKept'
<1> SUFFICES ASSUME ~tangled, KeysInHand PROVE KeysInHand'
  BY DEF KeysKept, sshKeys
<1>1. Working(KeyActs)' \subseteq Working(KeyActs)
      /\ \A q \in Working(KeyActs)' : job'[q] = job[q]
  BY DEF Working, Carries, Only, Req, KeyActs, Idle
<1>2. OneRemoves'
  BY <1>1 DEF KeysInHand, OneRemoves, Req
<1>3. \A q \in Workers : Due(q, {"ssh_key_remove"}, {"truncate", "write"})'
          <=> Due(q, {"ssh_key_remove"}, {"truncate", "write"})
  BY DEF Due, Carries, Only, Req, KeyActs, Idle
<1>4. \A q \in Workers : At(q, {"ssh_key_remove"}, "write")' <=> At(q, {"ssh_key_remove"}, "write")
  BY DEF Due, At, Carries, Only, Req, KeyActs, Idle
<1>5. \A q \in Workers : Due(q, {"ssh_key_remove"}, {"truncate", "write"}) => job'[q] = job[q]
  BY DEF Carries, Only
<1>6. QED
  BY <1>2, <1>3, <1>4, <1>5 DEF KeysInHand, sshKeys

\* The file and what is wanted change in step, or the one that removes has the file in its hand.
LEMMA ReadKeysStep ==
  ASSUME JobShapes, KeysKept, NEW p \in Workers, ReadKeys(p)
  PROVE  KeysKept'
<1> SUFFICES ASSUME ~tangled, KeysInHand PROVE KeysInHand'
  BY DEF KeysKept, ReadKeys
<1>1. /\ p \in Working(KeyActs) /\ job[p].pc = "begin" /\ keys' = keys
      /\ Req(p).act = "ssh_key_add" \/ Req(p).act = "ssh_key_remove"
  BY DEF ReadKeys, At, Working, KeyActs, Idle
<1>2. Carries(p) /\ Only(p)
  BY StepCarries DEF Step, Carries
<1>3. \A q \in Workers : q # p => ~Due(q, {"ssh_key_remove"}, {"truncate", "write"})
                                  \/ (q \in Working({"ssh_key_remove"}) /\ q \in Working(KeyActs))
  BY DEF Due, Working, Idle, KeyActs
<1>4. \A q \in Workers : ~Due(q, {"ssh_key_remove"}, {"truncate", "write"})
  BY <1>1, <1>3, AloneUnlessAdding DEF KeysInHand, Due
<1>5. ToSet(keys) = wanted
  BY <1>4 DEF KeysInHand, Due, At
<1>6. OneRemoves'
  <2>1. Working(KeyActs)' \subseteq Working(KeyActs)
    BY <1>1, <1>2 DEF Working, Carries, Only, Req
  <2>2. \A q \in Working(KeyActs)' : Req(q)' = Req(q)
    BY <1>2 DEF Working, Carries, Only, Req
  <2>3. QED
    BY <2>1, <2>2 DEF KeysInHand, OneRemoves
<1>7. CASE End(p) /\ KeyJobEnds(p) /\ (Req(p).arg \in ToSet(keys) <=> Req(p).act = "ssh_key_add")
  <2>1. wanted' = wanted
    BY <1>1, <1>5, <1>7 DEF KeyJobEnds
  <2>2. job'[p] = Idle
    BY <1>7, EndCarries
  <2>3. \A q \in Workers : ~Due(q, {"ssh_key_remove"}, {"truncate", "write"})'
    BY <1>2, <1>4, <2>2 DEF Due, Only, Req, Idle
  <2>4. QED
    BY <1>1, <1>5, <1>6, <2>1, <2>3 DEF KeysInHand
<1>8. CASE /\ UNCHANGED wanted
           /\ job' = [job EXCEPT ![p].seen = keys,
                        ![p].pc = IF Req(p).act = "ssh_key_add" THEN "append" ELSE "truncate"]
  <2>1. job'[p].seen = keys /\ job'[p].pc # "write"
    <3>1. PICK pc \in {"append", "truncate"} : job' = [job EXCEPT ![p].seen = keys, ![p].pc = pc]
      BY <1>8
    <3>2. QED
      BY <3>1, CarriesSeen
  <2>2. \A q \in Workers : Due(q, {"ssh_key_remove"}, {"truncate", "write"})' => q = p
    BY <1>2, <1>4 DEF Due, Only, Req
  <2>3. ToSet(keys') = wanted' /\ \A q \in Workers :
            Due(q, {"ssh_key_remove"}, {"truncate", "write"})' => ToSet(job'[q].seen) = wanted'
    BY <1>1, <1>5, <1>8, <2>1, <2>2
  <2>4. QED
    BY <1>6, <2>3 DEF KeysInHand
<1>9. QED
  BY <1>7, <1>8 DEF ReadKeys

LEMMA AppendKeyStep ==
  ASSUME JobShapes, KeysKept, keys \in Seq(Keys), NEW p \in Workers, AppendKey(p)
  PROVE  KeysKept'
<1> SUFFICES ASSUME ~tangled, KeysInHand PROVE KeysInHand'
  BY DEF KeysKept, AppendKey
<1>1. /\ p \in Working(KeyActs) /\ Req(p).act = "ssh_key_add" /\ Req(p) \in Requests
      /\ keys' = Append(keys, Req(p).arg) /\ wanted' = wanted \cup {Req(p).arg}
  BY DEF AppendKey, At, Working, KeyActs, Idle, JobShapes, KeyJobEnds
<1>2. Only(p) /\ job'[p] = Idle
  BY EndCarries DEF AppendKey, Carries
<1>3. \A q \in Workers : ~Due(q, {"ssh_key_remove"}, {"truncate", "write"})
  <2>1. \A q \in Working(KeyActs) : q # p => Req(q).act = "ssh_key_add"
    BY <1>1 DEF KeysInHand, OneRemoves
  <2>2. \A q \in Workers : Due(q, {"ssh_key_remove"}, {"truncate", "write"})
                              => q \in Working(KeyActs) /\ Req(q).act # "ssh_key_add"
    BY DEF Due, Working, Idle, KeyActs
  <2>3. QED
    BY <1>1, <2>1, <2>2
<1>4. ToSet(keys) = wanted
  BY <1>3 DEF KeysInHand, Due, At
<1>5. ToSet(keys') = wanted'
  BY <1>1, <1>4, AppendAdds DEF Keys
<1>6. OneRemoves'
  BY <1>2 DEF KeysInHand, OneRemoves, Working, Only, Req
<1>7. \A q \in Workers : ~Due(q, {"ssh_key_remove"}, {"truncate", "write"})'
  BY <1>2, <1>3 DEF Due, Only, Req, Idle
<1>8. QED
  BY <1>5, <1>6, <1>7 DEF KeysInHand

LEMMA TruncateKeysStep ==
  ASSUME JobShapes, KeysKept, NEW p \in Workers, TruncateKeys(p)
  PROVE  KeysKept'
<1> SUFFICES ASSUME ~tangled, KeysInHand PROVE KeysInHand'
  BY DEF KeysKept, TruncateKeys
<1>1. /\ p \in Working({"ssh_key_remove"}) /\ wanted' = wanted
      /\ Due(p, {"ssh_key_remove"}, {"truncate", "write"})
  BY DEF TruncateKeys, At, Working, Idle, Due
<1>2. /\ Only(p) /\ job'[p].pc = "write" /\ job'[p].req = job[p].req
      /\ job'[p].seen = job[p].seen
  BY GotoCarries DEF TruncateKeys, Carries
<1>3. At(p, {"ssh_key_remove"}, "write")'
  BY <1>1, <1>2 DEF At, Working, Req
<1>4. OneRemoves'
  <2>1. \A q \in Workers : Req(q)' = Req(q)
    BY <1>2 DEF Only, Req
  <2>2. \A q \in Workers : job'[q] # Idle => job[q] # Idle
    BY <1>1, <1>2 DEF Only, Working
  <2>3. QED
    BY <2>1, <2>2 DEF KeysInHand, OneRemoves, Working
<1>5. \A q \in Workers : Due(q, {"ssh_key_remove"}, {"truncate", "write"})'
          => Due(q, {"ssh_key_remove"}, {"truncate", "write"}) /\ job'[q].seen = job[q].seen
  BY <1>1, <1>2 DEF Due, Only, Req
<1>6. QED
  BY <1>1, <1>3, <1>4, <1>5 DEF KeysInHand

LEMMA WriteKeysStep ==
  ASSUME JobShapes, KeysKept, NEW p \in Workers, job[p] # Idle => job[p].seen \in Seq(Keys),
         WriteKeys(p)
  PROVE  KeysKept'
<1> SUFFICES ASSUME ~tangled, KeysInHand PROVE KeysInHand'
  BY DEF KeysKept, WriteKeys
<1>1. /\ p \in Working({"ssh_key_remove"}) /\ job[p].seen \in Seq(Keys)
      /\ ToSet(job[p].seen) = wanted /\ wanted' = wanted \ {Req(p).arg}
      /\ keys' = Without(job[p].seen, Req(p).arg)
  BY DEF WriteKeys, At, Working, Idle, Due, KeysInHand, KeyJobEnds
<1>2. Only(p) /\ job'[p] = Idle
  BY EndCarries DEF WriteKeys, Carries
<1>3. ToSet(keys') = wanted'
  BY <1>1, WithoutRemoves
<1>4. OneRemoves'
  BY <1>2 DEF KeysInHand, OneRemoves, Working, Only, Req
<1>5. \A q \in Workers : ~Due(q, {"ssh_key_remove"}, {"truncate", "write"})'
  <2>1. \A q \in Workers : q # p => q \notin Working(KeyActs)
    BY <1>1, AloneUnlessAdding DEF KeysInHand
  <2>2. \A q \in Workers : Due(q, {"ssh_key_remove"}, {"truncate", "write"}) => q \in Working(KeyActs)
    BY DEF Due, Working, Idle, KeyActs
  <2>3. QED
    BY <1>2, <2>1, <2>2 DEF Due, Only, Req, Idle
<1>6. QED
  BY <1>3, <1>4, <1>5 DEF KeysInHand

LEMMA KeysStep ==
  ASSUME JobShapes, KeysKept, Carried, keys \in Seq(Keys), NEW p \in Workers, Step(p)
  PROVE  KeysKept'
<1>1. CASE ReadKeys(p) \/ AppendKey(p) \/ TruncateKeys(p) \/ WriteKeys(p)
  BY <1>1, ReadKeysStep, AppendKeyStep, TruncateKeysStep, WriteKeysStep DEF Carried
<1>2. CASE ~(ReadKeys(p) \/ AppendKey(p) \/ TruncateKeys(p) \/ WriteKeys(p))
  <2>1. UNCHANGED sshKeys
    BY <1>2 DEF Step, sshKeys, WriteConf, ListPrograms, StopProgram, RemoveConf, Update,
         UpdateFails, RemoveSiteDir, TryAcquire, StatGit, Clone, Fetch, Checkout,
         GitFails, CommandBegins, StatEnv, BootstrapEnv, ScriptBegins, ScriptEnds,
         WriteEnvContent, CreateSite, WriteVhost, UnlinkVhost, LinkVhost, TestNginx, ReloadNginx
  <2>2. CASE GitFails(p)
    <3>1. job[p].pc \in {"clone", "fetch", "checkout"} /\ End(p)
      BY <2>2 DEF GitFails
    <3>2. job'[p] = Idle /\ Carries(p)
      BY <3>1, EndCarries
    <3>3. job[p] # Idle /\ ~Due(p, {"ssh_key_remove"}, {"truncate", "write"})
      BY <3>1 DEF Due, Idle
    <3>4. QED
      BY <2>1, <3>2, <3>3, KeysUntouched
  <2>3. CASE ~GitFails(p)
    <3>1. Req(p).act \notin KeyActs /\ job[p] # Idle
      BY <1>2, <2>3 DEF Step, At, Idle, KeyActs, SupervisorActs, NginxActs, WriteConf,
           ListPrograms, StopProgram, RemoveConf, Update, UpdateFails, RemoveSiteDir, TryAcquire,
           StatGit, Clone, Fetch, Checkout, CommandBegins, StatEnv, BootstrapEnv, ScriptBegins,
           ScriptEnds, WriteEnvContent, CreateSite, WriteVhost, UnlinkVhost, LinkVhost,
           TestNginx, ReloadNginx
    <3>2. ~Due(p, {"ssh_key_remove"}, {"truncate", "write"})
      BY <3>1 DEF Due, KeyActs
    <3>3. QED
      BY <2>1, <3>1, <3>2, StepCarries, KeysUntouched
  <2>4. QED
    BY <2>2, <2>3
<1>3. QED
  BY <1>1, <1>2

-----------------------------------------------------------------------------
(* Steps that are not a job's own: a job starts, the process ends. *)

LEMMA StartDue ==
  ASSUME JobShapes, SupervisorDue, NginxDue, KeysKept,
         NEW p \in Workers, NEW r \in Requests, Start(p, r)
  PROVE  SupervisorDue' /\ NginxDue' /\ KeysKept'
<1>1. /\ Only(p) /\ job[p] = Idle /\ job'[p].pc = "begin" /\ job'[p].req = r
      /\ UNCHANGED <<programs, nginx, torn, keys, wanted>>
  BY DEF Start, Only, JobShapes, Idle
<1>2. SupervisorDue'
  <2>1. \A q \in Workers : Due(q, SupervisorActs, ReloadPcs) => q # p
    BY <1>1 DEF Due, Idle, ReloadPcs
  <2>2. QED
    BY <1>1, <2>1, DueElsewhere DEF SupervisorDue, ReloadPcs, programs
<1>3. NginxDue'
  <2>1. \A q \in Workers : Due(q, NginxActs, NginxPcs) => q # p
    BY <1>1 DEF Due, Idle, NginxPcs
  <2>2. Enabled' = Enabled
    BY <1>1 DEF Enabled, nginx
  <2>3. QED
    BY <1>1, <2>1, <2>2, DueElsewhere DEF NginxDue, nginx
<1>4. ASSUME ~tangled', ~tangled, KeysInHand PROVE KeysInHand'
  <2>1. \A q \in Workers : q # p => (q \in Working(KeyActs)' <=> q \in Working(KeyActs))
    BY <1>1 DEF Working, Only, Req
  <2>2. \A q \in Workers : q # p => Req(q)' = Req(q)
    BY <1>1 DEF Only, Req
  <2>3. r.act \in KeyActs => \A q \in Working(KeyActs) :
                                 Req(q).act = "ssh_key_add" /\ r.act = "ssh_key_add"
    <3>1. r.act \in KeyActs /\ Working(KeyActs) # {} =>
              \A a \in {r} \cup {Req(q) : q \in Working(KeyActs)} : a.act # "ssh_key_remove"
      BY <1>4 DEF Start
    <3>2. \A q \in Working(KeyActs) : Req(q).act \in {"ssh_key_add", "ssh_key_remove"}
      BY DEF Working, KeyActs
    <3>3. QED
      BY <3>1, <3>2 DEF KeyActs
  <2>4. Req(p)' = r /\ (p \in Working(KeyActs)' => r.act \in KeyActs)
    BY <1>1 DEF Working, Req
  <2>5. OneRemoves'
    <3> SUFFICES ASSUME NEW a \in Working(KeyActs)', NEW b \in Working(KeyActs)', a # b
                 PROVE  Req(a)'.act = "ssh_key_add" /\ Req(b)'.act = "ssh_key_add"
      BY DEF OneRemoves
    <3>1. a \in Workers /\ b \in Workers
      BY DEF Working
    <3>2. CASE a = p
      BY <2>1, <2>2, <2>3, <2>4, <3>1, <3>2
    <3>3. CASE b = p
      BY <2>1, <2>2, <2>3, <2>4, <3>1, <3>3
    <3>4. CASE a # p /\ b # p
      BY <1>4, <2>1, <2>2, <3>1, <3>4 DEF KeysInHand, OneRemoves
    <3>5. QED
      BY <3>2, <3>3, <3>4
  <2>6. \A q \in Workers : /\ Due(q, {"ssh_key_remove"}, {"truncate", "write"})' =>
                                  Due(q, {"ssh_key_remove"}, {"truncate", "write"}) /\ q # p
                           /\ At(q, {"ssh_key_remove"}, "write") =>
                                  At(q, {"ssh_key_remove"}, "write")'
    BY <1>1 DEF Due, At, Only, Req, Idle
  <2>7. QED
    BY <1>1, <1>4, <2>5, <2>6 DEF KeysInHand, Only
<1>5. KeysKept'
  BY <1>4 DEF KeysKept, Start
<1>6. QED
  BY <1>2, <1>3, <1>5

LEMMA CrashDue ==
  ASSUME SupervisorDue, NginxDue, KeysKept, Crash
  PROVE  SupervisorDue' /\ NginxDue' /\ KeysKept'
<1>1. SupervisorDue'
  <2>1. \A p \in Workers : Due(p, SupervisorActs, ReloadPcs) => p \in Working(SupervisorActs)
    BY DEF Due, Working, Idle, ReloadPcs
  <2>2. Working(SupervisorActs) # {} => "supervisor" \in torn'
    BY DEF Crash
  <2>3. UNCHANGED programs /\ torn \subseteq torn'
    BY DEF Crash
  <2>4. QED
    BY <2>1, <2>2, <2>3 DEF SupervisorDue, ReloadPcs, programs
<1>2. NginxDue'
  <2>1. \A p \in Workers : Due(p, NginxActs, NginxPcs) => p \in Working(NginxActs)
    BY DEF Due, Working, Idle, NginxPcs
  <2>2. Working(NginxActs) # {} => "nginx" \in torn'
    BY DEF Crash
  <2>3. UNCHANGED nginx /\ torn \subseteq torn'
    BY DEF Crash
  <2>4. Enabled' = Enabled /\ served' = served
    BY <2>3 DEF Enabled, nginx
  <2>5. QED
    BY <2>1, <2>2, <2>3, <2>4 DEF NginxDue
<1>3. KeysKept'
  <2>1. Working(KeyActs)' = {} /\ \A p \in Workers : job'[p].pc = "idle"
    BY DEF Crash, Working, Idle
  <2>2. ~tangled' => ToSet(keys') = wanted'
    BY DEF Crash, KeysKept, KeysInHand
  <2>3. QED
    BY <2>1, <2>2 DEF KeysKept, KeysInHand, OneRemoves, Due
<1>4. QED
  BY <1>1, <1>2, <1>3

LEMMA StutterDue ==
  ASSUME SupervisorDue, NginxDue, KeysKept, UNCHANGED <<job, programs, nginx, sshKeys, torn>>
  PROVE  SupervisorDue' /\ NginxDue' /\ KeysKept'
<1>1. SupervisorDue'
  BY DEF SupervisorDue, Due, Req, programs
<1>2. NginxDue'
  BY DEF NginxDue, Due, Req, nginx, Enabled
<1>3. KeysKept'
  BY DEF KeysKept, KeysInHand, OneRemoves, Working, Due, At, Req, sshKeys
<1>4. QED
  BY <1>1, <1>2, <1>3

-----------------------------------------------------------------------------
(* The types. *)

LEMMA SiteActs ==
  ASSUME NEW r \in Requests, r.act \in siteScopedActions
  PROVE  r.site \in Sites /\ (r.act \in daemonActions => r.arg \in Names)
BY RequestsAssumption DEF validateActionParams

LEMMA LocksStep ==
  ASSUME IInv, LocksOfHolders, NEW p \in Workers, Step(p)
  PROVE  LocksOfHolders'
<1> USE DEF IInv, Shapes
<1>1. ASSUME Aside(p) PROVE LocksOfHolders'
  <2>1. Holders' = Holders /\ \A q \in Holders : q # p /\ job'[q] = job[q]
    BY <1>1 DEF Aside, Only, Holders, Req, DeployActs, Idle
  <2>2. QED
    BY <1>1, <2>1 DEF Aside, LocksOfHolders, Site
<1>2. ASSUME End(p), job[p] # Idle PROVE LocksOfHolders'
  <2>1. Ended(p)
    BY <1>2, JobEnds DEF End
  <2>2. Holders' = Holders \ {p} /\ \A q \in Holders' : Site(q)' = Site(q)
    BY <2>1 DEF Ended, Only, Holders, Req, Site
  <2>3. CASE p \in Holders
    <3>1. locked' = locked \ {Site(p)}
      BY <1>2, <2>3 DEF End, Holders
    <3>2. QED
      BY <2>2, <2>3, <3>1 DEF LocksOfHolders, Locks
  <2>4. CASE p \notin Holders
    <3>1. locked' = locked
      BY <1>2, <2>4 DEF End, Holders
    <3>2. QED
      BY <2>2, <2>4, <3>1 DEF LocksOfHolders
  <2>5. QED
    BY <2>3, <2>4
<1>3. ASSUME NEW pc, pc \notin {"idle", "begin"}, NEW rev, Moved(p, pc, rev), UNCHANGED locked,
             job[p] # Idle, job[p].pc # "begin"
      PROVE  LocksOfHolders'
  <2>1. job'[p] # Idle
    BY <1>3 DEF Moved, Idle
  <2>2. Holders' = Holders /\ \A q \in Holders : Site(q)' = Site(q)
    BY <1>3, <2>1 DEF Moved, Only, Holders, Req, Site
  <2>3. QED
    BY <1>3, <2>2 DEF LocksOfHolders
<1>4. CASE OtherStep(p)
  BY <1>1, <1>4, OthersStandAside
<1>5. CASE TryAcquire(p)
  <2>1. job[p] # Idle /\ job[p].pc = "begin" /\ Req(p).act \in DeployActs
    BY <1>5 DEF TryAcquire, At, Idle, DeployActs
  <2>2. CASE Site(p) \in locked
    BY <1>2, <1>5, <2>1, <2>2 DEF TryAcquire
  <2>3. CASE Site(p) \notin locked
    <3>1. Moved(p, "git", job[p].rev) /\ locked' = locked \cup {Site(p)}
      BY <1>5, <2>1, <2>3, MovesPc DEF TryAcquire
    <3>2. Holders' = Holders \cup {p} /\ \A q \in Holders' : Site(q)' = Site(q)
      BY <2>1, <3>1 DEF Holders, Moved, Only, Req, Site, Idle, DeployActs
    <3>3. QED
      BY <3>1, <3>2 DEF LocksOfHolders
  <2>4. QED
    BY <2>2, <2>3
<1>6. CASE StatGit(p) \/ Fetch(p) \/ StatEnv(p) \/ BootstrapEnv(p) \/ ScriptBegins(p)
  <2>1. PICK pc \in {"clone", "fetch", "checkout", "bootstrap", "params", "script"} : Goto(p, pc)
    BY <1>6 DEF StatGit, Fetch, StatEnv, BootstrapEnv, ScriptBegins
  <2>2. job[p] # Idle /\ job[p].pc # "begin"
    BY <1>6 DEF StatGit, Fetch, StatEnv, BootstrapEnv, ScriptBegins, At, Idle
  <2>3. Moved(p, pc, job[p].rev) /\ UNCHANGED locked
    BY <2>1, <2>2, MovesPc DEF Goto
  <2>4. QED
    BY <1>3, <2>2, <2>3
<1>7. CASE Clone(p) \/ Checkout(p)
  <2>1. job[p] # Idle /\ job[p].pc # "begin" /\ \E rev : CheckedOut(p, rev)
    BY <1>7 DEF Clone, Checkout, At, Idle
  <2>2. End(p) \/ \E rev : Moved(p, "env", rev) /\ UNCHANGED locked
    BY <2>1, MovesRev DEF CheckedOut
  <2>3. QED
    BY <1>2, <1>3, <2>1, <2>2
<1>8. CASE GitFails(p) \/ ScriptEnds(p)
  BY <1>2, <1>8 DEF GitFails, ScriptEnds, At, Idle
<1>9. QED
  BY <1>4, <1>5, <1>6, <1>7, <1>8 DEF Step, OtherStep

LEMMA StrictPrefix ==
  ASSUME NEW S, NEW a \in Seq(S), NEW b \in Seq(S), b # <<>>
  PROVE  IsStrictPrefix(a, a \o b)
<1>1. a \o b \in Seq(S) /\ Len(a \o b) = Len(a) + Len(b) /\ Len(b) \in Nat \ {0} /\ Len(a) \in Nat
      /\ \A i \in 1 .. Len(a) : (a \o b)[i] = a[i]
  BY EmptySeq, ConcatProperties
<1>2. SubSeq(a, 1, Len(a)) = SubSeq(a \o b, 1, Len(a))
  BY <1>1, SubSeqProperties
<1>3. QED
  BY <1>1, <1>2 DEF IsStrictPrefix, IsPrefix

LEMMA ProgramNames == ASSUME NEW s \in Sites, NEW n \in Names PROVE s \o n \in Programs
BY DEF Programs

LEMMA ProgramsStep ==
  ASSUME JobShapes, Carried, ProgramsTyped, NEW p \in Workers, Step(p)
  PROVE  ProgramsTyped'
<1>1. started' = started
  BY DEF Step, bounds, WriteConf, ListPrograms, StopProgram, RemoveConf, Update, UpdateFails,
         RemoveSiteDir, TryAcquire, StatGit, Clone, Fetch, Checkout, GitFails, CommandBegins,
         StatEnv, BootstrapEnv, ScriptBegins, ScriptEnds, WriteEnvContent, CreateSite,
         WriteVhost, UnlinkVhost, LinkVhost, TestNginx, ReloadNginx, ReadKeys, AppendKey,
         TruncateKeys, WriteKeys
<1> USE DEF ProgramsTyped, ProgramOf
<1>2. CASE WriteConf(p)
  <2> DEFINE f == Site(p) \o Req(p).arg
             c == [num |-> job[p].num, site |-> Site(p)]
  <2>1. job[p] # Idle /\ Req(p).act = "daemon_create" /\ Req(p) \in Requests
        /\ job[p].num \in 1 .. started
    BY <1>2 DEF WriteConf, At, Idle, JobShapes, Carried
  <2>2. Site(p) \in Sites /\ Req(p).arg \in Names
    BY <2>1, SiteActs DEF Site, Req, siteScopedActions, daemonActions
  <2>3. f \in Programs /\ IsStrictPrefix(Site(p), f)
    <3>1. /\ Site(p) \in Seq(STRING) /\ Req(p).arg \in Seq(STRING)
          /\ Req(p).arg # <<>>
      BY <2>2, HostAssumption
    <3>2. IsStrictPrefix(Site(p), f)
      BY <3>1, StrictPrefix
    <3>3. f \in Programs
      BY <2>2, ProgramNames
    <3>4. QED
      BY <3>2, <3>3
  <2>4. c \in ProgramOf(f)
    BY <2>1, <2>2, <2>3
  <2>5. conf' = [conf EXCEPT ![f] = c] /\ progs' = progs
    BY <1>2 DEF WriteConf
  <2> HIDE DEF f, c
  <2>6. QED
    BY <1>1, <2>3, <2>4, <2>5
<1>3. CASE RemoveConf(p)
  BY <1>1, <1>3 DEF RemoveConf
<1>4. CASE StopProgram(p)
  BY <1>1, <1>4 DEF StopProgram
<1>5. CASE Update(p)
  BY <1>1, <1>5 DEF Update
<1>6. CASE ~(WriteConf(p) \/ RemoveConf(p) \/ StopProgram(p) \/ Update(p))
  <2>1. UNCHANGED programs
    BY <1>6 DEF Step, programs, ListPrograms, UpdateFails,
         RemoveSiteDir, TryAcquire, StatGit, Clone, Fetch, Checkout, GitFails, CommandBegins,
         StatEnv, BootstrapEnv, ScriptBegins, ScriptEnds, WriteEnvContent, CreateSite,
         WriteVhost, UnlinkVhost, LinkVhost, TestNginx, ReloadNginx, ReadKeys, AppendKey,
         TruncateKeys, WriteKeys
  <2>2. QED
    BY <1>1, <2>1 DEF programs
<1>7. QED
  BY <1>2, <1>3, <1>4, <1>5, <1>6

\* Whatever makes something in a site's directory makes the directory, or finds it.
LEMMA OneSiteChanges ==
  ASSUME SiteShapes, SitesTyped, NEW p,
         \A s \in Sites \ {Site(p)} : site'[s] = site[s],
         Site(p) \in Sites => site'[Site(p)].dir = TRUE \/ site'[Site(p)] = NoCheckout
  PROVE  SitesTyped'
BY DEF SitesTyped

LEMMA SitesStep ==
  ASSUME IInv, SitesTyped, NEW p \in Workers, Step(p)
  PROVE  SitesTyped'
<1>1. SiteShapes
  BY DEF IInv, Shapes
<1> USE <1>1 DEF SiteShapes
<1>2. CASE RemoveSiteDir(p)
  BY <1>2, OneSiteChanges DEF RemoveSiteDir
<1>3. CASE TryAcquire(p)
  <2>1. CASE UNCHANGED site
    BY <2>1 DEF SitesTyped
  <2>2. ASSUME NEW sync \in BOOLEAN, site' = [site EXCEPT ![Site(p)].dir = @ \/ sync]
        PROVE  SitesTyped'
    <3>1. ASSUME Site(p) \in Sites, site[Site(p)].dir = TRUE PROVE site'[Site(p)].dir = TRUE
      BY <2>2, <3>1
    <3>2. ASSUME Site(p) \in Sites, site[Site(p)] = NoCheckout
          PROVE  site'[Site(p)].dir = TRUE \/ site'[Site(p)] = NoCheckout
      <4>1. site'[Site(p)] = [site[Site(p)] EXCEPT !.dir = site[Site(p)].dir \/ sync]
        BY <2>2, <3>2
      <4>2. site'[Site(p)] = [NoCheckout EXCEPT !.dir = NoCheckout.dir \/ sync]
        BY <3>2, <4>1, Zenon
      <4>3. QED
        BY <4>2 DEF NoCheckout
    <3>3. \A s \in Sites \ {Site(p)} : site'[s] = site[s]
      BY <2>2
    <3>4. QED
      BY <3>1, <3>2, <3>3, OneSiteChanges DEF SitesTyped
  <2>3. QED
    BY <1>3, <2>1, <2>2 DEF TryAcquire
<1>4. CASE Clone(p)
  <2>1. \A s \in Sites : IF s = Site(p) THEN site'[s].dir = TRUE ELSE site'[s] = site[s]
    BY <1>4 DEF Clone
  <2>2. QED
    BY <2>1, OneSiteChanges
<1>5. CASE Fetch(p)
  <2>1. Site(p) \in Sites /\ site[Site(p)].git # None
    BY <1>5, AtGit DEF Fetch, DeployActs
  <2>2. site[Site(p)].dir = TRUE
    BY <2>1 DEF SitesTyped, NoCheckout
  <2>3. \A s \in Sites \ {Site(p)} : site'[s] = site[s]
    BY <1>5, <2>1 DEF Fetch
  <2>4. site'[Site(p)].dir = site[Site(p)].dir
    BY <1>5, <2>1 DEF Fetch
  <2>5. QED
    BY <2>2, <2>3, <2>4, OneSiteChanges
<1>6. CASE Checkout(p)
  <2>1. Site(p) \in Sites /\ site[Site(p)].git # None
    BY <1>6, AtGit DEF Checkout, DeployActs
  <2>2. site[Site(p)].dir = TRUE
    BY <2>1 DEF SitesTyped, NoCheckout
  <2>3. \A s \in Sites \ {Site(p)} : site'[s] = site[s]
    BY <1>6, <2>1 DEF Checkout
  <2>4. site'[Site(p)].dir = site[Site(p)].dir
    BY <1>6, <2>1 DEF Checkout
  <2>5. QED
    BY <2>2, <2>3, <2>4, OneSiteChanges
<1>7. CASE CommandBegins(p) \/ ScriptBegins(p) \/ WriteEnvContent(p) \/ CreateSite(p)
  <2>1. MakeDir(p) \/ WriteEnv(p) \/ UNCHANGED site
    BY <1>7 DEF CommandBegins, ScriptBegins, WriteEnvContent, CreateSite
  <2>2. CASE MakeDir(p) \/ WriteEnv(p)
    <3>1. \A s \in Sites : IF s = Site(p) THEN site'[s].dir = TRUE ELSE site'[s] = site[s]
      BY <2>2 DEF MakeDir, WriteEnv
    <3>2. QED
      BY <3>1, OneSiteChanges
  <2>3. CASE UNCHANGED site
    BY <2>3 DEF SitesTyped
  <2>4. QED
    BY <2>1, <2>2, <2>3
<1>8. CASE BootstrapEnv(p)
  <2>1. site' = [site EXCEPT ![Site(p)].env = site[Site(p)].dir]
    BY <1>8 DEF BootstrapEnv
  <2>2. \A s \in Sites \ {Site(p)} : site'[s] = site[s]
    BY <2>1
  <2>3. Site(p) \in Sites /\ site[Site(p)].dir = TRUE => site'[Site(p)].dir = TRUE
    BY <2>1
  <2>4. ASSUME Site(p) \in Sites, site[Site(p)] = NoCheckout PROVE site'[Site(p)] = NoCheckout
    <3>1. site'[Site(p)] = [site[Site(p)] EXCEPT !.env = site[Site(p)].dir]
      BY <2>1, <2>4
    <3>2. site'[Site(p)] = [NoCheckout EXCEPT !.env = NoCheckout.dir]
      BY <2>4, <3>1, Zenon
    <3>3. QED
      BY <3>2 DEF NoCheckout
  <2>5. QED
    BY <2>2, <2>3, <2>4, OneSiteChanges DEF SitesTyped
<1>9. CASE ~(RemoveSiteDir(p) \/ TryAcquire(p) \/ Clone(p) \/ Fetch(p) \/ Checkout(p)
             \/ CommandBegins(p) \/ ScriptBegins(p) \/ WriteEnvContent(p) \/ CreateSite(p)
             \/ BootstrapEnv(p))
  <2>1. UNCHANGED site
    BY <1>9 DEF Step, WriteConf, ListPrograms, StopProgram, RemoveConf, Update, UpdateFails,
         StatGit, GitFails, StatEnv, ScriptEnds, WriteVhost, UnlinkVhost, LinkVhost, TestNginx,
         ReloadNginx, ReadKeys, AppendKey, TruncateKeys, WriteKeys
  <2>2. QED
    BY <2>1 DEF SitesTyped
<1>10. QED
  BY <1>2, <1>3, <1>4, <1>5, <1>6, <1>7, <1>8, <1>9

\* A vhost that a job is about to link is there, and stays.
LEMMA NginxDueBefore ==
  ASSUME JobShapes, NEW p \in Workers, Step(p), Due(p, NginxActs, NginxPcs)'
  PROVE  WriteVhost(p) \/ Due(p, NginxActs, NginxPcs)
<1>1. CASE UnlinkVhost(p) \/ LinkVhost(p) \/ TestNginx(p) \/ ReloadNginx(p)
  BY <1>1 DEF UnlinkVhost, LinkVhost, TestNginx, ReloadNginx, At, Due, NginxPcs
<1>2. CASE CreateSite(p)
  BY <1>2, GotoCarries DEF CreateSite, Due, NginxPcs
<1>3. CASE GitFails(p)
  BY <1>3, EndCarries DEF GitFails, Due, NginxPcs, Idle
<1>4. CASE ~(WriteVhost(p) \/ UnlinkVhost(p) \/ LinkVhost(p) \/ TestNginx(p) \/ ReloadNginx(p)
             \/ CreateSite(p) \/ GitFails(p))
  <2>1. Req(p).act \notin NginxActs
    BY <1>4 DEF Step, At, KeyActs, SupervisorActs, NginxActs, WriteConf,
         ListPrograms, StopProgram, RemoveConf, Update, UpdateFails, RemoveSiteDir, TryAcquire,
         StatGit, Clone, Fetch, Checkout, CommandBegins, StatEnv, BootstrapEnv, ScriptBegins,
         ScriptEnds, WriteEnvContent, ReadKeys, AppendKey, TruncateKeys, WriteKeys
  <2>2. QED
    BY <2>1, StepCarries DEF Carries, Due, Req, Idle, NginxPcs
<1>5. QED
  BY <1>1, <1>2, <1>3, <1>4

LEMMA VhostsStep ==
  ASSUME JobShapes, Carried, VhostsTyped, NEW p \in Workers, Step(p)
  PROVE  /\ VhostsTyped'
         /\ \A s \in Sites : vhost[s] # None => vhost'[s] # None
         /\ WriteVhost(p) => vhost'[Site(p)] # None
<1> USE DEF VhostsTyped
<1>1. CASE WriteVhost(p)
  <2> DEFINE v == [num |-> job[p].num, valid |-> Req(p).arg # Broken]
  <2>1. job[p] # Idle /\ Req(p) \in Requests /\ Req(p).act \in siteScopedActions
        /\ job[p].num \in 1 .. started
    BY <1>1 DEF WriteVhost, At, Idle, JobShapes, Carried, siteScopedActions
  <2>2. Site(p) \in Sites
    BY <2>1, SiteActs DEF Site, Req
  <2>3. v \in [num : Nat, valid : BOOLEAN] /\ v # None
    <3>1. job[p].num \in Nat
      BY <2>1 DEF Carried
    <3>2. v \in [num : Nat, valid : BOOLEAN]
      BY <3>1
    <3>3. QED
      BY <3>2, HostAssumption
  <2>4. vhost' = [vhost EXCEPT ![Site(p)] = v] /\ linked' = linked
    BY <1>1 DEF WriteVhost
  <2> HIDE DEF v
  <2>5. QED
    BY <2>2, <2>3, <2>4
<1>2. CASE LinkVhost(p)
  <2>1. /\ job[p] # Idle /\ Req(p) \in Requests /\ Req(p).act \in siteScopedActions
        /\ Due(p, NginxActs, NginxPcs)
    BY <1>2 DEF LinkVhost, At, Idle, JobShapes, NginxActs, NginxPcs, Due, siteScopedActions
  <2>2. Site(p) \in Sites /\ vhost[Site(p)] # None
    BY <2>1, SiteActs DEF Site, Req, Carried
  <2>3. vhost' = vhost /\ linked' \in {linked, linked \cup {Site(p)}}
    BY <1>2 DEF LinkVhost
  <2>4. ~WriteVhost(p)
    BY <1>2 DEF LinkVhost, WriteVhost, At
  <2>5. QED
    BY <2>2, <2>3, <2>4
<1>3. CASE UnlinkVhost(p)
  <2>1. ~WriteVhost(p)
    BY <1>3 DEF UnlinkVhost, WriteVhost, At
  <2>2. QED
    BY <1>3, <2>1 DEF UnlinkVhost
<1>4. CASE ~(WriteVhost(p) \/ LinkVhost(p) \/ UnlinkVhost(p))
  <2>1. UNCHANGED <<vhost, linked>>
    BY <1>4 DEF Step, nginx, WriteConf, ListPrograms, StopProgram, RemoveConf, Update, UpdateFails,
         RemoveSiteDir, TryAcquire, StatGit, Clone, Fetch, Checkout, GitFails, CommandBegins,
         StatEnv, BootstrapEnv, ScriptBegins, ScriptEnds, WriteEnvContent, CreateSite,
         TestNginx, ReloadNginx, ReadKeys, AppendKey, TruncateKeys, WriteKeys
  <2>2. QED
    BY <1>4, <2>1
<1>5. QED
  BY <1>1, <1>2, <1>3, <1>4

LEMMA StepAwake == ASSUME NEW p \in Workers, Step(p) PROVE job[p] # Idle
<1>1. job[p].pc # "idle"
  BY DEF Step, At, WriteConf, GitFails,
         ListPrograms, StopProgram, RemoveConf, Update, UpdateFails, RemoveSiteDir, TryAcquire,
         StatGit, Clone, Fetch, Checkout, CommandBegins, StatEnv, BootstrapEnv, ScriptBegins,
         ScriptEnds, WriteEnvContent, CreateSite, WriteVhost, UnlinkVhost, LinkVhost,
         TestNginx, ReloadNginx, ReadKeys, AppendKey, TruncateKeys, WriteKeys
<1>2. QED
  BY <1>1 DEF Idle

LEMMA CarriedStep ==
  ASSUME JobShapes, JobShapes', Carried, VhostsTyped, keys \in Seq(Keys), NEW p \in Workers, Step(p)
  PROVE  Carried'
<1>1. started' = started
  BY DEF Step, bounds, WriteConf, ListPrograms, StopProgram, RemoveConf, Update, UpdateFails,
         RemoveSiteDir, TryAcquire, StatGit, Clone, Fetch, Checkout, GitFails, CommandBegins,
         StatEnv, BootstrapEnv, ScriptBegins, ScriptEnds, WriteEnvContent, CreateSite,
         WriteVhost, UnlinkVhost, LinkVhost, TestNginx, ReloadNginx, ReadKeys, AppendKey,
         TruncateKeys, WriteKeys
<1>2. Carries(p)
  BY StepCarries
<1>3. ASSUME NEW q \in Workers, job'[q] # Idle
      PROVE  job[q] # Idle \/ q = p
  BY <1>2, <1>3 DEF Carries, Only
<1>4. job[p] # Idle
  BY StepAwake
<1>5. ASSUME NEW q \in Workers, job'[q] # Idle
      PROVE  job'[q].num \in 1 .. started' /\ job'[q].seen \in Seq(Keys)
  BY <1>1, <1>2, <1>3, <1>4, <1>5 DEF Carried, Carries, Only
<1>6. ASSUME NEW q \in Workers, job'[q] # Idle, Due(q, NginxActs, NginxPcs)'
      PROVE  vhost'[Site(q)'] # None
  <2>1. Site(q)' \in Sites
    <3>1. Req(q)' \in Requests /\ Req(q)'.act \in siteScopedActions
      BY <1>6 DEF JobShapes, Due, NginxActs, siteScopedActions
    <3>2. QED
      BY <3>1, SiteActs DEF Site, Req
  <2>2. Site(q)' = Site(q) /\ job[q] # Idle
    BY <1>2, <1>4, <1>6 DEF Carries, Only, Site
  <2>3. (WriteVhost(p) /\ q = p) \/ Due(q, NginxActs, NginxPcs)
    BY <1>2, <1>6, NginxDueBefore DEF Carries, Only, Due, Req
  <2>4. CASE WriteVhost(p) /\ q = p
    BY <2>2, <2>4, VhostsStep
  <2>5. CASE Due(q, NginxActs, NginxPcs)
    BY <2>1, <2>2, <2>5, VhostsStep DEF Carried
  <2>6. QED
    BY <2>3, <2>4, <2>5
<1>7. QED
  BY <1>1, <1>5, <1>6 DEF Carried

LEMMA KeysTypedStep ==
  ASSUME JobShapes, Carried, KeysTyped, NEW p \in Workers, Step(p)
  PROVE  KeysTyped'
<1>1. torn' \in {torn, torn \cup {"nginx"}, torn \cup {"supervisor"},
                 torn \ {"nginx"}, torn \ {"supervisor"}}
  BY DEF Step, NginxJobFails, WriteConf, ListPrograms, StopProgram, RemoveConf, Update, UpdateFails,
         RemoveSiteDir, TryAcquire, StatGit, Clone, Fetch, Checkout, GitFails, CommandBegins,
         StatEnv, BootstrapEnv, ScriptBegins, ScriptEnds, WriteEnvContent, CreateSite,
         WriteVhost, UnlinkVhost, LinkVhost, TestNginx, ReloadNginx, ReadKeys, AppendKey,
         TruncateKeys, WriteKeys
<1>2. keys' \in Seq(Keys)
  <2>1. CASE AppendKey(p)
    <3>1. Req(p) \in Requests /\ keys' = Append(keys, Req(p).arg)
      BY <2>1 DEF AppendKey, At, Idle, JobShapes
    <3>2. Req(p).arg \in Keys
      BY <3>1 DEF Keys
    <3>3. QED
      BY <3>1, <3>2, AppendAdds DEF KeysTyped
  <2>2. CASE WriteKeys(p)
    <3>1. job[p].seen \in Seq(Keys) /\ keys' = Without(job[p].seen, Req(p).arg)
      BY <2>2 DEF WriteKeys, At, Idle, Carried
    <3>2. QED
      BY <3>1, WithoutRemoves
  <2>3. CASE TruncateKeys(p)
    <3>1. keys' = <<>>
      BY <2>3 DEF TruncateKeys
    <3>2. QED
      BY <3>1
  <2>4. CASE ~(AppendKey(p) \/ WriteKeys(p) \/ TruncateKeys(p))
    <3>1. keys' = keys
      BY <2>4 DEF Step, sshKeys, WriteConf, ListPrograms, StopProgram, RemoveConf, Update,
         UpdateFails, RemoveSiteDir, TryAcquire, StatGit, Clone, Fetch, Checkout, GitFails,
         CommandBegins, StatEnv, BootstrapEnv, ScriptBegins, ScriptEnds, WriteEnvContent,
         CreateSite, WriteVhost, UnlinkVhost, LinkVhost, TestNginx, ReloadNginx, ReadKeys
    <3>2. QED
      BY <3>1 DEF KeysTyped
  <2>5. QED
    BY <2>1, <2>2, <2>3, <2>4
<1>3. QED
  BY <1>1, <1>2 DEF KeysTyped

LEMMA Widen == ASSUME NEW S, NEW T, S \subseteq T, NEW s \in Seq(S) PROVE s \in Seq(T)
<1>1. Len(s) \in Nat /\ s \in [1 .. Len(s) -> S]
  BY LenProperties
<1>2. s \in [1 .. Len(s) -> T]
  BY <1>1
<1>3. QED
  BY <1>1, <1>2, SeqDef

LEMMA InitFiles == Init => FilesInv
<1> SUFFICES ASSUME Init PROVE FilesInv
  OBVIOUS
<1>1. \A p \in Workers : job[p] = Idle /\ job[p].pc = "idle"
  BY DEF Init, Idle
<1>2. keys \in Seq(Keys)
  BY HostAssumption, Widen DEF Init, Keys
<1>3. Carried
  BY <1>1 DEF Init, Carried
<1>4. LocksOfHolders
  BY <1>1 DEF Init, LocksOfHolders, Holders
<1>5. ProgramsTyped
  BY DEF Init, ProgramsTyped, ProgramOf
<1>6. SitesTyped /\ VhostsTyped
  BY DEF Init, SitesTyped, VhostsTyped
<1>7. KeysTyped
  BY <1>2 DEF Init, KeysTyped
<1>8. SupervisorDue
  BY DEF Init, SupervisorDue
<1>9. NginxDue
  BY DEF Init, NginxDue, Enabled
<1>10. KeysKept
  BY <1>1 DEF Init, KeysKept, KeysInHand, OneRemoves, Working, Due
<1>11. QED
  BY <1>3, <1>4, <1>5, <1>6, <1>7, <1>8, <1>9, <1>10 DEF FilesInv, FilesTyped

LEMMA StartTyped ==
  ASSUME JobShapes, FilesTyped, NEW p \in Workers, NEW r \in Requests, Start(p, r)
  PROVE  FilesTyped'
<1>1. /\ Only(p) /\ job[p] = Idle /\ job'[p] # Idle
      /\ job'[p].pc = "begin" /\ job'[p].num = started + 1 /\ job'[p].seen = <<>>
      /\ started' = started + 1
      /\ UNCHANGED <<locked, programs, site, nginx, keys, torn>>
  BY DEF Start, Only, JobShapes, Idle
<1>2. started \in Nat
  BY DEF FilesTyped, Carried
<1>3. Carried'
  <2>1. ASSUME NEW q \in Workers, job'[q] # Idle, q # p
        PROVE  /\ job'[q].num \in 1 .. started' /\ job'[q].seen \in Seq(Keys)
               /\ Due(q, NginxActs, NginxPcs)' => vhost'[Site(q)'] # None
    BY <1>1, <1>2, <2>1 DEF FilesTyped, Carried, Only, Due, Req, Site, nginx
  <2>2. job'[p].num \in 1 .. started' /\ job'[p].seen \in Seq(Keys)
    BY <1>1, <1>2
  <2>3. ~Due(p, NginxActs, NginxPcs)'
    BY <1>1 DEF Due, NginxPcs
  <2>4. started' \in Nat
    BY <1>1, <1>2
  <2> HIDE DEF Due
  <2>5. \A q \in Workers : job'[q] # Idle =>
            /\ job'[q].num \in 1 .. started' /\ job'[q].seen \in Seq(Keys)
            /\ Due(q, NginxActs, NginxPcs)' => vhost'[Site(q)'] # None
    BY <2>1, <2>2, <2>3, Zenon
  <2>6. QED
    BY <2>4, <2>5, Zenon DEF Carried
<1>4. LocksOfHolders'
  <2>1. Holders' = Holders /\ \A q \in Holders : Site(q)' = Site(q)
    BY <1>1 DEF Holders, Only, Site, Req
  <2>2. QED
    BY <1>1, <2>1 DEF FilesTyped, LocksOfHolders
<1>5. ProgramsTyped'
  <2>1. 1 .. started \subseteq 1 .. started'
    BY <1>1, <1>2
  <2>2. \A f : ProgramOf(f) \subseteq ProgramOf(f)'
    BY <2>1 DEF ProgramOf
  <2>3. QED
    BY <1>1, <2>2 DEF FilesTyped, ProgramsTyped, programs
<1>6. SitesTyped' /\ VhostsTyped' /\ KeysTyped'
  BY <1>1 DEF FilesTyped, SitesTyped, VhostsTyped, KeysTyped, nginx
<1>7. QED
  BY <1>3, <1>4, <1>5, <1>6 DEF FilesTyped

LEMMA CrashTyped == ASSUME FilesTyped, Crash PROVE FilesTyped'
<1>1. /\ \A p \in Workers : job'[p] = Idle /\ job'[p].pc = "idle"
      /\ locked' = {} /\ torn' \subseteq torn \cup {"supervisor", "nginx"}
      /\ UNCHANGED <<programs, site, nginx, keys, started>>
  BY DEF Crash, Idle
<1>2. Carried' /\ LocksOfHolders'
  BY <1>1 DEF FilesTyped, Carried, LocksOfHolders, Holders
<1>3. ProgramsTyped'
  BY <1>1 DEF FilesTyped, ProgramsTyped, ProgramOf, programs
<1>4. SitesTyped' /\ VhostsTyped' /\ KeysTyped'
  BY <1>1 DEF FilesTyped, SitesTyped, VhostsTyped, KeysTyped, nginx
<1>5. QED
  BY <1>2, <1>3, <1>4 DEF FilesTyped

LEMMA StutterTyped ==
  ASSUME FilesTyped, UNCHANGED <<job, locked, programs, site, nginx, sshKeys, torn, started>>
  PROVE  FilesTyped'
<1>1. Carried' /\ LocksOfHolders'
  BY DEF FilesTyped, Carried, LocksOfHolders, Holders, Site, Req, Due, nginx
<1>2. ProgramsTyped'
  BY DEF FilesTyped, ProgramsTyped, ProgramOf, programs
<1>3. SitesTyped' /\ VhostsTyped' /\ KeysTyped'
  BY DEF FilesTyped, SitesTyped, VhostsTyped, KeysTyped, nginx, sshKeys
<1>4. QED
  BY <1>1, <1>2, <1>3 DEF FilesTyped

-----------------------------------------------------------------------------
(* The invariant. *)

LEMMA FilesInductive == IInv /\ FilesInv /\ [Next]_vars => FilesInv'
<1> SUFFICES ASSUME IInv, FilesInv, [Next]_vars PROVE FilesInv'
  OBVIOUS
<1>1. JobShapes /\ JobShapes'
  BY Inductive DEF IInv, Shapes
<1> USE DEF FilesInv
<1>2. ASSUME NEW p \in Workers, Step(p) PROVE FilesInv'
  <2>1. Carried' /\ LocksOfHolders'
    BY <1>1, <1>2, CarriedStep, LocksStep DEF FilesTyped, KeysTyped
  <2>2. ProgramsTyped' /\ SitesTyped'
    BY <1>1, <1>2, ProgramsStep, SitesStep DEF FilesTyped
  <2>3. VhostsTyped' /\ KeysTyped'
    BY <1>1, <1>2, VhostsStep, KeysTypedStep DEF FilesTyped
  <2>4. SupervisorDue' /\ NginxDue'
    BY <1>1, <1>2, SupervisorStep, NginxStep
  <2>5. KeysKept'
    BY <1>1, <1>2, KeysStep DEF FilesTyped, KeysTyped
  <2>6. QED
    BY <2>1, <2>2, <2>3, <2>4, <2>5 DEF FilesTyped
<1>3. ASSUME NEW p \in Workers, NEW r \in Requests, Start(p, r) PROVE FilesInv'
  BY <1>1, <1>3, StartTyped, StartDue
<1>4. ASSUME NEW b \in Moving, Push(b) PROVE FilesInv'
  <2>1. UNCHANGED <<job, locked, programs, site, nginx, sshKeys, torn, started>>
    BY <1>4 DEF Push
  <2>2. QED
    BY <2>1, StutterTyped, StutterDue
<1>5. CASE Crash
  BY <1>5, CrashTyped, CrashDue
<1>6. CASE UNCHANGED vars
  <2>1. UNCHANGED <<job, locked, programs, site, nginx, sshKeys, torn, started>>
    BY <1>6 DEF vars, bounds
  <2>2. QED
    BY <2>1, StutterTyped, StutterDue
<1>7. QED
  BY <1>2, <1>3, <1>4, <1>5, <1>6 DEF Next

LEMMA FilesAlways == Spec => [](IInv /\ FilesInv)
BY InitIInv, Inductive, InitFiles, FilesInductive, PTL DEF Spec

-----------------------------------------------------------------------------
\* A site whose lock is taken has one job that holds it.
LEMMA OneLockEach ==
  ASSUME IInv, LocksOfHolders
  PROVE  Cardinality(locked) = Cardinality(Holders)
<1> DEFINE at == [p \in Holders |-> Site(p)]
<1>1. IsFiniteSet(Holders)
  BY HostAssumption, FS_Subset DEF Holders
<1>2. at \in [Holders -> locked]
  BY DEF LocksOfHolders
<1>3. at \in Surjection(Holders, locked)
  BY <1>2 DEF LocksOfHolders, Surjection
<1>4. at \in Injection(Holders, locked)
  BY <1>2 DEF IInv, Locks, Injection, IsInjective
<1> HIDE DEF at
<1>5. QED
  BY <1>1, <1>3, <1>4, FS_Surjection

\* The variables hold what the code can put there: a taken deploy lock has exactly one deploy or
\* sync that releases it when it ends, every program supervisord runs or finds was written for a
\* site whose name its own begins with, what sites-enabled links to is in sites-available, and
\* authorized_keys has no line that was not there and that no job added.
THEOREM TypeCorrect == Spec => []TypeOK
<1>1. IInv /\ FilesInv => TypeOK
  <2> SUFFICES ASSUME IInv, FilesInv PROVE TypeOK
    OBVIOUS
  <2> USE DEF FilesInv, FilesTyped
  <2>1. \A p \in Workers : job[p] = Idle \/ (Req(p) \in Requests /\ job[p].num \in 1 .. started)
    BY DEF IInv, Shapes, JobShapes, Carried
  <2>2. locked = {Site(p) : p \in Holders} /\ Cardinality(locked) = Cardinality(Holders)
    BY OneLockEach DEF LocksOfHolders
  <2>3. \A f \in Programs : {conf[f], progs[f]} \subseteq
           {None} \cup [num : 1 .. started, site : {s \in Sites : IsStrictPrefix(s, f)}]
    BY DEF ProgramsTyped, ProgramOf
  <2>4. \A s \in Sites : ~site[s].dir => site[s] = NoCheckout
    BY DEF SitesTyped
  <2>5. linked \subseteq {s \in Sites : vhost[s] # None}
    BY DEF VhostsTyped
  <2>6. ToSet(keys) \subseteq ToSet(OldKeys) \cup {r.arg : r \in Requests}
    <3>1. ToSet(keys) \subseteq Keys
      BY LenProperties DEF KeysTyped, ToSet
    <3>2. QED
      BY <3>1 DEF Keys
  <2>7. torn \subseteq {"supervisor", "nginx"}
    BY DEF KeysTyped
  <2>8. QED
    BY <2>1, <2>2, <2>3, <2>4, <2>5, <2>6, <2>7, Zenon DEF TypeOK
<1>2. QED
  BY FilesAlways, <1>1, PTL

\* Whichever jobs overlap, once none of them is at work supervisord runs what its directory says
\* (the update at the end of daemon_create, daemon_delete and site_delete) and nginx serves what is
\* linked (the reload of site_create and site_raw_nginx), unless the last change failed or was cut
\* short.
THEOREM ServicesFollowFiles == Spec => []ServicesMatchFiles
<1>1. FilesInv => ServicesMatchFiles
  <2> SUFFICES ASSUME FilesInv PROVE ServicesMatchFiles
    OBVIOUS
  <2>1. \A p \in Workers : Due(p, SupervisorActs, {"stop", "unlink", "update"})
                              => p \in Working(SupervisorActs)
    BY DEF Due, Working, Idle
  <2>2. \A p \in Workers : Due(p, NginxActs, NginxPcs) => p \in Working(NginxActs)
    BY DEF Due, Working, Idle, NginxPcs
  <2>3. QED
    BY <2>1, <2>2 DEF FilesInv, SupervisorDue, NginxDue, ServicesMatchFiles
<1>2. QED
  BY FilesAlways, <1>1, PTL

\* ssh_key_add and ssh_key_remove leave in authorized_keys the keys that jobs added or found and
\* did not remove, whatever jobs that add overlap, as long as no removal overlapped another job or
\* was cut short between os.WriteFile's truncation and its write.
THEOREM KeysAreSettled == Spec => []KeysSettle
<1>1. FilesInv => KeysSettle
  <2> SUFFICES ASSUME FilesInv, ~tangled, Working(KeyActs) = {} PROVE ToSet(keys) = wanted
    BY DEF KeysSettle
  <2>1. \A p \in Workers : ~At(p, {"ssh_key_remove"}, "write")
    BY DEF At, Working, KeyActs, Idle
  <2>2. QED
    BY <2>1 DEF FilesInv, KeysKept, KeysInHand
<1>2. QED
  BY FilesAlways, <1>1, PTL
===============================================================================
