---------------------------- MODULE HostJobsProofs ----------------------------
(***************************************************************************)
(* Theorems about the checkouts of HostJobs, for any number of goroutines, *)
(* sites, branches, jobs, pushes and crashes. The argument: TryAcquire     *)
(* makes the holder of a site's deploy lock unique (Locks), so what one    *)
(* deploy or sync does to a checkout disturbs no other, and what remains   *)
(* is that a job keeps its own promises (Checkouts).                       *)
(***************************************************************************)
EXTENDS HostJobs, TLAPS

DeployActs == {"deploy", "site_sync"}
Git(p) == site[Site(p)].git
Named(p) == Req(p).arg # None /\ Req(p).sha = None
\* The commit is of the branch the job asked for, and no older than the job.
Fresh(p, rev) == rev[1] = Req(p).arg /\ rev[2] >= job[p].since

Revs == (Branches \X Nat) \cup {r.sha : r \in Requests}
Repositories == [branch : Branches, tracked : Branches \X Nat, head : Revs, objects : SUBSET Revs]

\* What the steps need to know of the shapes of the variables.
Fields == {"req", "pc", "num", "files", "target", "seen", "since", "rev"}
JobShape(j) == j = [x \in Fields |-> j[x]]
JobShapes ==
    /\ job = [p \in Workers |-> job[p]]
    /\ \A p \in Workers : JobShape(job[p]) /\ (job[p] = Idle \/ Req(p) \in Requests)
SiteShapes ==
    /\ site = [s \in Sites |-> site[s]]
    /\ \A s \in Sites :
           /\ site[s] = [x \in {"dir", "env", "git"} |-> site[s][x]]
           /\ site[s].git \in {None} \cup Repositories
Shapes == JobShapes /\ SiteShapes /\ tip \in [Branches -> Nat]

Locks ==
    /\ \A p \in Holders : Site(p) \in locked
    /\ \A p, q \in Holders : Site(p) = Site(q) => p = q

DeployKept(p) ==
    job[p] # Idle /\ Req(p).act = "deploy" =>
        /\ job[p].since \in Nat /\ job[p].since <= tip[BranchOf(Req(p))]
        /\ job[p].pc = "begin" => job[p].rev = None
        /\ job[p].pc = "checkout" /\ Named(p) /\ Git(p) # None /\ Git(p).branch = Req(p).arg =>
               Fresh(p, Git(p).tracked)
        /\ job[p].rev # None => /\ Git(p) # None => Git(p).head = job[p].rev
                                /\ Named(p) => Fresh(p, job[p].rev)

Checkouts == \A p \in Workers : DeployKept(p)

IInv == Shapes /\ Locks /\ Checkouts

-----------------------------------------------------------------------------
LEMMA DeployRequests ==
  \A r \in Requests : r.act \in {"deploy", "site_sync"} =>
      r.site \in Sites /\ r.arg \in Branches \cup {None}
BY RequestsAssumption DEF validateActionParams, siteScopedActions

LEMMA InitIInv == Init => IInv
<1> SUFFICES ASSUME Init PROVE IInv
  OBVIOUS
<1> USE DEF Init, Idle
<1>1. Shapes
  <2>1. tip \in [Branches -> Nat]
    OBVIOUS
  <2>2. QED
    BY <2>1 DEF Shapes, JobShapes, JobShape, Fields, SiteShapes, NoCheckout
<1>2. Locks
  BY DEF Locks, Holders
<1>3. Checkouts
  BY DEF Checkouts, DeployKept
<1>4. QED
  BY <1>1, <1>2, <1>3 DEF IInv

-----------------------------------------------------------------------------
(* How a step changes the record of its job. *)

\* All but p are where they were.
Only(p) == \A q \in Workers \ {p} : job'[q] = job[q]
\* p goes on with the same request.
Moved(p, pc, rev) ==
    /\ JobShapes' /\ Only(p)
    /\ job'[p].req = job[p].req /\ job'[p].since = job[p].since
    /\ job'[p].pc = pc /\ job'[p].rev = rev
Ended(p) == JobShapes' /\ Only(p) /\ job'[p] = Idle

LEMMA JobEnds ==
  ASSUME JobShapes, NEW p \in Workers, job' = [job EXCEPT ![p] = Idle]
  PROVE  Ended(p)
<1>1. JobShape(Idle)
  BY DEF JobShape, Fields, Idle
<1>2. QED
  BY <1>1 DEF JobShapes, Ended, Only, Req

LEMMA MovesPc ==
  ASSUME JobShapes, NEW p \in Workers, job[p] # Idle, NEW pc,
         job' = [job EXCEPT ![p].pc = pc]
  PROVE  Moved(p, pc, job[p].rev)
<1>1. JobShape(job'[p])
  BY DEF JobShapes, JobShape
<1>2. /\ job'[p].req = job[p].req /\ job'[p].since = job[p].since
      /\ job'[p].pc = pc /\ job'[p].rev = job[p].rev
  BY DEF JobShapes, JobShape, Fields
<1>3. QED
  BY <1>1, <1>2 DEF JobShapes, Moved, Only, Req

LEMMA MovesFiles ==
  ASSUME JobShapes, NEW p \in Workers, job[p] # Idle, NEW pc, NEW files,
         job' = [job EXCEPT ![p].files = files, ![p].pc = pc]
  PROVE  Moved(p, pc, job[p].rev)
<1>1. JobShape(job'[p])
  BY DEF JobShapes, JobShape
<1>2. /\ job'[p].req = job[p].req /\ job'[p].since = job[p].since
      /\ job'[p].pc = pc /\ job'[p].rev = job[p].rev
  BY DEF JobShapes, JobShape, Fields
<1>3. QED
  BY <1>1, <1>2 DEF JobShapes, Moved, Only, Req

LEMMA MovesTarget ==
  ASSUME JobShapes, NEW p \in Workers, job[p] # Idle, NEW pc, NEW target,
         job' = [job EXCEPT ![p].target = target, ![p].pc = pc]
  PROVE  Moved(p, pc, job[p].rev)
<1>1. JobShape(job'[p])
  BY DEF JobShapes, JobShape
<1>2. /\ job'[p].req = job[p].req /\ job'[p].since = job[p].since
      /\ job'[p].pc = pc /\ job'[p].rev = job[p].rev
  BY DEF JobShapes, JobShape, Fields
<1>3. QED
  BY <1>1, <1>2 DEF JobShapes, Moved, Only, Req

LEMMA MovesSeen ==
  ASSUME JobShapes, NEW p \in Workers, job[p] # Idle, NEW pc, NEW seen,
         job' = [job EXCEPT ![p].seen = seen, ![p].pc = pc]
  PROVE  Moved(p, pc, job[p].rev)
<1>1. JobShape(job'[p])
  BY DEF JobShapes, JobShape
<1>2. /\ job'[p].req = job[p].req /\ job'[p].since = job[p].since
      /\ job'[p].pc = pc /\ job'[p].rev = job[p].rev
  BY DEF JobShapes, JobShape, Fields
<1>3. QED
  BY <1>1, <1>2 DEF JobShapes, Moved, Only, Req

LEMMA MovesRev ==
  ASSUME JobShapes, NEW p \in Workers, job[p] # Idle, NEW pc, NEW rev,
         job' = [job EXCEPT ![p].rev = rev, ![p].pc = pc]
  PROVE  Moved(p, pc, rev)
<1>1. JobShape(job'[p])
  BY DEF JobShapes, JobShape
<1>2. /\ job'[p].req = job[p].req /\ job'[p].since = job[p].since
      /\ job'[p].pc = pc /\ job'[p].rev = rev
  BY DEF JobShapes, JobShape, Fields
<1>3. QED
  BY <1>1, <1>2 DEF JobShapes, Moved, Only, Req

-----------------------------------------------------------------------------
(* Jobs that are neither a deploy nor a sync leave the locks alone, and of a checkout they can *)
(* only take the whole away.                                                                   *)

GitsKept == SiteShapes' /\ \A s \in Sites : site'[s].git \in {site[s].git, None}

LEMMA NoSiteChange == ASSUME SiteShapes, UNCHANGED site PROVE GitsKept
BY DEF SiteShapes, GitsKept

LEMMA MakesDir ==
  ASSUME SiteShapes, NEW s, NEW dir, site' = [site EXCEPT ![s].dir = dir]
  PROVE  GitsKept
BY DEF SiteShapes, GitsKept

LEMMA WritesEnv ==
  ASSUME SiteShapes, NEW s, NEW env, site' = [site EXCEPT ![s].env = env]
  PROVE  GitsKept
BY DEF SiteShapes, GitsKept

LEMMA WritesEnvDir ==
  ASSUME SiteShapes, NEW s, site' = [site EXCEPT ![s].dir = TRUE, ![s].env = TRUE]
  PROVE  GitsKept
BY DEF SiteShapes, GitsKept

LEMMA RemovesSite ==
  ASSUME SiteShapes, NEW s, site' = [site EXCEPT ![s] = NoCheckout]
  PROVE  GitsKept
BY DEF SiteShapes, GitsKept, NoCheckout

Aside(p) ==
    /\ job[p] # Idle /\ Req(p).act \notin DeployActs
    /\ JobShapes' /\ Only(p) /\ (job'[p] = Idle \/ job'[p].req = Req(p))
    /\ GitsKept /\ UNCHANGED <<locked, tip>>

LEMMA GotoIsAside ==
  ASSUME JobShapes, NEW p \in Workers, NEW pc, job[p] # Idle, Req(p).act \notin DeployActs,
         Goto(p, pc), GitsKept, UNCHANGED tip
  PROVE  Aside(p)
<1>1. Moved(p, pc, job[p].rev)
  BY MovesPc DEF Goto
<1>2. QED
  BY <1>1 DEF Aside, Moved, Goto, Req

LEMMA EndIsAside ==
  ASSUME JobShapes, NEW p \in Workers, job[p] # Idle, Req(p).act \notin DeployActs,
         End(p), GitsKept, UNCHANGED tip
  PROVE  Aside(p)
<1>1. Ended(p)
  BY JobEnds DEF End
<1>2. QED
  BY <1>1 DEF Aside, Ended, End, DeployActs

\* The steps of such jobs.
OtherStep(p) ==
    \/ WriteConf(p) \/ ListPrograms(p) \/ StopProgram(p) \/ RemoveConf(p)
    \/ Update(p) \/ UpdateFails(p) \/ RemoveSiteDir(p)
    \/ CommandBegins(p) \/ WriteEnvContent(p) \/ CreateSite(p)
    \/ WriteVhost(p) \/ UnlinkVhost(p) \/ LinkVhost(p) \/ TestNginx(p) \/ ReloadNginx(p)
    \/ ReadKeys(p) \/ AppendKey(p) \/ TruncateKeys(p) \/ WriteKeys(p)

LEMMA OtherStepActs ==
  ASSUME NEW p \in Workers, OtherStep(p)
  PROVE  job[p] # Idle /\ Req(p).act \notin DeployActs /\ UNCHANGED tip
BY DEF OtherStep, At, DeployActs, Idle, SupervisorActs, NginxActs, KeyActs, WriteConf,
       ListPrograms, StopProgram, RemoveConf, Update, UpdateFails, RemoveSiteDir,
       CommandBegins, WriteEnvContent, CreateSite, WriteVhost, UnlinkVhost, LinkVhost,
       TestNginx, ReloadNginx, ReadKeys, AppendKey, TruncateKeys, WriteKeys

LEMMA OthersStandAside ==
  ASSUME Shapes, NEW p \in Workers, OtherStep(p)
  PROVE  Aside(p)
<1>1. job[p] # Idle /\ Req(p).act \notin DeployActs /\ UNCHANGED tip
  BY OtherStepActs
<1> USE <1>1 DEF Shapes
<1>2. CASE WriteConf(p)
  BY <1>2, NoSiteChange, GotoIsAside DEF WriteConf
<1>3. CASE ListPrograms(p) \/ StopProgram(p) \/ RemoveConf(p)
  <2>1. GitsKept /\ UNCHANGED locked
    BY <1>3, NoSiteChange DEF ListPrograms, StopProgram, RemoveConf
  <2>2. \E pc, rev : Moved(p, pc, rev)
    BY <1>3, MovesFiles, MovesTarget DEF ListPrograms, StopProgram, RemoveConf
  <2>3. QED
    BY <2>1, <2>2 DEF Aside, Moved, Req
<1>4. CASE Update(p) \/ UpdateFails(p)
  BY <1>4, NoSiteChange, GotoIsAside, EndIsAside DEF Update, UpdateFails, AfterUpdate
<1>5. CASE RemoveSiteDir(p)
  BY <1>5, RemovesSite, EndIsAside DEF RemoveSiteDir
<1>6. CASE CommandBegins(p)
  BY <1>6, MakesDir, GotoIsAside DEF CommandBegins, MakeDir
<1>7. CASE WriteEnvContent(p)
  BY <1>7, WritesEnvDir, EndIsAside DEF WriteEnvContent, WriteEnv
<1>8. CASE CreateSite(p)
  BY <1>8, WritesEnvDir, MakesDir, GotoIsAside DEF CreateSite, WriteEnv, MakeDir
<1>9. CASE WriteVhost(p) \/ UnlinkVhost(p)
  BY <1>9, NoSiteChange, GotoIsAside DEF WriteVhost, UnlinkVhost
<1>10. CASE LinkVhost(p) \/ TestNginx(p) \/ ReloadNginx(p)
  BY <1>10, NoSiteChange, GotoIsAside, EndIsAside
     DEF LinkVhost, TestNginx, ReloadNginx, NginxJobFails, nginx
<1>11. CASE ReadKeys(p)
  <2>1. GitsKept
    BY <1>11, NoSiteChange DEF ReadKeys
  <2>2. End(p) \/ (UNCHANGED locked /\ \E pc, rev : Moved(p, pc, rev))
    BY <1>11, MovesSeen DEF ReadKeys
  <2>3. QED
    BY <2>1, <2>2, EndIsAside DEF Aside, Moved, Req
<1>12. CASE AppendKey(p) \/ TruncateKeys(p) \/ WriteKeys(p)
  BY <1>12, NoSiteChange, GotoIsAside, EndIsAside DEF AppendKey, TruncateKeys, WriteKeys
<1>13. QED
  BY <1>2, <1>3, <1>4, <1>5, <1>6, <1>7, <1>8, <1>9, <1>10, <1>11, <1>12 DEF OtherStep

\* What stands aside disturbs no deploy.
LEMMA AsideKeeps ==
  ASSUME IInv, NEW p \in Workers, Aside(p)
  PROVE  IInv'
<1>1. Holders' = Holders /\ \A q \in Holders : q # p /\ job'[q] = job[q]
  BY DEF Aside, Only, Holders, Req, DeployActs, Idle
<1>2. Locks'
  BY <1>1 DEF IInv, Locks, Aside, Site, Holders
<1>3. ASSUME NEW q \in Workers PROVE DeployKept(q)'
  <2>1. CASE q = p
    BY <2>1 DEF DeployKept, Aside, Req, DeployActs, Idle
  <2>2. CASE q # p
    <3>1. job'[q] = job[q] /\ tip' = tip
      BY <2>2 DEF Aside, Only
    <3>2. job[q] # Idle /\ Req(q).act = "deploy" => Site(q) \in Sites
      BY DeployRequests DEF IInv, Shapes, JobShapes, Req, Site
    <3>3. job[q] # Idle /\ Req(q).act = "deploy" => Git(q)' \in {Git(q), None}
      BY <3>1, <3>2 DEF Aside, GitsKept, Git, Site, Req
    <3>4. QED
      BY <3>1, <3>3 DEF IInv, Checkouts, DeployKept, Named, Fresh, Req, BranchOf
  <2>3. QED
    BY <2>1, <2>2
<1>4. QED
  BY <1>2, <1>3 DEF IInv, Shapes, Checkouts, Aside, GitsKept

-----------------------------------------------------------------------------
(* Deploys and syncs. What p does to the checkout of its site, under the lock, is nobody       *)
(* else's business.                                                                            *)

OwnSite(p) ==
    /\ SiteShapes'
    /\ \A s \in Sites : (s = Site(p) /\ p \in Holders) \/ site'[s].git \in {site[s].git, None}

LEMMA OthersKept ==
  ASSUME IInv, NEW p \in Workers, Only(p), OwnSite(p), UNCHANGED tip, NEW q \in Workers, q # p
  PROVE  DeployKept(q)'
<1>1. job'[q] = job[q]
  BY DEF Only
<1>2. CASE job[q] # Idle /\ Req(q).act = "deploy" /\ job[q].pc # "begin"
  <2>1. q \in Holders /\ Site(q) \in Sites
    BY <1>2, DeployRequests DEF IInv, Shapes, JobShapes, Holders, Req, Site
  <2>2. Git(q)' \in {Git(q), None}
    BY <1>1, <2>1 DEF IInv, Locks, OwnSite, Git, Site, Req
  <2>3. QED
    BY <1>1, <2>2 DEF IInv, Checkouts, DeployKept, Named, Fresh, Req, BranchOf
<1>3. CASE ~(job[q] # Idle /\ Req(q).act = "deploy" /\ job[q].pc # "begin")
  BY <1>1, <1>3 DEF IInv, Checkouts, DeployKept, Named, Fresh, Req, BranchOf
<1>4. QED
  BY <1>2, <1>3

LEMMA EndKeeps ==
  ASSUME IInv, NEW p \in Workers, job[p] # Idle, End(p), OwnSite(p), UNCHANGED tip
  PROVE  IInv'
<1>1. Ended(p)
  BY JobEnds DEF IInv, Shapes, End
<1>2. DeployKept(p)'
  BY <1>1 DEF Ended, DeployKept
<1>3. Checkouts'
  BY <1>1, <1>2, OthersKept DEF Ended, Checkouts
<1>4. \A q \in Holders' : q # p /\ q \in Holders /\ job'[q] = job[q]
  BY <1>1 DEF Ended, Only, Holders, Req
<1>5. /\ p \in Holders => locked' = locked \ {Site(p)}
      /\ p \notin Holders => locked' = locked
  <2>1. p \in Holders <=> job[p].pc # "begin" /\ Req(p).act \in {"deploy", "site_sync"}
    BY DEF Holders
  <2>2. QED
    BY <2>1 DEF End
<1>6. Locks'
  BY <1>4, <1>5 DEF IInv, Locks, Site, Req
<1>7. QED
  BY <1>1, <1>3, <1>6 DEF IInv, Shapes, Ended, OwnSite

LEMMA MoveKeeps ==
  ASSUME IInv, NEW p \in Workers, job[p] # Idle, job[p].pc # "begin",
         NEW pc, pc \notin {"idle", "begin"}, NEW rev, Moved(p, pc, rev),
         OwnSite(p), DeployKept(p)', UNCHANGED <<locked, tip>>
  PROVE  IInv'
<1>1. Checkouts'
  BY OthersKept DEF Moved, Checkouts
<1>2. job'[p] # Idle
  BY DEF Moved, Idle
<1>3. Holders' = Holders /\ \A q \in Holders : Site(q)' = Site(q)
  BY <1>2 DEF Moved, Only, Holders, Req, Site
<1>4. Locks'
  BY <1>3 DEF IInv, Locks
<1>5. QED
  BY <1>1, <1>4 DEF IInv, Shapes, Moved, OwnSite

LEMMA OwnsWhatIsKept == ASSUME NEW p, GitsKept PROVE OwnSite(p)
BY DEF GitsKept, OwnSite

LEMMA TryAcquireKeeps == ASSUME IInv, NEW p \in Workers, TryAcquire(p) PROVE IInv'
<1>1. job[p] # Idle /\ job[p].pc = "begin" /\ Req(p).act \in DeployActs
  BY DEF TryAcquire, At, Idle, DeployActs
<1>2. CASE Site(p) \in locked
  BY <1>1, <1>2, NoSiteChange, OwnsWhatIsKept, EndKeeps DEF TryAcquire, IInv, Shapes
<1>3. CASE Site(p) \notin locked
  <2>1. Moved(p, "git", job[p].rev)
    BY <1>1, <1>3, MovesPc DEF TryAcquire, IInv, Shapes
  <2>2. GitsKept /\ tip' = tip /\ locked' = locked \cup {Site(p)}
    BY <1>3, MakesDir DEF TryAcquire, IInv, Shapes
  <2>3. DeployKept(p)'
    BY <1>1, <2>1, <2>2 DEF IInv, Checkouts, DeployKept, Moved, Req, BranchOf
  <2>4. Checkouts'
    BY <2>1, <2>2, <2>3, OthersKept, OwnsWhatIsKept DEF Checkouts, Moved
  <2>5. Holders' = Holders \cup {p} /\ \A q \in Holders' : Site(q)' = Site(q)
    BY <1>1, <2>1 DEF Holders, Moved, Only, Req, Site, Idle, DeployActs
  <2>6. Locks'
    BY <1>3, <2>2, <2>5 DEF IInv, Locks
  <2>7. QED
    BY <2>1, <2>2, <2>4, <2>6 DEF IInv, Shapes, Moved, GitsKept
<1>4. QED
  BY <1>2, <1>3

LEMMA StatGitKeeps == ASSUME IInv, NEW p \in Workers, StatGit(p) PROVE IInv'
<1>1. job[p] # Idle /\ job[p].pc = "git"
  BY DEF StatGit, At, Idle
<1>2. PICK pc \in {"clone", "fetch"} : Goto(p, pc)
  BY DEF StatGit
<1>3. Moved(p, pc, job[p].rev) /\ UNCHANGED <<locked, tip>> /\ OwnSite(p)
  BY <1>1, <1>2, MovesPc, NoSiteChange, OwnsWhatIsKept DEF StatGit, Goto, IInv, Shapes
<1>4. site' = site
  BY DEF StatGit
<1>5. DeployKept(p)'
  BY <1>1, <1>2, <1>3, <1>4
     DEF IInv, Checkouts, DeployKept, Moved, Req, BranchOf, Git, Site, Named, Fresh
<1>6. QED
  BY <1>1, <1>2, <1>3, <1>5, MoveKeeps

LEMMA GitFailsKeeps == ASSUME IInv, NEW p \in Workers, GitFails(p) \/ ScriptEnds(p) PROVE IInv'
<1>1. job[p] # Idle /\ End(p) /\ UNCHANGED <<site, tip>>
  BY DEF GitFails, ScriptEnds, At, Idle
<1>2. QED
  BY <1>1, NoSiteChange, OwnsWhatIsKept, EndKeeps DEF IInv, Shapes

LEMMA EnvStepKeeps ==
  ASSUME IInv, NEW p \in Workers, StatEnv(p) \/ BootstrapEnv(p) \/ ScriptBegins(p)
  PROVE  IInv'
<1>1. job[p] # Idle /\ job[p].pc # "begin" /\ UNCHANGED tip
  BY DEF StatEnv, BootstrapEnv, ScriptBegins, At, Idle
<1>2. PICK pc \in {"bootstrap", "params", "script"} : Goto(p, pc)
  BY DEF StatEnv, BootstrapEnv, ScriptBegins
<1>3. Moved(p, pc, job[p].rev) /\ UNCHANGED locked
  BY <1>1, <1>2, MovesPc DEF Goto, IInv, Shapes
<1>4. GitsKept
  <2>1. CASE StatEnv(p)
    BY <2>1, NoSiteChange DEF StatEnv, IInv, Shapes
  <2>2. CASE BootstrapEnv(p)
    BY <2>2, WritesEnv DEF BootstrapEnv, IInv, Shapes
  <2>3. CASE ScriptBegins(p)
    BY <2>3, NoSiteChange, WritesEnvDir DEF ScriptBegins, WriteEnv, IInv, Shapes
  <2>4. QED
    BY <2>1, <2>2, <2>3
<1>5. DeployKept(p)'
  <2>1. job[p] # Idle /\ Req(p).act = "deploy" => Site(p) \in Sites
    BY DeployRequests DEF IInv, Shapes, JobShapes, Req, Site
  <2>2. job[p] # Idle /\ Req(p).act = "deploy" => Git(p)' \in {Git(p), None}
    BY <1>3, <1>4, <2>1 DEF Moved, GitsKept, Git, Site, Req
  <2>3. QED
    BY <1>1, <1>2, <1>3, <2>2
       DEF IInv, Checkouts, DeployKept, Moved, Req, BranchOf, Named, Fresh
<1>6. QED
  BY <1>1, <1>2, <1>3, <1>4, <1>5, OwnsWhatIsKept, MoveKeeps

\* The job that git works for.
LEMMA AtGit ==
  ASSUME IInv, NEW p \in Workers, NEW pc, pc \notin {"idle", "begin"}, At(p, DeployActs, pc)
  PROVE  /\ job[p] # Idle /\ p \in Holders /\ Site(p) \in Sites
         /\ BranchOf(Req(p)) \in Branches /\ Req(p) \in Requests
<1>1. job[p] # Idle /\ p \in Holders
  BY DEF At, Idle, Holders, DeployActs
<1>2. Req(p) \in Requests /\ Req(p).act \in DeployActs
  BY <1>1 DEF At, IInv, Shapes, JobShapes
<1>3. QED
  BY <1>1, <1>2, DeployRequests, HostAssumption DEF Site, Req, BranchOf, DeployActs

\* Once the commit is there, the job has what it promised.
LEMMA CheckedOutKeeps ==
  ASSUME IInv, NEW p \in Workers, NEW pc, pc \notin {"idle", "begin"}, At(p, DeployActs, pc),
         NEW rev, CheckedOut(p, rev), OwnSite(p), UNCHANGED tip,
         site'[Site(p)].git.head = rev,
         Req(p).act = "deploy" /\ Named(p) => Fresh(p, rev)
  PROVE  IInv'
<1>1. job[p] # Idle /\ Site(p) \in Sites /\ job[p].pc # "begin"
  BY AtGit DEF At
<1>2. CASE Req(p).act = "deploy"
  <2>1. Moved(p, "env", rev) /\ UNCHANGED locked
    BY <1>1, <1>2, MovesRev DEF CheckedOut, IInv, Shapes
  <2>2. DeployKept(p)'
    BY <1>1, <1>2, <2>1
       DEF IInv, Checkouts, DeployKept, Moved, Req, BranchOf, Git, Site, Named, Fresh
  <2>3. QED
    BY <1>1, <2>1, <2>2, MoveKeeps
<1>3. CASE Req(p).act # "deploy"
  BY <1>1, <1>3, EndKeeps DEF CheckedOut
<1>4. QED
  BY <1>2, <1>3

LEMMA CloneKeeps == ASSUME IInv, NEW p \in Workers, Clone(p) PROVE IInv'
<1> DEFINE b == BranchOf(Req(p))
           rev == <<b, tip[b]>>
           git == [branch |-> b, tracked |-> rev, head |-> rev, objects |-> {rev}]
<1>1. At(p, DeployActs, "clone") /\ CheckedOut(p, rev) /\ UNCHANGED tip
      /\ site' = [site EXCEPT ![Site(p)] = [dir |-> TRUE, env |-> FALSE, git |-> git]]
  BY DEF Clone, DeployActs
<1>2. p \in Holders /\ Site(p) \in Sites /\ b \in Branches
  BY <1>1, AtGit
<1>3. rev \in Branches \X Nat
  BY <1>2 DEF IInv, Shapes
<1>4. git \in Repositories
  BY <1>2, <1>3 DEF Repositories, Revs
<1>5. OwnSite(p)
  BY <1>1, <1>2, <1>4 DEF OwnSite, IInv, Shapes, SiteShapes
<1>6. site'[Site(p)].git.head = rev
  BY <1>1, <1>2 DEF IInv, Shapes, SiteShapes
<1>7. Req(p).act = "deploy" /\ Named(p) => Fresh(p, rev)
  BY <1>1, <1>2, AtGit DEF IInv, Shapes, Checkouts, DeployKept, Named, Fresh, BranchOf
<1>8. QED
  BY <1>1, <1>5, <1>6, <1>7, CheckedOutKeeps

LEMMA FetchKeeps == ASSUME IInv, NEW p \in Workers, Fetch(p) PROVE IInv'
<1> DEFINE b == BranchOf(Req(p))
           rev == <<b, tip[b]>>
           old == site[Site(p)].git
           tracked == IF Req(p).arg = old.branch THEN rev ELSE old.tracked
           git == [old EXCEPT !.tracked = tracked, !.objects = @ \cup {rev}]
<1>1. At(p, DeployActs, "fetch") /\ Goto(p, "checkout") /\ UNCHANGED tip
  BY DEF Fetch, DeployActs
<1>2. job[p] # Idle /\ job[p].pc # "begin" /\ p \in Holders /\ Site(p) \in Sites /\ b \in Branches
  BY <1>1, AtGit DEF At
<1>3. Moved(p, "checkout", job[p].rev) /\ UNCHANGED locked
  BY <1>1, <1>2, MovesPc DEF Goto, IInv, Shapes
<1>4. old \in Repositories
  BY <1>2 DEF Fetch, IInv, Shapes, SiteShapes
<1>5. rev \in Branches \X Nat
  BY <1>2 DEF IInv, Shapes
<1>6. /\ git \in Repositories
      /\ git.branch = old.branch /\ git.head = old.head /\ git.tracked = tracked
  BY <1>4, <1>5 DEF Repositories, Revs
<1>7. /\ site' = [s \in Sites |-> site'[s]]
      /\ \A s \in Sites \ {Site(p)} : site'[s] = site[s]
      /\ site'[Site(p)] = [x \in {"dir", "env", "git"} |-> site'[Site(p)][x]]
  BY <1>2 DEF Fetch, IInv, Shapes, SiteShapes
<1>8. site'[Site(p)].git = git /\ OwnSite(p)
  <2>1. site'[Site(p)].git = git
    BY <1>2 DEF Fetch, IInv, Shapes, SiteShapes
  <2>2. QED
    BY <1>2, <1>6, <1>7, <2>1 DEF OwnSite, IInv, Shapes, SiteShapes
<1>9. DeployKept(p)'
  <2>1. Git(p)' = git /\ Git(p) = old /\ old # None
    BY <1>3, <1>8 DEF Git, Site, Moved, Req, Fetch
  <2>2. Req(p).act = "deploy" /\ Named(p) => Fresh(p, rev)
    BY <1>2 DEF IInv, Shapes, Checkouts, DeployKept, Named, Fresh, BranchOf
  <2>3. Req(p).act = "deploy" /\ Named(p) /\ git.branch = Req(p).arg => Fresh(p, git.tracked)
    BY <1>6, <2>2
  <2>4. Req(p)' = Req(p) /\ job'[p].since = job[p].since /\ job'[p].rev = job[p].rev
    BY <1>3 DEF Moved, Req
  <2>5. (Named(p)' <=> Named(p)) /\ \A r : Fresh(p, r)' <=> Fresh(p, r)
    BY <2>4 DEF Named, Fresh
  <2>6. DeployKept(p) /\ job'[p].pc = "checkout" /\ tip' = tip
    BY <1>1, <1>3 DEF IInv, Checkouts, Moved
  <2> HIDE DEF git, rev, old
  <2>7. SUFFICES ASSUME Req(p).act = "deploy" PROVE DeployKept(p)'
    BY <2>4 DEF DeployKept
  <2>8. job[p].since \in Nat /\ job[p].since <= tip[BranchOf(Req(p))]
    BY <1>2, <2>6, <2>7 DEF DeployKept
  <2>9. Named(p)' /\ Git(p)' # None /\ Git(p)'.branch = Req(p)'.arg => Fresh(p, Git(p).tracked)'
    BY <2>1, <2>3, <2>4, <2>5, <2>7
  <2>10. job[p].rev # None => old.head = job[p].rev /\ (Named(p) => Fresh(p, job[p].rev))
    BY <1>2, <2>1, <2>6, <2>7 DEF DeployKept
  <2>11. job'[p].rev # None => /\ Git(p)'.head = job'[p].rev
                               /\ Named(p)' => Fresh(p, job[p].rev)'
    BY <1>6, <2>1, <2>4, <2>5, <2>10
  <2>12. QED
    BY <2>4, <2>6, <2>8, <2>9, <2>11 DEF DeployKept, BranchOf
<1>10. QED
  BY <1>1, <1>2, <1>3, <1>8, <1>9, MoveKeeps

LEMMA CheckoutKeeps == ASSUME IInv, NEW p \in Workers, Checkout(p) PROVE IInv'
<1> DEFINE old == site[Site(p)].git
           rev == IF Req(p).sha # None THEN Req(p).sha ELSE old.tracked
           git == [old EXCEPT !.head = rev]
<1>1. At(p, DeployActs, "checkout") /\ CheckedOut(p, rev) /\ UNCHANGED tip
  BY DEF Checkout, DeployActs
<1>2. job[p] # Idle /\ p \in Holders /\ Site(p) \in Sites /\ Req(p) \in Requests
  BY <1>1, AtGit
<1>3. old \in Repositories /\ old # None
  BY <1>2 DEF Checkout, IInv, Shapes, SiteShapes
<1>4. git \in Repositories /\ git.head = rev
  BY <1>2, <1>3 DEF Repositories, Revs
<1>5. /\ site' = [s \in Sites |-> site'[s]]
      /\ \A s \in Sites \ {Site(p)} : site'[s] = site[s]
      /\ site'[Site(p)] = [x \in {"dir", "env", "git"} |-> site'[Site(p)][x]]
      /\ site'[Site(p)].git = git
  BY <1>2 DEF Checkout, IInv, Shapes, SiteShapes
<1>6. OwnSite(p)
  BY <1>2, <1>4, <1>5 DEF OwnSite, IInv, Shapes, SiteShapes
<1>7. Req(p).act = "deploy" /\ Named(p) => Fresh(p, rev)
  <2>1. Named(p) => old.branch = Req(p).arg /\ rev = old.tracked
    BY DEF Checkout, Named, BranchOf
  <2>2. QED
    BY <1>1, <1>2, <1>3, <2>1 DEF IInv, Checkouts, DeployKept, Git, At
<1>8. QED
  BY <1>1, <1>4, <1>5, <1>6, <1>7, CheckedOutKeeps

-----------------------------------------------------------------------------
(* Steps that are not a job's own. *)

LEMMA StartKeeps == ASSUME IInv, NEW p \in Workers, NEW r \in Requests, Start(p, r) PROVE IInv'
<1> DEFINE new == [Idle EXCEPT !.req = r, !.pc = "begin", !.num = started + 1,
                               !.since = IF r.act = "deploy" THEN tip[BranchOf(r)] ELSE 0]
<1>1. JobShape(new) /\ new.req = r /\ new.pc = "begin" /\ new.rev = None
      /\ (r.act = "deploy" => new.since = tip[BranchOf(r)])
  BY DEF JobShape, Fields, Idle
<1>2. job' = [job EXCEPT ![p] = new] /\ UNCHANGED <<locked, site, tip>>
  BY DEF Start
<1>3. job'[p] = new /\ Only(p) /\ JobShapes'
  BY <1>1, <1>2 DEF IInv, Shapes, JobShapes, Only, Req
<1>4. SiteShapes' /\ OwnSite(p)
  BY <1>2, NoSiteChange, OwnsWhatIsKept DEF IInv, Shapes, OwnSite
<1>5. DeployKept(p)'
  <2>1. r.act = "deploy" => BranchOf(r) \in Branches
    BY DeployRequests, HostAssumption DEF BranchOf
  <2>2. r.act = "deploy" => new.since \in Nat /\ new.since <= tip'[BranchOf(r)]
    BY <1>1, <1>2, <2>1 DEF IInv, Shapes
  <2> HIDE DEF new
  <2>3. /\ Req(p)' = r /\ job'[p].since = new.since
        /\ job'[p].pc = "begin" /\ job'[p].rev = None
    BY <1>1, <1>3 DEF Req
  <2>4. QED
    BY <2>2, <2>3 DEF DeployKept, BranchOf
<1>6. Checkouts'
  BY <1>2, <1>3, <1>4, <1>5, OthersKept DEF Checkouts
<1>7. Holders' = Holders /\ \A q \in Holders : Site(q)' = Site(q)
  BY <1>1, <1>3, job[p] = Idle DEF Holders, Only, Site, Req, Start
<1>8. QED
  BY <1>2, <1>3, <1>4, <1>6, <1>7 DEF IInv, Shapes, Locks

LEMMA CrashKeeps == ASSUME IInv, Crash PROVE IInv'
<1>1. JobShape(Idle)
  BY DEF JobShape, Fields, Idle
<1>2. job' = [p \in Workers |-> Idle] /\ locked' = {} /\ UNCHANGED <<site, tip>>
  BY DEF Crash
<1>3. Holders' = {}
  BY <1>2 DEF Holders
<1>4. Shapes'
  BY <1>1, <1>2 DEF IInv, Shapes, JobShapes, SiteShapes
<1>5. Checkouts'
  BY <1>2 DEF Checkouts, DeployKept
<1>6. QED
  BY <1>3, <1>4, <1>5 DEF IInv, Locks

LEMMA PushKeeps == ASSUME IInv, NEW b \in Moving, Push(b) PROVE IInv'
<1>1. b \in Branches /\ tip' = [tip EXCEPT ![b] = @ + 1] /\ UNCHANGED <<job, locked, site>>
  BY HostAssumption DEF Push
<1>2. tip' \in [Branches -> Nat] /\ \A x \in Branches : tip'[x] >= tip[x]
  BY <1>1 DEF IInv, Shapes
<1>3. Shapes' /\ Locks'
  BY <1>1, <1>2 DEF IInv, Shapes, JobShapes, SiteShapes, Locks, Holders, Req, Site
<1>4. ASSUME NEW q \in Workers PROVE DeployKept(q)'
  <2>1. job[q] # Idle /\ Req(q).act = "deploy" => BranchOf(Req(q)) \in Branches
    BY DeployRequests, HostAssumption DEF IInv, Shapes, JobShapes, BranchOf
  <2>2. job[q] # Idle /\ Req(q).act = "deploy" => job[q].since <= tip'[BranchOf(Req(q))]
    BY <1>2, <2>1 DEF IInv, Shapes, Checkouts, DeployKept
  <2>3. QED
    BY <1>1, <2>2 DEF IInv, Checkouts, DeployKept, Named, Fresh, Git, Req, Site, BranchOf
<1>5. QED
  BY <1>3, <1>4 DEF IInv, Checkouts

LEMMA Inductive == IInv /\ [Next]_vars => IInv'
<1> SUFFICES ASSUME IInv, [Next]_vars PROVE IInv'
  OBVIOUS
<1>1. ASSUME NEW p \in Workers, Step(p) PROVE IInv'
  <2>1. CASE OtherStep(p)
    BY <2>1, OthersStandAside, AsideKeeps DEF IInv
  <2>2. CASE TryAcquire(p) \/ StatGit(p) \/ GitFails(p) \/ ScriptEnds(p)
    BY <2>2, TryAcquireKeeps, StatGitKeeps, GitFailsKeeps
  <2>3. CASE Clone(p) \/ Fetch(p) \/ Checkout(p)
    BY <2>3, CloneKeeps, FetchKeeps, CheckoutKeeps
  <2>4. CASE StatEnv(p) \/ BootstrapEnv(p) \/ ScriptBegins(p)
    BY <2>4, EnvStepKeeps
  <2>5. QED
    BY <1>1, <2>1, <2>2, <2>3, <2>4 DEF Step, OtherStep
<1>2. ASSUME NEW p \in Workers, NEW r \in Requests, Start(p, r) PROVE IInv'
  BY <1>2, StartKeeps
<1>3. ASSUME NEW b \in Moving, Push(b) PROVE IInv'
  BY <1>3, PushKeeps
<1>4. CASE Crash
  BY <1>4, CrashKeeps
<1>5. CASE UNCHANGED vars
  BY <1>5 DEF vars, IInv, Shapes, JobShapes, SiteShapes, Locks, Checkouts, DeployKept, Holders,
              Req, Site, Git, Named, Fresh
<1>6. QED
  BY <1>1, <1>2, <1>3, <1>4, <1>5 DEF Next

-----------------------------------------------------------------------------
(* Two jobs that deploy or sync one site never overlap between TryAcquire and the end of the   *)
(* deploy script: the deploy lock of sites.go and deploy.go excludes them.                     *)
LockExcludes == \A p, q \in Holders : Site(p) = Site(q) => p = q

\* The deploy lock excludes two jobs of one site, whatever else runs, crashes or is pushed.
THEOREM DeploysAndSyncsExclude == Spec => []LockExcludes
<1>1. IInv => LockExcludes
  BY DEF IInv, Locks, LockExcludes
<1>2. QED
  BY InitIInv, Inductive, <1>1, PTL DEF Spec

\* From the checkout to the end of its script a deploy has the commit it checked out, and a
\* deploy of a named branch one that is no older than the deploy (cloneRepo, handleDeploy).
THEOREM ScriptsRunTheirCheckout == Spec => []ScriptRunsCheckout
<1>1. IInv => ScriptRunsCheckout
  <2> SUFFICES ASSUME IInv, NEW p \in Working({"deploy"}), job[p].rev # None
               PROVE  /\ Git(p) # None => Git(p).head = job[p].rev
                      /\ Named(p) => Fresh(p, job[p].rev)
    BY DEF ScriptRunsCheckout, Git, Named, Fresh
  <2>1. QED
    BY DEF Working, IInv, Checkouts, DeployKept
<1>2. QED
  BY InitIInv, Inductive, <1>1, PTL DEF Spec
==============================================================================
