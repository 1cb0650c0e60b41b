------------------------------ MODULE HostJobs -------------------------------
(***************************************************************************)
(* What jobs do to the host: sites, checkouts and .env files (sites.go,    *)
(* deploy.go, env.go and runDeployScript in internals/jobengine), nginx    *)
(* vhosts (nginx.go), supervisor programs (supervisor.go) and root's       *)
(* authorized_keys (ssh.go). Jobs run in several goroutines at once; only  *)
(* deploy and site_sync of one site exclude each other. A step is one file *)
(* operation or one command.                                               *)
(*                                                                         *)
(* Git, nginx and supervisord are modelled by what these commands make of  *)
(* their files. A site's name and a daemon's are sequences of the parts    *)
(* between hyphens. What a deploy script or a `command` job does to the    *)
(* checkout is left out, and so is a disk that refuses a file operation;   *)
(* env_path is ".", parameters are valid, and authorized_keys ends in a    *)
(* newline, as the jobs leave it.                                          *)
(***************************************************************************)
EXTENDS Naturals, Sequences, FiniteSets, SequencesExt

CONSTANTS
    None,
    Workers,           \* goroutines that run jobs
    Requests,          \* [act, site, arg, env, sha]: see Ask in MCHostJobs
    Sites, Names,      \* names of sites and daemons
    Broken,            \* the argument of a site_raw_nginx whose vhost nginx refuses
    Branches, Default, \* branches of the repository; the one its HEAD points to
    OldKeys,           \* the lines of authorized_keys at the start
    MaxJobs,           \* bound: jobs
    Moving,            \* bound: branches that somebody pushes to
    MaxPushes,         \* bound: commits pushed
    MaxCrashes         \* bound: ends of the process

ASSUME HostAssumption ==
    /\ IsFiniteSet(Workers) /\ OldKeys \in Seq(ToSet(OldKeys))
    /\ Sites \cup Names \subseteq Seq(STRING) \ {<<>>}
    /\ Default \in Branches /\ Moving \subseteq Branches
    /\ None \notin Branches \cup Sites \cup [num : Nat, valid : BOOLEAN]
    /\ MaxJobs \in Nat /\ MaxPushes \in Nat /\ MaxCrashes \in Nat

\* validateActionParams: which actions must name a site, and which of them a daemon.
siteScopedActions ==
    {"site_create", "site_delete", "site_sync", "command", "deploy", "read_env", "write_env",
     "update_env", "site_raw_nginx", "read_nginx_config",
     "daemon_create", "daemon_delete", "daemon_restart"}
daemonActions == {"daemon_create", "daemon_delete", "daemon_restart"}
validateActionParams(r) ==
    /\ r.act \in siteScopedActions => r.site \in Sites
    /\ r.act \in daemonActions => r.arg \in Names

\* A deploy or sync names a branch, or none.
ASSUME RequestsAssumption ==
    \A r \in Requests :
        /\ validateActionParams(r)
        /\ r.act \in {"deploy", "site_sync"} => r.arg \in Branches \cup {None}

VARIABLES
    job, locked,          \* what each goroutine does; the sites whose deploy lock is taken
    conf, progs,          \* program configurations on disk; programs supervisord runs: [num, site]
    site,                 \* per site, its directory current/: is it there, is there an .env, its .git
    vhost, linked, served,\* sites-available; sites-enabled; what nginx runs with
    keys,                 \* lines of authorized_keys
    tip,                  \* repository: last commit of each branch
    started, pushes, crashes,
    torn, wanted, tangled \* history, for the properties: services with a change nothing told them
                          \* of; keys that jobs left there; did jobs get into each other's way

programs == <<conf, progs>>
nginx == <<vhost, linked, served>>
sshKeys == <<keys, wanted, tangled>>
bounds == <<started, pushes, crashes>>
vars == <<job, locked, programs, site, nginx, sshKeys, tip, bounds, torn>>

Programs == {s \o n : s \in Sites, n \in Names}
NoCheckout == [dir |-> FALSE, env |-> FALSE, git |-> None]
Idle == [req |-> None, pc |-> "idle", num |-> 0, files |-> {}, target |-> None,
         seen |-> <<>>, since |-> 0, rev |-> None]

Init ==
    /\ job = [p \in Workers |-> Idle] /\ locked = {}
    /\ conf = [f \in Programs |-> None] /\ progs = conf
    /\ site = [s \in Sites |-> NoCheckout]
    /\ vhost = [s \in Sites |-> None] /\ linked = {} /\ served = vhost
    /\ keys = OldKeys
    /\ tip = [b \in Branches |-> 1]
    /\ started = 0 /\ pushes = 0 /\ crashes = 0
    /\ torn = {} /\ wanted = ToSet(OldKeys) /\ tangled = FALSE

Req(p) == job[p].req
Site(p) == job[p].req.site
At(p, acts, pc) == job[p].pc = pc /\ Req(p).act \in acts
Goto(p, pc) == job' = [job EXCEPT ![p].pc = pc] /\ UNCHANGED locked
End(p) ==   \* the deferred release of the deploy lock with it
    /\ job' = [job EXCEPT ![p] = Idle]
    /\ locked' = IF Req(p).act \in {"deploy", "site_sync"} /\ job[p].pc # "begin"
                 THEN locked \ {Site(p)} ELSE locked

SupervisorActs == {"daemon_create", "daemon_delete", "site_delete"}
NginxActs == {"site_create", "site_raw_nginx"}
KeyActs == {"ssh_key_add", "ssh_key_remove"}
Holders == {p \in Workers : job[p].pc # "begin" /\ job[p] # Idle
                               /\ Req(p).act \in {"deploy", "site_sync"}}
Working(acts) == {p \in Workers : job[p] # Idle /\ Req(p).act \in acts}
BranchOf(r) == IF r.arg = None THEN Default ELSE r.arg
\* The pattern <site>-*.conf: every program whose name goes on after the site's name.
Globbed(s, f) == IsStrictPrefix(s, f)
\* The sequence s without the entries that equal x.
Without(s, x) ==
    LET kept[n \in 0 .. Len(s)] ==
            IF n = 0 THEN <<>> ELSE IF s[n] = x THEN kept[n - 1] ELSE Append(kept[n - 1], s[n])
    IN  kept[Len(s)]
KeyJobEnds(p) ==
    wanted' = IF Req(p).act = "ssh_key_add" THEN wanted \cup {Req(p).arg}
                                             ELSE wanted \ {Req(p).arg}

-----------------------------------------------------------------------------
(* Variants with one plausible bug each, used to show that the properties can fail. *)

\* The lock is given back before the script.
CheckedOutReleasing(p, rev) ==
    /\ job' = [job EXCEPT ![p] = IF Req(p).act = "deploy" THEN [@ EXCEPT !.rev = rev, !.pc = "env"]
                                                          ELSE Idle]
    /\ locked' = locked \ {Site(p)}

\* site_delete leaves the update to the jobs that come after it.
RemoveConfOnly(p) ==
    /\ At(p, {"daemon_delete", "site_delete"}, "unlink")
    /\ conf' = [conf EXCEPT ![job[p].target] = None]
    /\ LET rest == job[p].files \ {job[p].target}
           last == IF Req(p).act = "site_delete" THEN "rmdir" ELSE "update"
       IN  job' = [job EXCEPT ![p].files = rest, ![p].pc = IF rest = {} THEN last ELSE "stop"]
    /\ UNCHANGED <<locked, progs, site, nginx, sshKeys, tip, bounds, torn>>

\* site_sync takes no lock.
TryAcquireDeploy(p) ==
    /\ At(p, {"deploy", "site_sync"}, "begin")
    /\ IF Req(p).act = "deploy" /\ Site(p) \in locked THEN End(p) /\ UNCHANGED site
       ELSE /\ locked' = locked \cup {Site(p)}
            /\ job' = [job EXCEPT ![p].pc = "git"]
            /\ site' = [site EXCEPT ![Site(p)].dir = @ \/ Req(p).act = "site_sync"]
    /\ UNCHANGED <<programs, nginx, sshKeys, tip, bounds, torn>>

\* Only the first line that matches is left out.
WriteKeysFirst(p) ==
    /\ At(p, {"ssh_key_remove"}, "write")
    /\ keys' = RemoveFirst(job[p].seen, Req(p).arg)
    /\ End(p) /\ KeyJobEnds(p)
    /\ UNCHANGED <<programs, site, nginx, tangled, tip, bounds, torn>>

-----------------------------------------------------------------------------
(* Jobs begin, and everything ends. *)

\* Execute reaches the action. An ssh job that another one overlaps, unless both add, may undo it.
Start(p, r) ==
    /\ job[p] = Idle /\ started < MaxJobs /\ started' = started + 1
    /\ job' = [job EXCEPT ![p] =
           [Idle EXCEPT !.req = r, !.pc = "begin", !.num = started + 1,
                        !.since = IF r.act = "deploy" THEN tip[BranchOf(r)] ELSE 0]]
    /\ tangled' = (tangled \/ /\ r.act \in KeyActs /\ Working(KeyActs) # {}
                              /\ \E a \in {r} \cup {Req(q) : q \in Working(KeyActs)} :
                                     a.act = "ssh_key_remove")
    /\ UNCHANGED <<locked, programs, site, nginx, keys, wanted, tip, pushes, crashes, torn>>

\* The process ends in the middle of whatever its jobs do.
Crash ==
    /\ crashes < MaxCrashes /\ crashes' = crashes + 1
    /\ job' = [p \in Workers |-> Idle] /\ locked' = {}
    /\ torn' = torn \cup (IF Working(SupervisorActs) # {} THEN {"supervisor"} ELSE {})
                    \cup (IF Working(NginxActs) # {} THEN {"nginx"} ELSE {})
    /\ tangled' = (tangled \/ \E p \in Workers : At(p, {"ssh_key_remove"}, "write"))
    /\ UNCHANGED <<programs, site, nginx, keys, wanted, tip, started, pushes>>

\* Somebody pushes a commit.
Push(b) ==
    /\ pushes < MaxPushes /\ pushes' = pushes + 1
    /\ tip' = [tip EXCEPT ![b] = @ + 1]
    /\ UNCHANGED <<job, locked, programs, site, nginx, sshKeys, started, crashes, torn>>

-----------------------------------------------------------------------------
(* Supervisor programs. *)

WriteConf(p) ==
    /\ At(p, {"daemon_create"}, "begin")
    /\ conf' = [conf EXCEPT ![Site(p) \o Req(p).arg] =
                   [num |-> job[p].num, site |-> Site(p)]]
    /\ Goto(p, "update")
    /\ UNCHANGED <<progs, site, nginx, sshKeys, tip, bounds, torn>>

\* daemon_delete has its one program; site_delete those that its glob finds now.
ListPrograms(p) ==
    /\ At(p, {"daemon_delete", "site_delete"}, "begin")
    /\ LET found == IF Req(p).act = "daemon_delete" THEN {Site(p) \o Req(p).arg}
                    ELSE {f \in Programs : conf[f] # None /\ Globbed(Site(p), f)}
       IN  job' = [job EXCEPT ![p].files = found,
                              ![p].pc = IF found = {} THEN "rmdir" ELSE "stop"]
    /\ UNCHANGED <<locked, programs, site, nginx, sshKeys, tip, bounds, torn>>

\* supervisorctl stop, supervisorctl remove; that they fail is ignored.
StopProgram(p) ==
    /\ At(p, {"daemon_delete", "site_delete"}, "stop")
    /\ \E f \in job[p].files :
           /\ job' = [job EXCEPT ![p].target = f, ![p].pc = "unlink"]
           /\ progs' \in {progs, [progs EXCEPT ![f] = None]}
    /\ UNCHANGED <<locked, conf, site, nginx, sshKeys, tip, bounds, torn>>

RemoveConf(p) ==
    /\ At(p, {"daemon_delete", "site_delete"}, "unlink")
    /\ conf' = [conf EXCEPT ![job[p].target] = None]
    /\ LET rest == job[p].files \ {job[p].target}
       IN  job' = [job EXCEPT ![p].files = rest,
                              ![p].pc = IF rest = {} THEN "update" ELSE "stop"]
    /\ UNCHANGED <<locked, progs, site, nginx, sshKeys, tip, bounds, torn>>

AfterUpdate(p) == IF Req(p).act = "site_delete" THEN Goto(p, "rmdir") ELSE End(p)

\* supervisorctl update: supervisord runs what is in the directory now.
Update(p) ==
    /\ At(p, SupervisorActs, "update")
    /\ progs' = conf /\ torn' = torn \ {"supervisor"}
    /\ AfterUpdate(p)
    /\ UNCHANGED <<conf, site, nginx, sshKeys, tip, bounds>>

\* Fails the job, but for site_delete, which does not look.
UpdateFails(p) ==
    /\ At(p, SupervisorActs, "update")
    /\ torn' = torn \cup {"supervisor"}
    /\ AfterUpdate(p)
    /\ UNCHANGED <<programs, site, nginx, sshKeys, tip, bounds>>

RemoveSiteDir(p) ==
    /\ At(p, {"site_delete"}, "rmdir")
    /\ site' = [site EXCEPT ![Site(p)] = NoCheckout]
    /\ End(p)
    /\ UNCHANGED <<programs, nginx, sshKeys, tip, bounds, torn>>

-----------------------------------------------------------------------------
(* Checkouts: deploy and site_sync. *)

\* TryAcquire, which does not wait; site_sync makes current/.
TryAcquire(p) ==
    /\ At(p, {"deploy", "site_sync"}, "begin")
    /\ IF Site(p) \in locked THEN End(p) /\ UNCHANGED site
       ELSE /\ locked' = locked \cup {Site(p)}
            /\ job' = [job EXCEPT ![p].pc = "git"]
            /\ site' = [site EXCEPT ![Site(p)].dir = @ \/ Req(p).act = "site_sync"]
    /\ UNCHANGED <<programs, nginx, sshKeys, tip, bounds, torn>>

\* Is there a .git?
StatGit(p) ==
    /\ At(p, {"deploy", "site_sync"}, "git")
    /\ Goto(p, IF site[Site(p)].git = None THEN "clone" ELSE "fetch")
    /\ UNCHANGED <<programs, site, nginx, sshKeys, tip, bounds, torn>>

\* deploy goes on once the commit rev is checked out, site_sync is done.
CheckedOut(p, rev) ==
    IF Req(p).act = "deploy"
    THEN job' = [job EXCEPT ![p].rev = rev, ![p].pc = "env"] /\ UNCHANGED locked
    ELSE End(p)

\* git clone --depth=1 [-b branch]: that branch only, whatever commit is asked for. It needs a
\* directory that is not there or has nothing in it.
Clone(p) ==
    /\ At(p, {"deploy", "site_sync"}, "clone")
    /\ LET b == BranchOf(Req(p))  rev == <<b, tip[b]>>  old == site[Site(p)]
       IN  /\ ~old.env /\ old.git = None
           /\ site' = [site EXCEPT ![Site(p)] = [dir |-> TRUE, env |-> FALSE,
                  git |-> [branch |-> b, tracked |-> rev, head |-> rev, objects |-> {rev}]]]
           /\ CheckedOut(p, rev)
    /\ UNCHANGED <<programs, nginx, sshKeys, tip, bounds, torn>>

\* git fetch --depth=1 origin branch: it moves origin/branch if that is the branch that was cloned,
\* and nothing but FETCH_HEAD otherwise, HEAD included.
Fetch(p) ==
    /\ At(p, {"deploy", "site_sync"}, "fetch")
    /\ LET b == BranchOf(Req(p))  rev == <<b, tip[b]>>  git == site[Site(p)].git
       IN  /\ git # None
           /\ site' = [site EXCEPT
                  ![Site(p)].git.tracked = IF Req(p).arg = git.branch THEN rev ELSE @,
                  ![Site(p)].git.objects = @ \cup {rev}]
    /\ Goto(p, "checkout")
    /\ UNCHANGED <<programs, nginx, sshKeys, tip, bounds, torn>>

\* git checkout -f of the commit if the repository has it, or else of origin/branch; origin/HEAD
\* is there if the default branch was cloned.
Checkout(p) ==
    /\ At(p, {"deploy", "site_sync"}, "checkout")
    /\ LET git == site[Site(p)].git
           rev == IF Req(p).sha # None THEN Req(p).sha ELSE git.tracked
       IN  /\ git # None
           /\ IF Req(p).sha # None THEN rev \in git.objects ELSE BranchOf(Req(p)) = git.branch
           /\ site' = [site EXCEPT ![Site(p)].git.head = rev]
           /\ CheckedOut(p, rev)
    /\ UNCHANGED <<programs, nginx, sshKeys, tip, bounds, torn>>

\* A git command fails: because it has to, or because of the network.
GitFails(p) ==
    /\ job[p].pc \in {"clone", "fetch", "checkout"}
    /\ End(p)
    /\ UNCHANGED <<programs, site, nginx, sshKeys, tip, bounds, torn>>

-----------------------------------------------------------------------------
(* .env files: deploy, command, write_env, site_create. *)

WriteEnv(p) ==   \* with the directories above it
    site' = [site EXCEPT ![Site(p)].dir = TRUE, ![Site(p)].env = TRUE]
MakeDir(p) == site' = [site EXCEPT ![Site(p)].dir = TRUE]

CommandBegins(p) ==
    /\ At(p, {"command"}, "begin")
    /\ MakeDir(p) /\ Goto(p, "env")
    /\ UNCHANGED <<programs, nginx, sshKeys, tip, bounds, torn>>

\* Is there no .env yet? A deploy also asks for env.example.
StatEnv(p) ==
    /\ At(p, {"deploy", "command"}, "env")
    /\ \E found \in BOOLEAN :
           /\ Req(p).act = "command" => found
           /\ Goto(p, IF found /\ ~site[Site(p)].env THEN "bootstrap" ELSE "params")
    /\ UNCHANGED <<programs, site, nginx, sshKeys, tip, bounds, torn>>

\* A copy of env.example, or an empty file, over whatever is there by now.
BootstrapEnv(p) ==
    /\ At(p, {"deploy", "command"}, "bootstrap")
    /\ site' = [site EXCEPT ![Site(p)].env = site[Site(p)].dir]
    /\ Goto(p, "params")
    /\ UNCHANGED <<programs, nginx, sshKeys, tip, bounds, torn>>

\* The env of the job's parameters, if any, then the deploy script.
ScriptBegins(p) ==
    /\ At(p, {"deploy", "command"}, "params")
    /\ IF Req(p).env THEN WriteEnv(p) ELSE UNCHANGED site
    /\ Goto(p, "script")
    /\ UNCHANGED <<programs, nginx, sshKeys, tip, bounds, torn>>

ScriptEnds(p) ==
    /\ At(p, {"deploy", "command"}, "script")
    /\ End(p)
    /\ UNCHANGED <<programs, site, nginx, sshKeys, tip, bounds, torn>>

\* write_env and update_env.
WriteEnvContent(p) ==
    /\ At(p, {"write_env"}, "begin")
    /\ WriteEnv(p) /\ End(p)
    /\ UNCHANGED <<programs, nginx, sshKeys, tip, bounds, torn>>

CreateSite(p) ==
    /\ At(p, {"site_create"}, "begin")
    /\ IF Req(p).env THEN WriteEnv(p) ELSE MakeDir(p)
    /\ Goto(p, "vhost")
    /\ UNCHANGED <<programs, nginx, sshKeys, tip, bounds, torn>>

-----------------------------------------------------------------------------
(* nginx vhosts: site_create and site_raw_nginx. A vhost is [num, valid]. *)

Enabled == [s \in Sites |-> IF s \in linked THEN vhost[s] ELSE None]
NginxAccepts == \A s \in linked : vhost[s].valid
NginxJobFails(p) == End(p) /\ torn' = torn \cup {"nginx"}

WriteVhost(p) ==
    /\ At(p, {"site_create"}, "vhost") \/ At(p, {"site_raw_nginx"}, "begin")
    /\ vhost' = [vhost EXCEPT ![Site(p)] =
                     [num |-> job[p].num, valid |-> Req(p).arg # Broken]]
    /\ Goto(p, "unlinkVhost")
    /\ UNCHANGED <<programs, site, linked, served, sshKeys, tip, bounds, torn>>

UnlinkVhost(p) ==
    /\ At(p, NginxActs, "unlinkVhost")
    /\ linked' = linked \ {Site(p)} /\ Goto(p, "linkVhost")
    /\ UNCHANGED <<programs, site, vhost, served, sshKeys, tip, bounds, torn>>

\* The link must not be there.
LinkVhost(p) ==
    /\ At(p, NginxActs, "linkVhost")
    /\ IF Site(p) \in linked THEN NginxJobFails(p) /\ UNCHANGED linked
       ELSE linked' = linked \cup {Site(p)} /\ Goto(p, "test") /\ UNCHANGED torn
    /\ UNCHANGED <<programs, site, vhost, served, sshKeys, tip, bounds>>

\* nginx -t, on the vhosts of all sites.
TestNginx(p) ==
    /\ At(p, NginxActs, "test")
    /\ IF NginxAccepts THEN Goto(p, "reload") /\ UNCHANGED torn ELSE NginxJobFails(p)
    /\ UNCHANGED <<programs, site, nginx, sshKeys, tip, bounds>>

\* systemctl reload-or-restart nginx: nothing changes when nginx refuses its files by now.
ReloadNginx(p) ==
    /\ At(p, NginxActs, "reload")
    /\ \/ NginxAccepts /\ served' = Enabled /\ torn' = torn \ {"nginx"} /\ End(p)
       \/ NginxJobFails(p) /\ UNCHANGED served
    /\ UNCHANGED <<programs, site, vhost, linked, sshKeys, tip, bounds>>

-----------------------------------------------------------------------------
(* authorized_keys: ssh_key_add and ssh_key_remove; Req(p).arg is the key. *)

\* The jobs read the file; they are done if there is nothing to do.
ReadKeys(p) ==
    /\ At(p, KeyActs, "begin")
    /\ LET present == Req(p).arg \in ToSet(keys)
           nothing == present = (Req(p).act = "ssh_key_add")
       IN  IF nothing THEN End(p) /\ KeyJobEnds(p)
           ELSE /\ job' = [job EXCEPT ![p].seen = keys,
                      ![p].pc = IF Req(p).act = "ssh_key_add" THEN "append" ELSE "truncate"]
                /\ UNCHANGED <<locked, wanted>>
    /\ UNCHANGED <<programs, site, nginx, keys, tangled, tip, bounds, torn>>

\* O_APPEND.
AppendKey(p) ==
    /\ At(p, {"ssh_key_add"}, "append")
    /\ keys' = Append(keys, Req(p).arg)
    /\ End(p) /\ KeyJobEnds(p)
    /\ UNCHANGED <<programs, site, nginx, tangled, tip, bounds, torn>>

\* os.WriteFile of the lines read before, but for the key: it empties the file, then it writes.
TruncateKeys(p) ==
    /\ At(p, {"ssh_key_remove"}, "truncate")
    /\ keys' = <<>> /\ Goto(p, "write")
    /\ UNCHANGED <<programs, site, nginx, wanted, tangled, tip, bounds, torn>>

WriteKeys(p) ==
    /\ At(p, {"ssh_key_remove"}, "write")
    /\ keys' = Without(job[p].seen, Req(p).arg)
    /\ End(p) /\ KeyJobEnds(p)
    /\ UNCHANGED <<programs, site, nginx, tangled, tip, bounds, torn>>

-----------------------------------------------------------------------------
Step(p) ==
    \/ WriteConf(p) \/ ListPrograms(p) \/ StopProgram(p) \/ RemoveConf(p)
    \/ Update(p) \/ UpdateFails(p) \/ RemoveSiteDir(p)
    \/ TryAcquire(p) \/ StatGit(p) \/ Clone(p) \/ Fetch(p) \/ Checkout(p) \/ GitFails(p)
    \/ CommandBegins(p) \/ StatEnv(p) \/ BootstrapEnv(p) \/ ScriptBegins(p) \/ ScriptEnds(p)
    \/ WriteEnvContent(p) \/ CreateSite(p)
    \/ WriteVhost(p) \/ UnlinkVhost(p) \/ LinkVhost(p) \/ TestNginx(p) \/ ReloadNginx(p)
    \/ ReadKeys(p) \/ AppendKey(p) \/ TruncateKeys(p) \/ WriteKeys(p)

Next ==
    \/ \E p \in Workers : Step(p) \/ \E r \in Requests : Start(p, r)
    \/ \E b \in Moving : Push(b)
    \/ Crash

Spec == Init /\ [][Next]_vars

-----------------------------------------------------------------------------
(* Properties. *)

TypeOK ==
    /\ \A p \in Workers : job[p] = Idle \/ (Req(p) \in Requests /\ job[p].num \in 1 .. started)
    /\ locked = {Site(p) : p \in Holders} /\ Cardinality(locked) = Cardinality(Holders)
    /\ \A f \in Programs : {conf[f], progs[f]} \subseteq
           {None} \cup [num : 1 .. started, site : {s \in Sites : IsStrictPrefix(s, f)}]
    /\ \A s \in Sites : ~site[s].dir => site[s] = NoCheckout
    /\ linked \subseteq {s \in Sites : vhost[s] # None}
    /\ ToSet(keys) \subseteq ToSet(OldKeys) \cup {r.arg : r \in Requests}
    /\ torn \subseteq {"supervisor", "nginx"}

\* README "Jobs": daemon_create and daemon_delete reload supervisor, site_create and site_raw_nginx
\* reload nginx. Whatever jobs overlap on whatever sites, once none of them is at work supervisord
\* runs what its directory says and nginx serves what is linked, unless the last change failed or
\* was cut short; the next job that gets through to the service makes up for that one too.
ServicesMatchFiles ==
    /\ "supervisor" \notin torn /\ Working(SupervisorActs) = {} => progs = conf
    /\ "nginx" \notin torn /\ Working(NginxActs) = {} => served = Enabled

\* syncSite: "shares the per-site deploy lock with deploys so a sync cannot race an in-progress
\* deploy". Until a deploy's script ends, the commit in the checkout is the one that this deploy
\* checked out, unless site_delete takes it away, and for a branch that is named it is of that
\* branch and no older than the deploy.
ScriptRunsCheckout ==
    \A p \in Working({"deploy"}) : job[p].rev # None =>
        /\ site[Site(p)].git # None => site[Site(p)].git.head = job[p].rev
        /\ Req(p).arg # None /\ Req(p).sha = None =>
               job[p].rev[1] = Req(p).arg /\ job[p].rev[2] >= job[p].since

\* README: ssh_key_add appends a key once, ssh_key_remove removes it. After any jobs, of which
\* those that add may overlap, the keys in the file are those that the jobs added or found and did
\* not remove, as long as no job that removes overlapped another one or was cut short.
KeysSettle == ~tangled /\ Working(KeyActs) = {} => ToSet(keys) = wanted

(* What the code's comments and README say, and the code does not do. *)

\* supervisor.go: cleanupSupervisorForSite "removes all supervisor programs and configs associated
\* with the given site name"; README: site_delete removes "all supervisor programs for the site".
\* A program goes when its own site is deleted, or by a daemon_delete of that very program.
DeleteKeepsOthers ==
    [][\A f \in Programs : conf[f] # None /\ conf'[f] = None =>
           \E p \in Working({"site_delete", "daemon_delete"}) :
               job[p].target = f /\ (Req(p).act = "site_delete" => Site(p) = conf[f].site)]_vars

\* deploy.go: an empty branch means that "both fresh-clone and already-cloned paths behave
\* consistently (checkout the remote's default branch)".
DefaultIsCheckedOut ==
    \A p \in Working({"deploy"}) : (job[p].rev # None /\ Req(p).arg = None /\ Req(p).sha = None) =>
        job[p].rev[1] = Default /\ job[p].rev[2] >= job[p].since
=============================================================================
