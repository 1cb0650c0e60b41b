----------------------------- MODULE MCHostJobs ------------------------------
(* Two sites, the name of one the beginning of the other's; requests of every action, with and *)
(* without a branch, a commit and an .env, and a vhost that nginx does not accept.             *)
EXTENDS HostJobs

CONSTANTS w1, w2, main, dev, good, k0, k1

Shop == <<"shop">>
ShopApi == <<"shop", "api">>
Web == <<"web">>
MCSites == {Shop, ShopApi}
MCNames == {Web}
MCOldKeys == <<k0>>

Ask(act, s, arg) == [act |-> act, site |-> s, arg |-> arg, env |-> FALSE, sha |-> None]
MCRequests ==
    {Ask("daemon_create", s, Web) : s \in {Shop, ShopApi}}
    \cup {Ask("daemon_delete", Shop, Web)}
    \cup {Ask(a, Shop, None) : a \in {"site_delete", "command", "write_env"}}
    \cup {[Ask("site_create", Shop, None) EXCEPT !.env = TRUE]}
    \cup {Ask("deploy", Shop, main)}
    \cup {[Ask("deploy", Shop, main) EXCEPT !.sha = <<main, 1>>, !.env = TRUE]}
    \cup {Ask("site_sync", Shop, dev)}
    \cup {Ask("site_raw_nginx", ShopApi, v) : v \in {Broken, good}}
    \cup {Ask(a, None, k1) : a \in {"ssh_key_add", "ssh_key_remove"}}

\* A site whose name goes on with a hyphen keeps its program, or not.
DeleteRequests == {Ask("daemon_create", ShopApi, Web), Ask("site_delete", Shop, None)}

\* Deploys of whatever branch is the repository's default one.
DefaultRequests == {Ask("deploy", Shop, None)}

MCWorkers == {w1, w2}
WorkerSymmetry == Permutations(MCWorkers)
==============================================================================
