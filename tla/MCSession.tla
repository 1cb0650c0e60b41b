------------------------------ MODULE MCSession ------------------------------
(* One token for the daemon and one for setup; command lines and environments that disagree *)
(* with the file about every kind of key.                                                   *)
EXTENDS Session

CONSTANTS tok1, tok2

URL(path) == [scheme |-> "https", host |-> "h", path |-> path]
MCSetupURL == URL(<<>>)

MCTold == {[poll |-> 0, ws |-> Unset],
           [poll |-> 6, ws |-> [scheme |-> "wss", host |-> "h", path |-> Endpoint]]}

MCTokens == {tok1, tok2}

\* A file an operator wrote, which never is without an API URL, or one that an earlier setup did.
MCFiles ==
    {[Nothing EXCEPT !.api = URL(<<"api", "v1", "">>), !.poll = p, !.auto = FALSE, !.token = t] :
        p \in {0, 7}, t \in {Unset, tok1}}
    \cup {MarshalSetup(1, MCSetupURL, Unset, 5)}

\* main passes --update-interval's default when the flag is not there.
Passed == [Nothing EXCEPT !.update = 86400]
MCFlags ==
    {Passed,
     [Passed EXCEPT !.api = URL(<<>>)],
     [Passed EXCEPT !.token = tok1, !.poll = 9, !.heartbeat = -5],
     [Passed EXCEPT !.session = 1, !.api = URL(Endpoint)],
     [Passed EXCEPT !.token = tok1, !.api = URL(<<>>), !.dataDir = "d", !.auto = TRUE]}
MCEnvs ==
    {Nothing,
     [Nothing EXCEPT !.poll = 11, !.dataDir = "d"],
     [Nothing EXCEPT !.poll = 0, !.heartbeat = -1],
     [Nothing EXCEPT !.update = -1]}
==============================================================================
