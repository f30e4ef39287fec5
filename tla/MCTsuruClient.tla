---------------------------- MODULE MCTsuruClient ----------------------------
(* Instances of TsuruClient for TLC. *)
EXTENDS TsuruClient

C(name, kubernetes, default, pools, usable) ==
    [name |-> name, kubernetes |-> kubernetes, default |-> default,
     pools |-> pools, usable |-> usable]

Named    == C("named", TRUE, FALSE, {"p1"}, TRUE)
Default1 == C("default1", TRUE, TRUE, {}, TRUE)
Default2 == C("default2", TRUE, TRUE, {"p2"}, FALSE)
Other    == C("other", FALSE, TRUE, {"p1"}, TRUE)

MCClusters == {Named, Default1, Default2, Other}
MCLists == {<<>>, <<Other>>, <<Default1, Named, Default2>>,
            <<Default1, Default2>>}

App == <<"app", "a1">>
Job == <<"job", "j1">>
Pool == <<"pool", "p1">>
MCBatches == {<<App, Job, App>>, <<Pool, App, Job>>}
=============================================================================
