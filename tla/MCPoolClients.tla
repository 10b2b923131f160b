---------------------------- MODULE MCPoolClients ----------------------------
(* Two request tasks over the pool of MCCredentialPool.                     *)
EXTENDS PoolClients, TLC

CONSTANTS k1, k2, k3, t1, t2

MCItems == <<k1, k2, k3>>
MCModels == {"gpt-4o"}
MCPatterns == <<"gpt-4", "default">>
MCRateLimits == ("gpt-4" :> << <<1, 1>>, <<2, 3>> >>) @@ ("default" :> << <<2, 2>> >>)
MCSubstringOf == {<<"gpt-4", "gpt-4o">>}
MCCoolingTimes == {2}
MCTasks == {t1, t2}
=============================================================================
