-------------------------- MODULE MCCredentialPool ---------------------------
(* A pool of three keys serving two models and next(None).  "gpt-4o"      *)
(* falls under the pattern "gpt-4" by substring, with two limits of       *)
(* different periods; "claude" and None fall back to "default".           *)
EXTENDS CredentialPool, TLC

CONSTANTS k1, k2, k3

MCItems == <<k1, k2, k3>>
MCModels == {"gpt-4o"}
MCPatterns == <<"gpt-4", "default">>
MCRateLimits == ("gpt-4" :> << <<1, 1>>, <<2, 3>> >>) @@ ("default" :> << <<2, 2>> >>)
MCSubstringOf == {<<"gpt-4", "gpt-4o">>}
MCCoolingTimes == {2}
=============================================================================
