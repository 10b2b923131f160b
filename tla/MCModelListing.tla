---------------------------- MODULE MCModelListing ----------------------------
(* Two providers "p" and "q" and an api key "sk1" of the configuration     *)
(* whose own listing is given.  Provider "p" lists a model under its name  *)
(* and under an alias, and the second configuration leaves "p" without    *)
(* models.  The entries cover "all", plain names, "provider/model",        *)
(* "provider/*", an api-key reference and its "/*", plain or with a        *)
(* weight.                                                                 *)
EXTENDS ModelListing, TLC

Str(n) == [kind |-> "str", name |-> n]
Alias(old, new) == [kind |-> "alias", old |-> old, new |-> new]

MCProviderConfigs ==
    { << [name |-> "p", models |-> << Str(<<"a">>), Alias(<<"a">>, <<"b">>) >>],
         [name |-> "q", models |-> << Str(<<"a">>) >>] >>,
      << [name |-> "p", models |-> << >>],
         [name |-> "q", models |-> << Str(<<"b">>) >>] >> }

\* Model names that contain a "/", as OpenRouter's do.
MCSlashProviderConfigs ==
    { << [name |-> "p", models |-> << Str(<<"m", "x">>) >>] >> }

Plain(s) == [kind |-> "str", s |-> s]
Weight(s) == [kind |-> "dict", s |-> s, w |-> 3]

MCEntryNames == {<<"a">>, <<"p", "a">>, <<"p", "b">>, <<"p", "*">>, <<"q", "b">>,
                 <<"sk1">>, <<"sk1", "*">>, <<"sk1", "c">>}
MCRawEntries ==
    {Plain(All)} \cup {Plain(s) : s \in MCEntryNames}
      \cup {Weight(s) : s \in {<<"p", "a">>, <<"p", "*">>, <<"q", "b">>}}

MCSlashRawEntries == {Plain(<<"p", "m", "x">>), Plain(<<"p", "*">>)}

MCAll == <<"all">>

MCModelsList == [k \in {"sk1"} |-> << <<"a">>, <<"c">> >>]
=============================================================================
