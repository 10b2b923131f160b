----------------------------- MODULE ModelListing -----------------------------
(***************************************************************************)
(* The model list of an API key (src/utils.py): update_config normalises   *)
(* the key's `model` entries and collects their weights when the           *)
(* configuration is loaded; post_all_models, get_all_models and            *)
(* get_model_dict then compute the models the key may see.                 *)
(*                                                                         *)
(* A model name or an entry is kept as the list of its "/"-separated       *)
(* segments, which is all the code looks at: `"/" in s` is a list of more  *)
(* than one segment and s.split("/")[i] is its (i+1)-th segment.  Each     *)
(* loop of the code is a FoldLeft over the list it walks.                  *)
(***************************************************************************)
EXTENDS Integers, Sequences, SequencesExt

CONSTANTS
    ProviderConfigs, \* possible config["providers"] lists
    RawEntries,      \* possible items of an api_keys[i]["model"] list
    MaxEntries,      \* bound on the length of that list
    ModelsList,      \* models_list: api key -> the models listed for it
    SkNames,         \* names that start with "sk-"
    ApiList,         \* api_list: the api keys of the configuration
    Star,            \* the segment "*"
    All,             \* the entry "all", a name of one segment
    NoModelField     \* an api key without a `model` field

VARIABLES
    providers,  \* config["providers"]: <<[name, models]>>
    raw,        \* api_keys[i]["model"] as written in api.yaml
    entries,    \* api_keys[i]["model"] after update_config
    weights,    \* api_keys[i]["weights"]: key -> weight
    loaded      \* update_config has run

vars == <<providers, raw, entries, weights, loaded>>

\* provider.startswith("sk-") and provider in api_list
IsApiKeyRef(s) == s \in SkNames /\ s \in ApiList

\* get_model_dict(provider): the keys of {alias: upstream}, in insertion
\* order; a plain name maps to itself, a dict {old: new} adds new.
GetModelDict(p) ==
    FoldLeft(LAMBDA ks, me :
                LET k == IF me.kind = "str" THEN me.name ELSE me.new
                IN  IF k \in ToSet(ks) THEN ks ELSE Append(ks, k),
             << >>, p.models)

\* The listing under construction: all_models and unique_models.
Empty == [ids |-> << >>, seen |-> {}]

\* Mutant: the `not in unique_models` test left out.
AddNoDedup(acc, n) == [ids |-> Append(acc.ids, n), seen |-> acc.seen \cup {n}]

Add(acc, n) ==
    IF n \in acc.seen THEN acc
    ELSE [ids |-> Append(acc.ids, n), seen |-> acc.seen \cup {n}]

AddAll(acc, ns) == FoldLeft(Add, acc, ns)

\* AddAll over the model dicts of the providers named pn: every key for
\* "*", else the keys equal to mn.
AddProvider(acc, pn, mn) ==
    FoldLeft(LAMBDA a, p :
                IF p.name # pn THEN a
                ELSE AddAll(a, SelectSeq(GetModelDict(p),
                                         LAMBDA x : mn = <<Star>> \/ x = mn)),
             acc, providers)

\* get_all_models(config)
GetAllModels == FoldLeft(LAMBDA a, p : AddAll(a, GetModelDict(p)), Empty, providers).ids

\* One pass of the loop of post_all_models over a non-"all" entry.
PostStep(acc, e) ==
    IF Len(e) > 1
    THEN LET pn == e[1]
             mn == <<e[2]>>
         IN  IF e[2] = Star
             THEN IF IsApiKeyRef(pn) THEN AddAll(acc, ModelsList[pn])
                  ELSE AddProvider(acc, pn, mn)
             ELSE IF IsApiKeyRef(pn)
                  THEN IF mn \in ToSet(ModelsList[pn]) THEN Add(acc, mn) ELSE acc
                  ELSE AddProvider(acc, pn, mn)
    ELSE IF IsApiKeyRef(e[1]) THEN acc
    ELSE Add(acc, e)

\* post_all_models(api_index, config, api_list, models_list): "all"
\* returns get_all_models at once, whatever came before it.
PostAllModels ==
    IF All \in ToSet(entries) THEN GetAllModels
    ELSE FoldLeft(PostStep, Empty, entries).ids

\* Mutant: the weight kept whatever provider the key names.
WeightStepAnyProvider(wd, r) ==
    IF r.kind # "dict" THEN wd
    ELSE LET mn == <<r.s[2]>>
         IN  IF \E i \in DOMAIN providers : mn \in ToSet(GetModelDict(providers[i]))
             THEN [x \in DOMAIN wd \cup {r.s} |-> IF x = r.s THEN r.w ELSE wd[x]]
             ELSE wd

\* The weight loop of update_config for one dict entry {key: value}.
WeightStep(wd, r) ==
    IF r.kind # "dict" THEN wd
    ELSE LET pn == r.s[1]
             mn == <<r.s[2]>>
             Set(f, key) == [x \in DOMAIN f \cup {key} |-> IF x = key THEN r.w ELSE f[x]]
         IN  FoldLeft(LAMBDA f, p :
                         IF p.name # pn THEN f
                         ELSE IF mn \in ToSet(GetModelDict(p)) THEN Set(f, <<pn>> \o mn)
                         ELSE IF r.s[2] = Star /\ GetModelDict(p) # << >> THEN Set(f, <<pn, Star>>)
                         ELSE f,
                      wd, providers)

Init ==
    /\ providers \in ProviderConfigs
    /\ raw \in {NoModelField} \cup BoundedSeq(RawEntries, MaxEntries)
    /\ entries = << >>
    /\ weights = << >>
    /\ loaded = FALSE

\* update_config, the loop over api_keys for this key: dict entries become
\* their key, weights are collected, and a key without models gets "all".
UpdateConfig ==
    /\ ~loaded
    /\ IF raw = NoModelField \/ raw = << >>
       THEN /\ entries' = <<All>>
            /\ weights' = << >>
       ELSE /\ entries' = [i \in DOMAIN raw |-> raw[i].s]
            /\ weights' = FoldLeft(WeightStep, << >>, raw)
    /\ loaded' = TRUE
    /\ UNCHANGED <<providers, raw>>

Next == UpdateConfig

Spec == Init /\ [][Next]_vars
-----------------------------------------------------------------------------
(* The reference: what the entries of an API key grant, read as "all",     *)
(* "provider/model", "provider/*" or a plain model name, where "model" is  *)
(* everything after the first "/".                                         *)

ServedBy(pn) == UNION {ToSet(GetModelDict(providers[i])) :
                         i \in {j \in DOMAIN providers : providers[j].name = pn}}

Served == UNION {ToSet(GetModelDict(providers[i])) : i \in DOMAIN providers}

Grants(e) ==
    IF Len(e) = 1 THEN IF IsApiKeyRef(e[1]) THEN {} ELSE {e}
    ELSE LET pn == e[1]
             rest == Tail(e)
             pool == IF IsApiKeyRef(pn) THEN ToSet(ModelsList[pn]) ELSE ServedBy(pn)
         IN  IF rest = <<Star>> THEN pool ELSE {rest} \cap pool

RefIds ==
    IF All \in ToSet(entries) THEN Served
    ELSE UNION {Grants(entries[i]) : i \in DOMAIN entries}

\* The weight of a dict entry {key: value} is kept under its key when its
\* provider serves the model, or serves anything for "provider/*"; a later
\* entry with the same key wins.
Weighed(r) ==
    /\ r.kind = "dict"
    /\ LET pool == ServedBy(r.s[1])
       IN  IF Tail(r.s) = <<Star>> THEN pool # {} ELSE Tail(r.s) \in pool

RefWeights ==
    LET ws == {i \in DOMAIN raw : Weighed(raw[i])}
        LastOf(key) == CHOOSE i \in ws : raw[i].s = key /\ \A j \in ws : raw[j].s = key => j <= i
    IN  [key \in {raw[i].s : i \in ws} |-> raw[LastOf(key)].w]

\* post_all_models lists every model the key's entries grant, and nothing
\* else, each once: the shared unique_models set across the "*", named,
\* api-key and plain branches, the alias keys of get_model_dict and the
\* early return of "all" together give exactly the reference listing.
ListingIsReference ==
    loaded => /\ ToSet(PostAllModels) = RefIds
              /\ IsInjective(PostAllModels)

\* update_config keeps a weight exactly for the dict entries whose provider
\* serves the named model (or anything, for "*"), with the last value given.
WeightsAreReference ==
    loaded /\ raw # NoModelField /\ raw # << >> => weights = RefWeights
=============================================================================
