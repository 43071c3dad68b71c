----------------------------- MODULE RelayRegistry -----------------------------
(***************************************************************************)
(* What relay-loader.mjs and key-discovery.mjs make of a registry document *)
(* and of the credentials in the environment: which keys there are, which  *)
(* names each answers to, and what it calls them upstream.                 *)
(*                                                                         *)
(* Names of models come in several spellings.  Lower maps a spelling to    *)
(* its lowercase one; some of the code compares spellings, some of it      *)
(* lowercase names, and that difference is kept.                           *)
(***************************************************************************)
EXTENDS Integers, Sequences, FiniteSets, Functions

CONSTANT Lower

Names == DOMAIN Lower

ASSUME LowerAssumption == \A n \in Names : Lower[n] \in Names /\ Lower[Lower[n]] = Lower[n]

Lowered(S) == {Lower[n] : n \in S}

\* A relay of the document: `aliases` maps lowercase client names to upstream
\* names, `declared` is canonicalModels (empty when not given).
Relays ==
    [disabled : BOOLEAN, hosted : BOOLEAN,
     models : Seq(Names), declared : Seq(Names),
     aliases : UNION {[S -> Names] : S \in SUBSET Lowered(Names)},
     formats : SUBSET {"openai", "anthropic"}, weight : Nat, reserve : BOOLEAN, managed : BOOLEAN]

-----------------------------------------------------------------------------

\* The entries of a Map keyed by the lowercase name: the last spelling wins.
LastSpellings(s) ==
    {s[i] : i \in {i \in DOMAIN s : \A j \in DOMAIN s : j > i => Lower[s[j]] # Lower[s[i]]}}

Models(relay) == Range(relay.models)
Clients(relay) == DOMAIN relay.aliases
Targets(relay) == Lowered({relay.aliases[c] : c \in Clients(relay)})

\* Mutant of AliasesListed: the target of an alias is not looked up.
AliasesUnchecked(relay) == TRUE

AliasesListed(relay) == Targets(relay) \subseteq Lowered(Models(relay))

\* The checks of compileRelay that concern names; a disabled relay needs no host.
Compiles(relay) ==
    /\ relay.disabled \/ relay.hosted
    /\ IF relay.declared # <<>>
       THEN Lowered(Range(relay.declared)) \subseteq Lowered(Models(relay)) \cup Clients(relay)
       ELSE AliasesListed(relay)

\* normalizeCanonicalModels: the names shown to clients.  Without a declaration
\* a model hides behind its aliases, and wins over an alias of its own name.
Canonical(relay) ==
    IF relay.declared # <<>> THEN LastSpellings(relay.declared)
    ELSE LET own == {n \in LastSpellings(relay.models) : Lower[n] \notin Targets(relay)}
         IN  own \cup (Clients(relay) \ Lowered(own))

-----------------------------------------------------------------------------

(* Keys.  The name of a credential is that of its relay, after a present or  *)
(* a legacy prefix.                                                          *)

Credentials(Slugs) == [slug : Slugs, legacy : BOOLEAN, empty : BOOLEAN]

\* A legacy name is shadowed by the present one, even if that is empty.
Effective(env) ==
    {c \in env : c.legacy => ~ \E d \in env : d.slug = c.slug /\ ~d.legacy}

\* discoverRelayKeys: a credential without a relay is an error.
Discovers(env, relays) == \A c \in Effective(env) : c.slug \in DOMAIN relays

KeysOf(env, relays) ==
    {c.slug : c \in {c \in Effective(env) : ~c.empty /\ ~relays[c.slug].disabled}}

\* The pool is ordered by the names of the credentials, "mimotap_" first.
Legacy(env, slug) == \E c \in Effective(env) : c.slug = slug /\ c.legacy

\* modelSet is null for a relay without models, which then takes any name.
TakesAny(relay) == relay.models = <<>>
ModelSet(relay) == Models(relay) \cup Canonical(relay)

\* What a request for the name is sent as.
UpstreamName(relay, name) ==
    IF Lower[name] \in Clients(relay) THEN relay.aliases[Lower[name]] ELSE name

Speaks(relay, format) == format \in relay.formats
================================================================================
