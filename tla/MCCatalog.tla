-------------------------------- MODULE MCCatalog --------------------------------
(* Two relays; one after the other is varied, then the policy and the rules.      *)
EXTENDS ModelCatalog, TLC

MCLower == [n \in {"M", "m", "x", "a", "chat"} |-> IF n = "M" THEN "m" ELSE n]
NoAliases == [n \in {} |-> "m"]

Heavy ==
    [disabled |-> FALSE, hosted |-> TRUE, models |-> <<"M">>, declared |-> <<>>,
     aliases |-> NoAliases, formats |-> {"openai", "anthropic"}, weight |-> 2,
     reserve |-> FALSE, managed |-> TRUE]
Reserve ==
    [disabled |-> FALSE, hosted |-> TRUE, models |-> <<"m", "x">>, declared |-> <<>>,
     aliases |-> NoAliases, formats |-> {"openai"}, weight |-> 1,
     reserve |-> TRUE, managed |-> FALSE]

Credential(slug) == [slug |-> slug, legacy |-> FALSE, empty |-> FALSE]
Both == {Credential(1), Credential(2)}

Model(tier) == [capabilities |-> {"tools"}, tier |-> tier, standalone |-> FALSE]
Plainer(tier) == [capabilities |-> {}, tier |-> tier, standalone |-> FALSE]
Route(candidates, capabilities, tier, weak, tasks) ==
    [candidates |-> candidates, capabilities |-> capabilities, tier |-> tier, weak |-> weak, tasks |-> tasks]
Policy(x, capabilities, task) ==
    [real |-> ("m" :> Model("high")) @@ ("x" :> x),
     logical |-> "chat" :> Route({"M"}, capabilities, "", "yes", DOMAIN task),
     tasks |-> task]
NoTask == [t \in {} |-> Heavy]
Task(candidates, weak) == "code" :> Route(candidates, {}, "high", weak, {})

Rule(action, relays, ranges) ==
    [action |-> action, logicals |-> {}, relays |-> relays, days |-> {}, ranges |-> ranges]
Night == {[start |-> 2, end |-> 1]}
Midnight == {[start |-> 1, end |-> NoTime]}
Rules(strict, list) == [enabled |-> TRUE, strict |-> strict, list |-> list]
NoRules == Rules(FALSE, <<>>)

Configuration(one, two, env, policy, rules) ==
    [relays |-> <<one, two>>, env |-> env, policy |-> policy, rules |-> rules]
Usual == Policy(Model("low"), {}, NoTask)
Starter == Configuration(Heavy, Reserve, Both, Usual, NoRules)

Named(relay, models, declared, aliases) ==
    [relay EXCEPT !.models = models, !.declared = declared, !.aliases = aliases]

\* The lists, declared names and aliases of the reserve; credentials; the rest.
Lists == << <<"x">>, <<"m", "x">> >>
Declared == << <<>>, <<"a">> >>
Aliases == <<NoAliases, "a" :> "M", "m" :> "x", ("a" :> "m") @@ ("m" :> "x")>>
Environments ==
    <<{Credential(2)}, {[Credential(1) EXCEPT !.empty = TRUE], Credential(2)}, Both \cup {Credential(3)},
      {Credential(1), [Credential(2) EXCEPT !.legacy = TRUE]}>>
Tiers == <<Model("low"), Plainer("low")>>
Demands == <<{}, {"tools"}>>
TasksOf == <<NoTask, Task({"x"}, Open)>>
RuleLists ==
    <<Rules(FALSE, <<Rule("forbid", {1}, Night), Rule("only", {1}, {})>>),
      Rules(TRUE, <<Rule("only", {2}, Midnight)>>)>>

Light(w) == [Reserve EXCEPT !.reserve = FALSE, !.weight = w]

Nth(s, i) == s[1 + (i % Len(s))]

MCConfigurations ==
    <<Starter, Configuration(Heavy, [Reserve EXCEPT !.disabled = TRUE], Both, Usual, NoRules)>>
    \o [i \in 1 .. 16 |->
          Configuration(Heavy, Named(Reserve, Nth(Lists, i), Nth(Declared, i \div 2), Nth(Aliases, i \div 4)),
                        Both, Usual, NoRules)]
    \o [i \in 1 .. 4 |->
          Configuration(Heavy, Light(2 * i - 1), Nth(Environments, i), Usual, NoRules)]
    \o [i \in 1 .. 8 |->
          Configuration([Heavy EXCEPT !.models = <<"m", "x">>], Reserve, Both,
                        Policy(Nth(Tiers, i), Nth(Demands, i \div 4), Nth(TasksOf, i \div 2)),
                        Nth(RuleLists, 1 + i \div 4))]

MCClocks == [day : {0}, time : {0, 1}]
================================================================================
