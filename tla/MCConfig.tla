-------------------------------- MODULE MCConfig --------------------------------
(* The starter and one provider more; the changes an operator may ask for.        *)
EXTENDS ConfigStore

Offered(d) ==
    {UpsertProvider(d, "p", ms, TRUE, join, key) :
        ms \in {{"m"}, {"m", "x"}}, join \in {{}, {"n"}}, key \in {"set", "keep"}}
    \cup {RemoveProvider(d, p, clear) : p \in Configured(d.relays), clear \in BOOLEAN}
    \cup {SetProviderEnabled(d, p, FALSE) : p \in {q \in Configured(d.relays) : d.relays[q].on}}
    \cup {UpsertLogicalModel(d, "n", {m}) : m \in Known(d.models)}
    \cup {UpsertRealModel(d, m, "alone") : m \in Known(d.models)}
    \cup {RemoveLogicalModel(d, n) : n \in Logicals(d.models)}
    \cup {UpdateEnv(d, {Setting}, Setting \in d.env)}
================================================================================
