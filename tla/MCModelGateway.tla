--------------------------- MODULE MCModelGateway ---------------------------
EXTENDS ModelGateway

File(p, k, h, e, s) ==
    [provider |-> p, key |-> k, https |-> h, embed |-> e, stream |-> s]

(* One file with neither section (examples/model-gateway.toml) and, with    *)
(* every section the provider may have, each provider with each key; the    *)
(* files that only add a refusal to those, an http endpoint and [embed] for *)
(* anthropic, are rejected by the load.                                     *)
MCConfigFiles ==
    {File("ollama", "unnamed", FALSE, embed, embed) : embed \in BOOLEAN} \cup
    {File("ollama", "unset", FALSE, TRUE, TRUE)} \cup
    {File("openai", key, https, TRUE, TRUE) :
        key \in {"unnamed", "unset", "set"}, https \in BOOLEAN} \cup
    {File("anthropic", key, TRUE, embed, TRUE) :
        key \in {"unnamed", "unset", "set"}, embed \in BOOLEAN}
=============================================================================
