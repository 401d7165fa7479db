------------------------------ MODULE MCDecision ------------------------------
(* Decision with a few ways to start the proxy and a few profiles. *)
EXTENDS Decision

Started(transparent, allow, prompt, sync, anomaly) ==
    [transparent |-> transparent, default_allow |-> allow, prompt_on_deny |-> prompt,
     sync_prompt |-> sync, anomaly_block |-> anomaly]

\* Both modes, both kinds of prompt, with the anomaly hook in block mode; what it
\* does not tighten is what a proxy without it does.
WithAnomaly ==
    {Started(TRUE, TRUE, FALSE, TRUE, TRUE), Started(TRUE, TRUE, TRUE, FALSE, TRUE),
     Started(FALSE, TRUE, FALSE, FALSE, TRUE)}

Says(hits) == [full_user |-> FALSE, hits |-> hits]

\* A profile that abstains, one whose deny an exemption lifts, one that allows
\* the request and one that denies it although an exception lifts its keyword.
FewProfiles ==
    {Says({"verb", "exempt"}), Says({"allow_rule"}),
     Says({"keyword", "exception", "cluster", "allow_rule"})}
=============================================================================
