------------------------------- MODULE MCAccess -------------------------------
(* An instance of Access for TLC. *)
EXTENDS AccessProperties

CONSTANTS p1, p2, a1, t1, r1

OneAccount == [a \in {a1} |-> "oidc"]
FirstServer == [r \in {r1} |-> p1]

\* The groups decide; or, in the life before or after, another provider does.
TwoConfigs == {[provider |-> "oidc", teams |-> TRUE, listed |-> {}],
               [provider |-> "github", teams |-> FALSE, listed |-> {a1}]}
OneConfig == {[provider |-> "oidc", teams |-> TRUE, listed |-> {}]}

\* Tokens that expire and can be refreshed.
Refreshable == {Answer("young", "good")}
===============================================================================
