----------------------------- MODULE MCIdentity -----------------------------
(* Model-checking instance of Identity. *)
EXTENDS Identity

CONSTANTS alice, bob, post

MCPeople == {alice, bob}
MCMails == {post}
MCSpace == [m \in {post} |-> "jwt:email"]

\* Canonical mode; the raw subject with a demo mode; demo mode only.
MCConfigs ==
    {[verifier |-> TRUE, allowDemo |-> FALSE, canonical |-> TRUE],
     [verifier |-> TRUE, allowDemo |-> TRUE, canonical |-> FALSE],
     [verifier |-> FALSE, allowDemo |-> TRUE, canonical |-> FALSE]}

\* The one address belongs to alice at first.
MCOwner == [m \in {post} |-> alice]

\* An Entra token, and a generic provider with and without email_verified.
MCShapes ==
    {[oid |-> TRUE, sub |-> TRUE, mail |-> FALSE, name |-> TRUE, verified |-> FALSE],
     [oid |-> FALSE, sub |-> FALSE, mail |-> TRUE, name |-> TRUE, verified |-> TRUE],
     [oid |-> FALSE, sub |-> TRUE, mail |-> TRUE, name |-> FALSE, verified |-> FALSE]}
=============================================================================
