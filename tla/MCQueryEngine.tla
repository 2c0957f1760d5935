--------------------------- MODULE MCQueryEngine ----------------------------
(* Instances of QueryEngine for TLC. *)
EXTENDS QueryEngine

\* One user of tenant t1 in region uk; "x" belongs to another tenant.
MCRequest == [q \in Queries |-> [tenant |-> "t1", region |-> "uk", user |-> "u"]]

\* The second query arrives without a verified user.
MCRequestUnverified ==
    [q \in Queries |-> [tenant |-> "t1", region |-> "uk",
                        user |-> IF q = "q2" THEN "" ELSE "u"]]

MCHome == [c \in Chunks |-> [tenant |-> IF c = "x" THEN "t2" ELSE "t1",
                             region |-> "uk"]]

\* The user may read the other tenant's chunk, so only the boundary stops it.
MCStanding == {<<"u", "x">>}

MCScore == [c \in Chunks |-> IF c = "a" THEN 2 ELSE 1]

AllWired == Dependencies
Enforcing == {[shadow |-> FALSE, wired |-> AllWired]}
Shadow == {[shadow |-> TRUE, wired |-> AllWired]}
Modes == Enforcing \union Shadow
\* Both modes fully wired, and each dependency missing in turn.
Deployments == Modes \union
    {[shadow |-> FALSE, wired |-> AllWired \ {d}] : d \in Dependencies}

LowLimits == [b \in Circuits |-> 1]
MixedLimits == [b \in Circuits |-> IF b = "audit" THEN 2 ELSE 1]
=============================================================================
