-------------------------- MODULE MCGraphConnector --------------------------
(* Model-checking instance of GraphConnector. *)
EXTENDS GraphConnector

MCUpn == [ann |-> "", gus |-> "gus@upn"]
MCOwners == [d1 |-> "g1"]
MCDirectory ==
    [mail    |-> [ann |-> "ann@", gus |-> ""],
     members |-> [g1 |-> {"ann"}, g2 |-> {"g1", "gus"}],
     folder  |-> [f1 |-> "", f2 |-> "f1", d1 |-> "f2"],
     roles   |-> [p \in Items \X Subjects |->
                    IF p \in {<<"f2", "g2">>, <<"d1", "g1">>} THEN "read" ELSE ""]]
=============================================================================
