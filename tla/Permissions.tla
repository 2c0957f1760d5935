---------------------------- MODULE Permissions -----------------------------
(***************************************************************************)
(* Permission sets, their tuples and what these grant: the pure functions  *)
(* of aclsync/tuples.go, aclsync/fga.go (MemoryFGA.Check, which mirrors    *)
(* the OpenFGA model) and leakreport/leakreport.go.                        *)
(*                                                                         *)
(* A permission set is a record of three functions: groups gives their     *)
(* members, folders and documents their viewers.  A listing may hold a     *)
(* document or a folder more than once: an entry is a pair of its id and   *)
(* the folder it was found in, "" for none, as in the code.                *)
(***************************************************************************)
EXTENDS Integers, FiniteSets

userRef(u) == <<"user", u>>
groupRef(g) == <<"group", g>>
groupMembersRef(g) == <<"members", g>>
folderRef(f) == <<"folder", f>>
documentRef(d) == <<"document", d>>

\* The tuples that grant `relation` on `object` to the users and groups of x.
Granting(x, relation, object) ==
    {<<userRef(u), relation, object>> : u \in x.users} \union
    {<<groupMembersRef(g), relation, object>> : g \in x.groups}

PermissionSetToTuples(ps) ==
    (UNION {Granting(ps.groups[g], "member", groupRef(g)) : g \in DOMAIN ps.groups}) \union
    (UNION {Granting(ps.folders[e], "viewer", folderRef(e[1])) : e \in DOMAIN ps.folders}) \union
    (UNION {Granting(ps.documents[e], "viewer", documentRef(e[1])) : e \in DOMAIN ps.documents}) \union
    {<<folderRef(e[2]), "parent", documentRef(e[1])>> :
        e \in {d \in DOMAIN ps.documents : d[2] # ""}}

-----------------------------------------------------------------------------
(* MemoryFGA.Check *)

\* Mutant: membership is not followed into nested groups.
memberOfDirect(set, user, g, seen) == <<user, "member", groupRef(g)>> \in set

\* Direct member of g, or a member of a group nested in it; `seen` cuts cycles.
\* found[s] are the groups the recursion finds the user in when it has been
\* through those of s.  (The code keeps one map for all branches; a group that
\* led nowhere on one branch leads nowhere on another, so the answer is the same.)
memberOf(set, user, g, seen) ==
    LET named == {t[3][2] : t \in {s \in set : s[2] = "member"}}
        found[s \in SUBSET (named \union seen)] ==
            {h \in named \ s :
                \/ <<user, "member", groupRef(h)>> \in set
                \/ \E t \in set :
                     /\ t[1][1] = "members" /\ t[2] = "member" /\ t[3] = groupRef(h)
                     /\ t[1][2] \in found[s \union {h}]}
    IN  g \in found[seen]

\* viewerFolder, and the first half of viewerDocument: a direct or group viewer.
viewerOf(set, user, object) ==
    \/ <<user, "viewer", object>> \in set
    \/ \E t \in set : /\ t[1][1] = "members" /\ t[2] = "viewer" /\ t[3] = object
                      /\ memberOf(set, user, t[1][2], {})

\* ... or a viewer of a parent folder.
viewerDocument(set, user, object) ==
    \/ viewerOf(set, user, object)
    \/ \E t \in set : /\ t[1][1] = "folder" /\ t[2] = "parent" /\ t[3] = object
                      /\ viewerOf(set, user, t[1])

Check(set, user, object) ==
    IF object[1] = "document" THEN viewerDocument(set, user, object)
    ELSE viewerOf(set, user, object)

-----------------------------------------------------------------------------
(* leakreport.Analyze: the findings of a report; owners[d] is "" if unknown *)

Finding(kind, d, g) == [kind |-> kind, document |-> d, group |-> g]

hasPublic(ids) == ids \intersect {"*", "user:*", "public"} # {}

\* The owners, other than g, of documents that g may view.
ForeignOwners(ps, owners, g) ==
    {owners[e[1]] : e \in {d \in DOMAIN ps.documents :
                              /\ owners[d[1]] \notin {"", g}
                              /\ g \in ps.documents[d].groups}}

\* Mutant: a single foreign group is not worth a finding.
CrossDepartmentMany(ps, owners) ==
    UNION {{Finding("cross_department_access", e[1], g) :
                g \in ps.documents[e].groups \ {owners[e[1]]}} :
            e \in {d \in DOMAIN ps.documents :
                      owners[d[1]] # "" /\ Cardinality(ps.documents[d].groups) > 1}}

\* A group that is not the owner may view the document.
CrossDepartment(ps, owners) ==
    UNION {{Finding("cross_department_access", e[1], g) :
                g \in ps.documents[e].groups \ {owners[e[1]]}} :
            e \in {d \in DOMAIN ps.documents : owners[d[1]] # ""}}

Analyze(ps, owners) ==
    LET docs == DOMAIN ps.documents
        users(e) == ps.documents[e].users
        groups(e) == ps.documents[e].groups
        orphans == {e \in docs : users(e) = {} /\ groups(e) = {}}
        viewing == UNION {groups(e) : e \in docs}
    IN  {Finding("world_readable", e[1], "") :
            e \in {d \in docs : hasPublic(users(d)) \/ hasPublic(groups(d))}} \union
        {Finding("orphaned_document", e[1], "") : e \in orphans} \union
        CrossDepartment(ps, owners) \union
        {Finding("overexposed_document", e[1], "") :
            e \in {d \in docs : Cardinality(groups(d)) > 1}} \union
        {Finding("excessive_group_access", "", g) :
            g \in {h \in viewing : Cardinality(ForeignOwners(ps, owners, h)) > 1}}
=============================================================================
