--------------------------- MODULE GraphConnector ---------------------------
(***************************************************************************)
(* The Microsoft Graph connector (aclsync/msgraph) against a directory and *)
(* a drive that change while it reads them: Snapshot (connector.go,        *)
(* mapping.go over the listings of graph.go), EnumerateDirectory and the   *)
(* catalog it fills (enumerate.go, catalog_postgres.go), and the delta     *)
(* poll with its token (connector.go, delta.go).                           *)
(*                                                                         *)
(* A snapshot is a sequence of requests: users, then the members of each   *)
(* group, then the children of the root and of every folder found, then    *)
(* the permissions of each item found, as often as it was found.  A        *)
(* request that fails for good (after retry) ends it without a result.     *)
(* This is the mode without canonical principals (for those see Identity). *)
(* A listing fits into one page (of 100 or 200); items and groups are      *)
(* neither made nor deleted.                                               *)
(*                                                                         *)
(* The three jobs read the same directory and share nothing else, so one   *)
(* runs at a time.                                                         *)
(***************************************************************************)
EXTENDS Permissions

CONSTANTS
    Users,          \* people in the directory, by object id
    Guests,         \* people outside it that may be members and grantees
    Groups, Folders, Docs,
    Mails,          \* addresses
    Upn,            \* Upn[u]: the userPrincipalName, "" if none
    Owners,         \* Owners[d]: the group that owns d, for the leak report
    Directory,      \* the directory and the drive at first
    MaxChanges      \* bound on their changes

People == Users \union Guests
Subjects == People \union Groups
Items == Folders \union Docs
Roles == {"", "restricted", "read"}

Directories ==
    [mail : [People -> Mails \union {""}], members : [Groups -> SUBSET Subjects],
     folder : [Items -> Folders \union {""}], roles : [Items \X Subjects -> Roles]]

\* Every folder hangs from the root: no folders lie only in each other.
Tree(folder) ==
    \A S \in SUBSET Folders : (\A f \in S : folder[f] \in S) => S = {}

\* An address belongs to one person.
OneOwner(mail) == \A u, v \in People : u # v /\ mail[u] # "" => mail[u] # mail[v]

\* Object ids are unique in a tenant, no address is empty, and a drive is a tree.
ASSUME DirectoryAssumption ==
    /\ Users \intersect Guests = {} /\ People \intersect Groups = {}
    /\ Folders \intersect Docs = {} /\ Subjects \intersect Items = {}
    /\ "" \notin Mails \union Subjects \union Items
    /\ IsFiniteSet(Groups)
    /\ Directory \in Directories /\ OneOwner(Directory.mail) /\ Tree(Directory.folder)
    /\ MaxChanges \in Nat

VARIABLES
    dir,        \* mail, members, folder (of an item, "" the root), roles (on items)
    changed,    \* number of changes to it
    log,        \* how many of them were to drive items
    job,        \* what the connector is doing
    catalog,    \* msgraph.principals (their mail) and msgraph.group_memberships
    token,      \* the saved delta token: a position in the log, 0 for none
    logged      \* the changes that pollDelta has reported

graph == <<dir, changed, log>>
delta == <<token, logged>>
vars == <<graph, job, catalog, delta>>

Idle == [op |-> "idle"]

-----------------------------------------------------------------------------
(* Keys and facts *)

\* mail, else userPrincipalName, else object id.
userKey(mail, upn, id) == IF mail # "" THEN mail ELSE IF upn # "" THEN upn ELSE id

\* The key of a user or member; and that of a grantee outside the directory,
\* whose userPrincipalName the permission does not carry.
memberKey(d, u) == userKey(d.mail[u], Upn[u], u)
guestKey(d, u) == userKey(d.mail[u], "", u)

\* The keys that u may be known by while it has one of these addresses.
KeysOf(u, mails) ==
    {userKey(m, Upn[u], u) : m \in mails} \union
    {userKey(m, "", u) : m \in {n \in mails : u \in Guests}}

grantsRead(role) == role = "read"

\* What the directory d says: who is a member, who may view, which item lies where.
Facts(d) ==
    (UNION {{<<x, "member", g>> : x \in d.members[g]} : g \in Groups}) \union
    {<<p[2], "viewer", p[1]>> : p \in {q \in DOMAIN d.roles : grantsRead(d.roles[q])}} \union
    {<<d.folder[i], "parent", i>> : i \in Items}

\* A job begins; it remembers what held at some time and what held all the time.
Starting(op, pc, todo) ==
    [op |-> op, pc |-> pc, todo |-> todo, rest |-> Groups,
     byID |-> << >>, found |-> {}, listed |-> << >>, upto |-> 0,
     ps |-> [groups |-> << >>, folders |-> << >>, documents |-> << >>],
     ever |-> Facts(dir), always |-> Facts(dir), mails |-> [u \in People |-> {dir.mail[u]}]]

\* The job has lived through the directory d.
Through(d) ==
    IF job = Idle THEN job
    ELSE [job EXCEPT !.ever = @ \union Facts(d),
                     !.always = @ \intersect Facts(d),
                     !.mails = [u \in People |-> @[u] \union {d.mail[u]}]]

\* f with the value v for x.
With(f, x, v) == [y \in DOMAIN f \union {x} |-> IF y = x THEN v ELSE f[y]]

At(op, pc) == job.op = op /\ job.pc = pc

-----------------------------------------------------------------------------
(* The directory and the drive change *)

ChangeTo(d) ==
    /\ d # dir
    /\ changed < MaxChanges
    /\ changed' = changed + 1
    /\ log' = IF d.roles # dir.roles \/ d.folder # dir.folder THEN log + 1 ELSE log
    /\ dir' = d
    /\ job' = Through(d)
    /\ UNCHANGED <<catalog, delta>>

\* An address is given to u, or taken away; an address belongs to one person.
SetMail(u, m) ==
    /\ m = "" \/ \A v \in People \ {u} : dir.mail[v] # m
    /\ ChangeTo([dir EXCEPT !.mail[u] = m])

Join(x, g) == ChangeTo([dir EXCEPT !.members[g] = @ \union {x}])

Leave(x, g) == ChangeTo([dir EXCEPT !.members[g] = @ \ {x}])

SetRole(i, x, role) == ChangeTo([dir EXCEPT !.roles[<<i, x>>] = role])

\* i lies in the folder f, or in a folder of it: f is in every set of folders that
\* has the one i is in and, with a folder, the one that is in.
Inside(i, f) ==
    \A S \in SUBSET Folders :
        (\A h \in {i} \union S : dir.folder[h] \in S \union {""}) => f \in S

\* An item moves to a folder or to the root, a folder never into itself.
Move(i, f) ==
    /\ f # "" => f # i /\ ~Inside(f, i)
    /\ ChangeTo([dir EXCEPT !.folder[i] = f])

-----------------------------------------------------------------------------
(* Snapshot *)

\* ListUsers: byID.
SnapshotUsers ==
    /\ job = Idle
    /\ job' = [Starting("snapshot", "members", Groups) EXCEPT
                    !.byID = [u \in Users |-> memberKey(dir, u)]]
    /\ UNCHANGED <<graph, catalog, delta>>

mapGroup(g) ==
    [users |-> {memberKey(dir, u) : u \in dir.members[g] \intersect People},
     groups |-> dir.members[g] \intersect Groups]

\* ListGroupMembers of a group.
SnapshotMembers(g) ==
    /\ At("snapshot", "members") /\ g \in job.todo
    /\ job' = [job EXCEPT !.todo = @ \ {g}, !.ps.groups = With(@, g, mapGroup(g))]
    /\ UNCHANGED <<graph, catalog, delta>>

Children(c) == {i \in Items : dir.folder[i] = c}

\* Mutant: only the folders of the root are walked.
ListChildrenShallow(c, left) ==
    LET here == {<<i, c>> : i \in Children(c)}
        found == job.found \union here
        todo == left \union {e \in here : c = "" /\ e[1] \in Folders}
    IN  job' = [job EXCEPT !.found = found,
                           !.todo = IF todo # {} THEN todo ELSE found,
                           !.pc = IF todo # {} THEN "drive"
                                  ELSE IF found # {} THEN "permissions" ELSE "done"]

\* A listing of the drive's root or of a folder: its items are found there, and its
\* folders are to be walked, again if they were before.  Then come the permissions.
ListChildren(c, left) ==
    LET here == {<<i, c>> : i \in Children(c)}
        found == job.found \union here
        todo == left \union {e \in here : e[1] \in Folders}
    IN  job' = [job EXCEPT !.found = found,
                           !.todo = IF todo # {} THEN todo ELSE found,
                           !.pc = IF todo # {} THEN "drive"
                                  ELSE IF found # {} THEN "permissions" ELSE "done"]

\* ListDriveItems: walk of the root, then of each folder e[1] found in e[2].  (The
\* code goes depth first, in the order of the listings; here in any order.)
WalkRoot ==
    /\ At("snapshot", "members") /\ job.todo = {}
    /\ ListChildren("", {})
    /\ UNCHANGED <<graph, catalog, delta>>

Walk(e) ==
    /\ At("snapshot", "drive") /\ e \in job.todo
    /\ ListChildren(e[1], job.todo \ {e})
    /\ UNCHANGED <<graph, catalog, delta>>

Readers(i) == {x \in Subjects : grantsRead(dir.roles[<<i, x>>])}

\* The key of a directory user is the one ListUsers gave.
granteesFromPerms(i) ==
    [users |-> {IF u \in Users THEN job.byID[u] ELSE guestKey(dir, u) :
                    u \in Readers(i) \intersect People},
     groups |-> Readers(i) \intersect Groups]

\* ListItemPermissions of an item e[1] found in e[2]; mapFolder, mapDocument.
SnapshotPermissions(e) ==
    /\ At("snapshot", "permissions") /\ e \in job.todo
    /\ job' = [job EXCEPT
            !.todo = @ \ {e},
            !.pc = IF job.todo = {e} THEN "done" ELSE @,
            !.ps.folders = IF e[1] \in Folders THEN With(@, e, granteesFromPerms(e[1])) ELSE @,
            !.ps.documents = IF e[1] \in Docs THEN With(@, e, granteesFromPerms(e[1])) ELSE @]
    /\ UNCHANGED <<graph, catalog, delta>>

\* A request fails for good (retry has given up, or the credentials are
\* refused), or the process dies.
JobFails ==
    /\ job # Idle /\ job.pc # "done"
    /\ job' = Idle
    /\ UNCHANGED <<graph, catalog, delta>>

\* The result is handed on.
Finish ==
    /\ job # Idle /\ job.pc = "done"
    /\ job' = Idle
    /\ UNCHANGED <<graph, catalog, delta>>

-----------------------------------------------------------------------------
(* EnumerateDirectory: upserts only, each its own statement *)

EnumerateUsers ==
    /\ job = Idle
    /\ job' = [Starting("enumerate", "principals", Users) EXCEPT !.listed = dir.mail]
    /\ UNCHANGED <<graph, catalog, delta>>

\* COALESCE(EXCLUDED.email, principals.email)
COALESCE(new, u) ==
    IF new = "" /\ u \in DOMAIN catalog.principals THEN catalog.principals[u] ELSE new

UpsertPrincipal(u) ==
    /\ At("enumerate", "principals") /\ u \in job.todo
    /\ catalog' = [catalog EXCEPT !.principals = With(@, u, COALESCE(job.listed[u], u))]
    /\ job' = [job EXCEPT !.todo = @ \ {u}]
    /\ UNCHANGED <<graph, delta>>

\* Mutant: nested groups are passed over.
EnumerateMembersFlat(g) ==
    /\ At("enumerate", "principals") /\ job.todo = {} /\ g \in job.rest
    /\ job' = [job EXCEPT !.pc = "memberships", !.rest = @ \ {g},
                          !.todo = {<<x, g>> : x \in dir.members[g] \intersect People}]
    /\ UNCHANGED <<graph, catalog, delta>>

\* UpsertGroup and ListGroupMembers of the next group.
EnumerateMembers(g) ==
    /\ At("enumerate", "principals") /\ job.todo = {} /\ g \in job.rest
    /\ job' = [job EXCEPT !.pc = "memberships", !.rest = @ \ {g},
                          !.todo = {<<x, g>> : x \in dir.members[g]}]
    /\ UNCHANGED <<graph, catalog, delta>>

UpsertMembership(m) ==
    /\ At("enumerate", "memberships") /\ m \in job.todo
    /\ catalog' = [catalog EXCEPT !.memberships = @ \union {m}]
    /\ job' = [job EXCEPT !.todo = @ \ {m}]
    /\ UNCHANGED <<graph, delta>>

\* The members of a group, or the users of a directory without groups, are done.
NextGroup ==
    /\ At("enumerate", "memberships") \/ (At("enumerate", "principals") /\ job.rest = {})
    /\ job.todo = {}
    /\ job' = [job EXCEPT !.pc = IF job.rest = {} THEN "done" ELSE "principals"]
    /\ UNCHANGED <<graph, catalog, delta>>

-----------------------------------------------------------------------------
(* pollDelta *)

\* Load (an error counts as no token), DeltaDriveItems to its last page, and
\* the report of what it found.
PollFetch ==
    /\ job = Idle
    /\ \E from \in {0, token} :
        /\ logged' = logged \union (from + 1)..log
        /\ job' = [Starting("poll", "save", {}) EXCEPT !.upto = log]
    /\ UNCHANGED <<graph, catalog, token>>

\* Mutant: the position is taken when it is saved.
PollSaveLatest ==
    /\ At("poll", "save")
    /\ token' = log
    /\ job' = [job EXCEPT !.pc = "done"]
    /\ UNCHANGED <<graph, catalog, logged>>

\* Save of the delta link that came with the last page (JobFails: not saved).
PollSave ==
    /\ At("poll", "save")
    /\ token' = job.upto
    /\ job' = [job EXCEPT !.pc = "done"]
    /\ UNCHANGED <<graph, catalog, logged>>

-----------------------------------------------------------------------------
Init ==
    /\ dir = Directory
    /\ changed = 0 /\ log = 0
    /\ job = Idle
    /\ catalog = [principals |-> << >>, memberships |-> {}]
    /\ token = 0 /\ logged = {}

Next ==
    \/ \E u \in People, m \in Mails \union {""} : SetMail(u, m)
    \/ \E x \in Subjects, g \in Groups : Join(x, g) \/ Leave(x, g)
    \/ \E i \in Items, x \in Subjects, role \in Roles : SetRole(i, x, role)
    \/ \E i \in Items, f \in Folders \union {""} : Move(i, f)
    \/ SnapshotUsers \/ WalkRoot
    \/ \E g \in Groups : SnapshotMembers(g)
    \/ \E e \in Items \X (Folders \union {""}) : Walk(e) \/ SnapshotPermissions(e)
    \/ EnumerateUsers \/ NextGroup
    \/ \E u \in Users : UpsertPrincipal(u)
    \/ \E g \in Groups : EnumerateMembers(g)
    \/ \E m \in Subjects \X Groups : UpsertMembership(m)
    \/ PollFetch \/ PollSave
    \/ JobFails \/ Finish

Spec == Init /\ [][Next]_vars

-----------------------------------------------------------------------------
(* Properties *)

TypeOK ==
    /\ dir \in Directories /\ OneOwner(dir.mail) /\ Tree(dir.folder)
    /\ changed \in 0..MaxChanges /\ log \in 0..changed
    /\ token \in 0..log /\ logged \subseteq 1..log
    /\ DOMAIN catalog.principals \subseteq Users
    /\ catalog.memberships \subseteq Subjects \X Groups
    /\ job = Idle \/ job.op \in {"snapshot", "enumerate", "poll"}

Snapped == At("snapshot", "done")
Result == PermissionSetToTuples(job.ps)

\* The keys that u had while the job ran.
Keys(u) == KeysOf(u, job.mails[u])

\* u was known by the key k and no other, and nobody else was.
Known(u, k) == Keys(u) = {k} /\ \A v \in People \ {u} : k \notin Keys(v)

\* The tuples that say the fact f, a person known by any of its keys.  That an item
\* lies in the root, or a folder anywhere, no tuple says.
Rendered(f) ==
    LET object == IF f[3] \in Groups THEN groupRef(f[3])
                  ELSE IF f[3] \in Folders THEN folderRef(f[3]) ELSE documentRef(f[3])
        subjects == IF f[1] \in People THEN {userRef(k) : k \in Keys(f[1])}
                    ELSE IF f[1] \in Groups THEN {groupMembersRef(f[1])}
                    ELSE IF f[1] \in Folders /\ f[3] \in Docs THEN {folderRef(f[1])} ELSE {}
    IN  {<<s, f[2], object>> : s \in subjects}

\* The walk found i nowhere.
Missed(i) == \A e \in job.found : e[1] # i

\* A snapshot lies between what was there all the time and what was there at some
\* time while it was taken, whatever changed and failed meanwhile.  It invents
\* nothing: every tuple is a grant of the second kind, of a person under a key that
\* person had meanwhile (the two need not be of the same moment: a key may be out of
\* date when it is used).  And it forgets, so that the sync deletes a tuple that is
\* still due, only grants on items the walk missed; these have moved meanwhile, or
\* lie in a folder that it missed.  The state is well typed throughout.
SnapshotBracketed ==
    /\ TypeOK
    /\ Snapped =>
        /\ Result \subseteq UNION {Rendered(f) : f \in job.ever}
        /\ \A f \in job.always :
              \/ Rendered(f) = {}
              \/ Rendered(f) \intersect Result # {}
              \/ f[3] \in Items /\ Missed(f[3])
        /\ \A i \in Items, c \in Folders \union {""} :
              Missed(i) /\ <<c, "parent", i>> \in job.always => c # "" /\ Missed(c)

\* u is a member of g, directly or through nested groups: g is in every set of
\* groups that has those u is in and, with a group, those it is nested in.
MemberIn(u, g) ==
    \A S \in SUBSET Groups :
        (\A h \in Groups : dir.members[h] \intersect ({u} \union S) # {} => h \in S) => g \in S

MayRead(u, i) == \E x \in Readers(i) : x = u \/ (x \in Groups /\ MemberIn(u, x))

\* Access is decided as the source has it: after a snapshot of a directory that
\* did not change, Check grants a person with one key, which nobody else had,
\* exactly the documents that it may read itself or in their folder, through any
\* nesting of groups, cycles too.
CheckDecides ==
    Snapped /\ job.ever = job.always =>
        \A u \in People, d \in Docs :
            Known(u, memberKey(dir, u)) =>
                (Check(Result, userRef(memberKey(dir, u)), documentRef(d))
                 <=> MayRead(u, d) \/ (dir.folder[d] # "" /\ MayRead(u, dir.folder[d])))

\* What a report says and does not say: if Analyze finds no access across
\* departments to a document, all who view it by a group grant of its own are members
\* of the group that owns it; and a document found in one place that it calls an
\* orphan is seen by exactly the viewers of the folder it lies in, not by nobody.
ReportIsTight ==
    Snapped =>
        LET report == Analyze(job.ps, Owners)
            places(d) == {e \in DOMAIN job.ps.documents : e[1] = d}
        IN  \A d \in Docs, k \in UNION {Keys(u) : u \in People} :
                /\ (/\ Owners[d] # ""
                    /\ \A g \in Groups : Finding("cross_department_access", d, g) \notin report
                    /\ viewerOf(Result, userRef(k), documentRef(d)))
                   => (\/ \E e \in places(d) : k \in job.ps.documents[e].users
                       \/ memberOf(Result, userRef(k), Owners[d], {}))
                /\ \A c \in Folders \union {""} :
                      Finding("orphaned_document", d, "") \in report /\ places(d) = {<<d, c>>} =>
                          (Check(Result, userRef(k), documentRef(d))
                           <=> c # "" /\ Check(Result, userRef(k), folderRef(c)))

\* An enumeration that ends has caught up, however often earlier ones were cut
\* short: everybody in the directory, with the address it had all the time, and
\* every membership that lasted is in the catalog.
CatalogCatchesUp ==
    At("enumerate", "done") =>
        /\ DOMAIN catalog.principals = Users
        /\ \A f \in job.always : f[2] = "member" => <<f[1], f[3]>> \in catalog.memberships
        /\ \A u \in Users, m \in Mails : job.mails[u] = {m} => catalog.principals[u] = m

\* The delta token never runs ahead of the report: every change it skips has been
\* reported, though changes go on between the fetch and the save and a save may fail.
NoChangeSkipped == 1..token \subseteq logged

-----------------------------------------------------------------------------
(* The inductive invariant behind the five properties *)

\* A job has its fields, and the types hold.
Shape ==
    /\ TypeOK
    /\ DOMAIN catalog = {"principals", "memberships"}
    /\ job = Idle \/ /\ DOMAIN job = {"op", "pc", "todo", "rest", "byID", "found", "listed",
                                      "upto", "ps", "ever", "always", "mails"}
                     /\ DOMAIN job.ps = {"groups", "folders", "documents"}

\* The job j remembers at least the directory d; what stayed in its place lay nowhere else.
Lived(j, d) ==
    /\ j.always \subseteq Facts(d) /\ Facts(d) \subseteq j.ever
    /\ DOMAIN j.mails = People
    /\ \A u \in People : d.mail[u] \in j.mails[u]
    /\ \A i \in Items, b, c \in Folders \union {""} :
          <<b, "parent", i>> \in j.always /\ <<c, "parent", i>> \in j.ever => b = c

\* The users and groups of x lie between those that had the relation to the object
\* all the time and those that had it at some time.
Reads(j, x, relation, object) ==
    /\ \A k \in x.users : \E u \in People :
          k \in KeysOf(u, j.mails[u]) /\ <<u, relation, object>> \in j.ever
    /\ \A g \in x.groups : g \in Groups /\ <<g, relation, object>> \in j.ever
    /\ \A u \in People : <<u, relation, object>> \in j.always =>
          \E k \in x.users : k \in KeysOf(u, j.mails[u])
    /\ \A g \in Groups : <<g, relation, object>> \in j.always => g \in x.groups

\* The walk so far: what was found lay there at some time, and what lay all the time
\* in a place that was listed has been found.
Walks(j) ==
    /\ \A e \in j.found : e \in Items \X (Folders \union {""}) /\ <<e[2], "parent", e[1]>> \in j.ever
    /\ j.pc = "drive" => \A e \in j.todo : e \in j.found /\ e[1] \in Folders
    /\ j.pc = "permissions" => j.todo \subseteq j.found
    /\ j.pc # "members" =>
        \A i \in Items, c \in Folders \union {""} : <<c, "parent", i>> \in j.always =>
            \/ <<i, c>> \in j.found
            \/ c # "" /\ j.pc = "drive" /\ \E e \in j.todo : e[1] = c
            \/ c # "" /\ \A e \in j.found : e[1] # c

\* The entries whose permissions have been read.
Seen(j) ==
    IF j.pc = "done" THEN j.found ELSE IF j.pc = "permissions" THEN j.found \ j.todo ELSE {}

\* What a snapshot has read so far is complete but for todo, and sound.
Snapshots(j) ==
    /\ j.pc \in {"members", "drive", "permissions", "done"}
    /\ \A u \in Users : j.byID[u] \in KeysOf(u, j.mails[u])
    /\ Walks(j)
    /\ j.pc = "members" => j.todo \subseteq Groups /\ j.found = {}
    /\ DOMAIN j.ps.groups = IF j.pc = "members" THEN Groups \ j.todo ELSE Groups
    /\ DOMAIN j.ps.folders = {e \in Seen(j) : e[1] \in Folders}
    /\ DOMAIN j.ps.documents = {e \in Seen(j) : e[1] \in Docs}
    /\ \A g \in DOMAIN j.ps.groups : Reads(j, j.ps.groups[g], "member", g)
    /\ \A e \in DOMAIN j.ps.folders : Reads(j, j.ps.folders[e], "viewer", e[1])
    /\ \A e \in DOMAIN j.ps.documents : Reads(j, j.ps.documents[e], "viewer", e[1])

\* The catalog has caught up with the listing but for todo and rest.
Enumerates(j, principals, memberships) ==
    /\ j.pc \in {"principals", "memberships", "done"}
    /\ \A u \in Users : j.listed[u] \in j.mails[u]
    /\ j.pc = "principals" => j.todo \subseteq Users
    /\ j.pc = "memberships" => j.todo \subseteq Subjects \X Groups
    /\ j.pc = "done" => j.rest = {}
    /\ \A u \in Users : (j.pc = "principals" /\ u \in j.todo)
          \/ (u \in DOMAIN principals /\ (j.listed[u] # "" => principals[u] = j.listed[u]))
    /\ \A x \in Subjects, g \in Groups : <<x, "member", g>> \in j.always =>
          g \in j.rest \/ <<x, g>> \in memberships \/ (j.pc = "memberships" /\ <<x, g>> \in j.todo)

\* What a poll is about to save has been reported.
Polls(j, position, reported) ==
    /\ j.pc \in {"save", "done"}
    /\ j.upto \in 0..position /\ 1..j.upto \subseteq reported

GraphInv ==
    /\ Shape
    /\ NoChangeSkipped
    /\ job # Idle =>
        /\ Lived(job, dir)
        /\ job.op = "snapshot" => Snapshots(job)
        /\ job.op = "enumerate" => Enumerates(job, catalog.principals, catalog.memberships)
        /\ job.op = "poll" => Polls(job, log, logged)

=============================================================================
