------------------------ MODULE GraphConnectorProofs ------------------------
(***************************************************************************)
(* Proofs about GraphConnector: its inductive invariant GraphInv, and with *)
(* it that a snapshot, an enumeration and a poll are right about a         *)
(* directory that changes under them; and about Permissions, that Check    *)
(* follows nested groups to their least fixed point, for every directory,  *)
(* every nesting of groups and every number of changes.                    *)
(***************************************************************************)
EXTENDS GraphConnector, FiniteSetTheorems, TLAPS

-----------------------------------------------------------------------------
(* The directory changes *)

\* The five changes yield directories in which an address has one owner.
LEMMA MailTyping ==
    ASSUME dir \in Directories, OneOwner(dir.mail), NEW u \in People,
           NEW m \in Mails \union {""},
           m = "" \/ \A v \in People \ {u} : dir.mail[v] # m
    PROVE  [dir EXCEPT !.mail[u] = m] \in Directories
           /\ OneOwner([dir EXCEPT !.mail[u] = m].mail)
           /\ [dir EXCEPT !.mail[u] = m].folder = dir.folder
<1> DEFINE d == [dir EXCEPT !.mail[u] = m]
<1>1. dir.mail \in [People -> Mails \union {""}]
  BY DEF Directories
<1>2. d.mail = [dir.mail EXCEPT ![u] = m] /\ d.members = dir.members /\ d.folder = dir.folder
      /\ d.roles = dir.roles
  BY DEF Directories
<1>3. d \in Directories
  BY <1>1 DEF Directories
<1>4. d.mail[u] = m /\ \A v \in People \ {u} : d.mail[v] = dir.mail[v]
  BY <1>1, <1>2
<1>5. OneOwner(d.mail)
  BY <1>4 DEF OneOwner
<1> QED
  BY <1>2, <1>3, <1>5

\* A group's members change.
LEMMA MembersTyping ==
    ASSUME dir \in Directories, NEW g \in Groups, NEW S \in SUBSET Subjects
    PROVE  [dir EXCEPT !.members[g] = S] \in Directories
           /\ [dir EXCEPT !.members[g] = S].mail = dir.mail
           /\ [dir EXCEPT !.members[g] = S].folder = dir.folder
BY DEF Directories

\* A role changes.
LEMMA RolesTyping ==
    ASSUME dir \in Directories, NEW i \in Items, NEW x \in Subjects, NEW role \in Roles
    PROVE  [dir EXCEPT !.roles[<<i, x>>] = role] \in Directories
           /\ [dir EXCEPT !.roles[<<i, x>>] = role].mail = dir.mail
           /\ [dir EXCEPT !.roles[<<i, x>>] = role].folder = dir.folder
<1>1. dir.roles \in [Items \X Subjects -> Roles] /\ <<i, x>> \in Items \X Subjects
  BY DEF Directories
<1>2. [dir.roles EXCEPT ![<<i, x>>] = role] \in [Items \X Subjects -> Roles]
  BY <1>1
<1> QED
  BY <1>2 DEF Directories

\* An item moves.
LEMMA FolderTyping ==
    ASSUME dir \in Directories, NEW i \in Items, NEW f \in Folders \union {""}
    PROVE  [dir EXCEPT !.folder[i] = f] \in Directories
           /\ [dir EXCEPT !.folder[i] = f].mail = dir.mail
           /\ [dir EXCEPT !.folder[i] = f].folder = [dir.folder EXCEPT ![i] = f]
BY DEF Directories

\* The drive stays a tree: had the folders of S come to lie only in each other, some
\* of them did before.
LEMMA MoveTree ==
    ASSUME dir \in Directories, Tree(dir.folder), NEW i \in Items, NEW f \in Folders \union {""},
           f # "" => f # i /\ ~Inside(f, i)
    PROVE  Tree([dir.folder EXCEPT ![i] = f])
<1> DEFINE old == dir.folder
           new == [dir.folder EXCEPT ![i] = f]
<1>1. new[i] = f /\ \A h \in Folders : h # i => new[h] = old[h]
  BY DEF Directories, Items
<1>2. "" \notin Folders
  BY DirectoryAssumption DEF Items
<1> HIDE DEF new
<1>3. ASSUME NEW S \in SUBSET Folders, \A h \in S : new[h] \in S
      PROVE  S = {}
  <2>1. CASE i \notin S
    <3>1. \A h \in S : old[h] \in S
      BY <1>1, <1>3, <2>1
    <3> QED
      BY <3>1 DEF Tree
  <2>2. CASE i \in S
    <3>1. f \in S /\ f # i
      BY <1>1, <1>2, <1>3, <2>2
    <3>2. PICK T \in SUBSET Folders :
              i \notin T /\ \A h \in {f} \union T : old[h] \in T \union {""}
      BY <1>2, <3>1 DEF Inside
    <3> DEFINE U == S \intersect ({f} \union T)
    <3>3. \A h \in U : old[h] \in U
      <4> SUFFICES ASSUME NEW h \in U PROVE old[h] \in U
        OBVIOUS
      <4>1. h \in Folders /\ h \in S /\ h # i /\ h \in {f} \union T
        BY <3>1, <3>2
      <4>2. old[h] \in S
        BY <1>1, <1>3, <4>1
      <4>3. old[h] \in T \union {""} /\ old[h] # ""
        BY <1>2, <3>2, <4>1, <4>2
      <4> QED
        BY <4>2, <4>3
    <3>4. U = {}
      BY <3>3 DEF Tree
    <3> QED
      BY <3>1, <3>4
  <2> QED
    BY <2>1, <2>2
<1> QED
  BY <1>3 DEF Tree, new

-----------------------------------------------------------------------------
(* A job that has lived on *)

\* The history of k goes on from that of j.
Later(j, k) ==
    /\ j.ever \subseteq k.ever /\ k.always \subseteq j.always
    /\ \A u \in People : j.mails[u] \subseteq k.mails[u]

\* k is where j was.
SamePlace(j, k) ==
    /\ k.op = j.op /\ k.pc = j.pc /\ k.todo = j.todo /\ k.rest = j.rest
    /\ k.byID = j.byID /\ k.found = j.found /\ k.listed = j.listed /\ k.upto = j.upto
    /\ k.ps = j.ps

\* With more addresses there are more keys.
LEMMA KeysGrow ==
    ASSUME NEW u, NEW S, NEW T, S \subseteq T
    PROVE  KeysOf(u, S) \subseteq KeysOf(u, T)
BY DEF KeysOf

\* What was read stays bracketed.
LEMMA ReadsLater ==
    ASSUME NEW j, NEW k, NEW x, NEW relation, NEW object, Later(j, k),
           Reads(j, x, relation, object)
    PROVE  Reads(k, x, relation, object)
<1>1. \A u \in People : KeysOf(u, j.mails[u]) \subseteq KeysOf(u, k.mails[u])
  BY KeysGrow DEF Later
<1> HIDE DEF KeysOf
<1> QED
  BY <1>1 DEF Reads, Later

\* So does what the walk has found.
LEMMA WalksLater ==
    ASSUME NEW j, NEW k, Later(j, k), SamePlace(j, k), Walks(j)
    PROVE  Walks(k)
BY DEF Walks, Later, SamePlace

\* A snapshot goes on while the directory changes.
LEMMA SnapshotsLater ==
    ASSUME NEW j, NEW k, Later(j, k), SamePlace(j, k), Snapshots(j)
    PROVE  Snapshots(k)
<1>1. \A u \in Users : k.byID[u] \in KeysOf(u, k.mails[u])
  BY KeysGrow DEF Later, SamePlace, Snapshots, People
<1>2. Walks(k)
  BY WalksLater DEF Snapshots
<1>3. \A g \in DOMAIN k.ps.groups : Reads(k, k.ps.groups[g], "member", g)
  BY ReadsLater DEF SamePlace, Snapshots
<1>4. \A e \in DOMAIN k.ps.folders : Reads(k, k.ps.folders[e], "viewer", e[1])
  BY ReadsLater DEF SamePlace, Snapshots
<1>5. \A e \in DOMAIN k.ps.documents : Reads(k, k.ps.documents[e], "viewer", e[1])
  BY ReadsLater DEF SamePlace, Snapshots
<1>6. /\ k.pc \in {"members", "drive", "permissions", "done"}
      /\ k.pc = "members" => k.todo \subseteq Groups /\ k.found = {}
      /\ DOMAIN k.ps.groups = IF k.pc = "members" THEN Groups \ k.todo ELSE Groups
      /\ DOMAIN k.ps.folders = {e \in Seen(k) : e[1] \in Folders}
      /\ DOMAIN k.ps.documents = {e \in Seen(k) : e[1] \in Docs}
  BY DEF SamePlace, Snapshots, Seen
<1> QED
  BY <1>1, <1>2, <1>3, <1>4, <1>5, <1>6 DEF Snapshots

\* So does an enumeration.
LEMMA EnumeratesLater ==
    ASSUME NEW j, NEW k, NEW P, NEW M, Later(j, k), SamePlace(j, k), Enumerates(j, P, M)
    PROVE  Enumerates(k, P, M)
<1>1. \A u \in Users : k.listed[u] \in k.mails[u]
  BY DEF Later, SamePlace, Enumerates, People
<1> QED
  BY <1>1 DEF Later, SamePlace, Enumerates

\* And a poll.
LEMMA PollsLater ==
    ASSUME NEW j, NEW k, NEW n \in Nat, NEW m \in Nat, n <= m, NEW S, NEW T, S \subseteq T,
           SamePlace(j, k), Polls(j, n, S)
    PROVE  Polls(k, m, T)
BY DEF SamePlace, Polls

\* What has become of the job when the directory becomes d.
LEMMA ThroughEffect ==
    ASSUME Shape, NEW d
    PROVE  /\ job = Idle => Through(d) = Idle
           /\ job # Idle =>
                /\ DOMAIN Through(d) = DOMAIN job
                /\ SamePlace(job, Through(d))
                /\ Through(d).ever = job.ever \union Facts(d)
                /\ Through(d).always = job.always \intersect Facts(d)
                /\ Through(d).mails = [u \in People |-> job.mails[u] \union {d.mail[u]}]
BY DEF Shape, Through, SamePlace

-----------------------------------------------------------------------------
(* What the directory says *)

\* The facts of the three kinds.
LEMMA FactMember ==
    ASSUME NEW d \in Directories, NEW x, NEW g \in Groups
    PROVE  <<x, "member", g>> \in Facts(d) <=> x \in d.members[g]
BY DEF Facts

\* Who may view an item.
LEMMA FactViewer ==
    ASSUME NEW d \in Directories, NEW x \in Subjects, NEW i \in Items
    PROVE  <<x, "viewer", i>> \in Facts(d) <=> grantsRead(d.roles[<<i, x>>])
<1>1. DOMAIN d.roles = Items \X Subjects
  BY DEF Directories
<1>2. <<i, x>> \in DOMAIN d.roles
  BY <1>1
<1>3. ASSUME grantsRead(d.roles[<<i, x>>])
      PROVE  <<x, "viewer", i>> \in Facts(d)
  <2> DEFINE p == <<i, x>>
  <2>1. p \in {q \in DOMAIN d.roles : grantsRead(d.roles[q])}
    BY <1>2, <1>3
  <2>2. <<p[2], "viewer", p[1]>> \in Facts(d)
    BY <2>1 DEF Facts
  <2> QED
    BY <2>2
<1>4. ASSUME <<x, "viewer", i>> \in Facts(d)
      PROVE  grantsRead(d.roles[<<i, x>>])
  <2>1. PICK q \in DOMAIN d.roles : grantsRead(d.roles[q]) /\ <<x, "viewer", i>> = <<q[2], "viewer", q[1]>>
    BY <1>4 DEF Facts
  <2>2. q = <<i, x>>
    BY <1>1, <2>1
  <2> QED
    BY <2>1, <2>2
<1> QED
  BY <1>3, <1>4

\* Where an item lies.
LEMMA FactParent ==
    ASSUME NEW d \in Directories, NEW c, NEW i \in Items
    PROVE  <<c, "parent", i>> \in Facts(d) <=> d.folder[i] = c
<1>1. <<c, "parent", i>> \in Facts(d) <=> \E h \in Items : <<c, "parent", i>> = <<d.folder[h], "parent", h>>
  BY DEF Facts
<1>2. (\E h \in Items : <<c, "parent", i>> = <<d.folder[h], "parent", h>>) <=> d.folder[i] = c
  OBVIOUS
<1> QED
  BY <1>1, <1>2

\* Every fact is of one of the three kinds.
LEMMA FactKinds ==
    ASSUME NEW d \in Directories, NEW f \in Facts(d)
    PROVE  \/ \E g \in Groups : \E x \in d.members[g] : f = <<x, "member", g>>
           \/ /\ f[2] = "viewer"
              /\ \E i \in Items, x \in Subjects : f = <<x, "viewer", i>>
           \/ /\ f[2] = "parent"
              /\ \E i \in Items : f = <<d.folder[i], "parent", i>>
<1>1. CASE f \in UNION {{<<x, "member", g>> : x \in d.members[g]} : g \in Groups}
  <2>1. PICK S \in {{<<x, "member", g>> : x \in d.members[g]} : g \in Groups} : f \in S
    BY <1>1
  <2>2. PICK g \in Groups : S = {<<x, "member", g>> : x \in d.members[g]}
    BY <2>1
  <2> QED
    BY <2>1, <2>2
<1>2. CASE f \in {<<p[2], "viewer", p[1]>> : p \in {q \in DOMAIN d.roles : grantsRead(d.roles[q])}}
  <2>1. PICK p \in DOMAIN d.roles : f = <<p[2], "viewer", p[1]>>
    BY <1>2
  <2>2. p \in Items \X Subjects
    BY <2>1 DEF Directories
  <2>3. p[1] \in Items /\ p[2] \in Subjects
    BY <2>2
  <2> QED
    BY <2>1, <2>3
<1>3. CASE f \in {<<d.folder[i], "parent", i>> : i \in Items}
  <2>1. PICK i \in Items : f = <<d.folder[i], "parent", i>>
    BY <1>3
  <2> QED
    BY <2>1
<1> QED
  BY <1>1, <1>2, <1>3 DEF Facts

\* A step of the directory keeps the invariant.
LEMMA ChangeKeeps ==
    ASSUME GraphInv, NEW d \in Directories, OneOwner(d.mail), Tree(d.folder), ChangeTo(d)
    PROVE  GraphInv'
<1>1. /\ Shape /\ NoChangeSkipped
      /\ changed \in 0..MaxChanges /\ log \in 0..changed /\ MaxChanges \in Nat
  BY DirectoryAssumption DEF GraphInv, Shape, TypeOK
<1>2. /\ changed' = changed + 1 /\ changed < MaxChanges /\ dir' = d /\ job' = Through(d)
      /\ log' \in {log, log + 1}
      /\ catalog' = catalog /\ token' = token /\ logged' = logged
  BY DEF ChangeTo, delta
<1>3. changed' \in 0..MaxChanges /\ log' \in 0..changed' /\ log <= log' /\ log \in Nat
      /\ log' \in Nat
  BY <1>1, <1>2
<1>4. token' \in 0..log' /\ logged' \subseteq 1..log'
  <2>1. token \in 0..log /\ logged \subseteq 1..log
    BY <1>1 DEF Shape, TypeOK
  <2> QED
    BY <2>1, <1>2, <1>3
<1>5. DOMAIN catalog'.principals \subseteq Users /\ catalog'.memberships \subseteq Subjects \X Groups
      /\ DOMAIN catalog' = {"principals", "memberships"}
  BY <1>1, <1>2 DEF Shape, TypeOK
<1>6. NoChangeSkipped'
  BY <1>1, <1>2 DEF NoChangeSkipped
<1>7. CASE job = Idle
  <2>1. job' = Idle
    BY <1>1, <1>2, <1>7, ThroughEffect
  <2> QED
    BY <1>2, <1>3, <1>4, <1>5, <1>6, <2>1 DEF GraphInv, Shape, TypeOK
<1>8. CASE job # Idle
  <2>1. /\ DOMAIN job' = DOMAIN job /\ SamePlace(job, job')
        /\ job'.ever = job.ever \union Facts(d) /\ job'.always = job.always \intersect Facts(d)
        /\ job'.mails = [u \in People |-> job.mails[u] \union {d.mail[u]}]
    BY <1>1, <1>2, <1>8, ThroughEffect
  <2>l. Lived(job, dir)
    BY <1>8 DEF GraphInv
  <2>s. ASSUME NEW i \in Items, NEW b \in Folders \union {""}, NEW c \in Folders \union {""},
               <<b, "parent", i>> \in job'.always, <<c, "parent", i>> \in job'.ever
        PROVE  b = c
    <3>0. \A h : <<h, "parent", i>> \in Facts(d) <=> d.folder[i] = h
      BY FactParent
    <3>1. d.folder[i] = b /\ <<b, "parent", i>> \in job.always
      BY <2>1, <2>s, <3>0
    <3>2. CASE <<c, "parent", i>> \in job.ever
      BY <2>l, <3>1, <3>2 DEF Lived
    <3>3. CASE <<c, "parent", i>> \in Facts(d)
      <4>1. d.folder[i] = c
        BY <3>0, <3>3, Zenon
      <4> QED
        BY <3>1, <4>1
    <3> QED
      BY <2>1, <2>s, <3>2, <3>3
  <2>2. Later(job, job') /\ Lived(job', dir')
    BY <2>1, <2>l, <2>s, <1>2 DEF Later, Lived
  <2>3. Shape'
    BY <1>1, <1>2, <1>3, <1>4, <1>5, <1>8, <2>1 DEF Shape, TypeOK, SamePlace, Idle
  <2>4. job'.op = "snapshot" => Snapshots(job')
    BY <1>8, <2>1, <2>2, SnapshotsLater DEF GraphInv, SamePlace
  <2>5. job'.op = "enumerate" => Enumerates(job', catalog'.principals, catalog'.memberships)
    BY <1>2, <1>8, <2>1, <2>2, EnumeratesLater DEF GraphInv, SamePlace
  <2>6. job'.op = "poll" => Polls(job', log', logged')
    BY <1>2, <1>3, <1>8, <2>1, <2>2, PollsLater DEF GraphInv, SamePlace
  <2> QED
    BY <2>2, <2>3, <2>4, <2>5, <2>6, <1>6 DEF GraphInv
<1> QED
  BY <1>7, <1>8

\* The current keys of a person are among those of the job.
LEMMA CurrentKeys ==
    ASSUME NEW d, NEW u, NEW S, d.mail[u] \in S
    PROVE  /\ memberKey(d, u) \in KeysOf(u, S)
           /\ u \in Guests => guestKey(d, u) \in KeysOf(u, S)
BY DEF memberKey, guestKey, KeysOf

\* Reading what the directory says now.
LEMMA ReadsNow ==
    ASSUME NEW j, NEW d \in Directories, Lived(j, d), NEW relation, NEW object, NEW x,
           NEW now \in SUBSET Subjects, NEW key,
           \A s \in Subjects : <<s, relation, object>> \in Facts(d) <=> s \in now,
           x.users = {key[u] : u \in now \intersect People},
           x.groups = now \intersect Groups,
           \A u \in People : key[u] \in KeysOf(u, j.mails[u])
    PROVE  Reads(j, x, relation, object)
<1>1. People \subseteq Subjects /\ Groups \subseteq Subjects
  BY DEF Subjects
<1>2. \A k \in x.users : \E u \in People :
          k \in KeysOf(u, j.mails[u]) /\ <<u, relation, object>> \in j.ever
  BY <1>1 DEF Lived
<1>3. \A g \in x.groups : g \in Groups /\ <<g, relation, object>> \in j.ever
  BY <1>1 DEF Lived
<1>4. \A u \in People : <<u, relation, object>> \in j.always =>
          \E k \in x.users : k \in KeysOf(u, j.mails[u])
  BY <1>1 DEF Lived
<1>5. \A g \in Groups : <<g, relation, object>> \in j.always => g \in x.groups
  BY <1>1 DEF Lived
<1> QED
  BY <1>2, <1>3, <1>4, <1>5 DEF Reads

-----------------------------------------------------------------------------
(* The steps of a snapshot *)

\* A new job has lived through the present.
LEMMA StartingLives ==
    ASSUME dir \in Directories, NEW j, j.ever = Facts(dir), j.always = Facts(dir),
           j.mails = [u \in People |-> {dir.mail[u]}]
    PROVE  Lived(j, dir)
<1>1. ASSUME NEW i \in Items
      PROVE  \A h : <<h, "parent", i>> \in Facts(dir) <=> dir.folder[i] = h
  BY FactParent
<1>2. ASSUME NEW i \in Items, NEW b, NEW c, <<b, "parent", i>> \in Facts(dir),
             <<c, "parent", i>> \in Facts(dir)
      PROVE  b = c
  <2>1. \A h : <<h, "parent", i>> \in Facts(dir) <=> dir.folder[i] = h
    BY <1>1
  <2> QED
    BY <1>2, <2>1
<1>3. ASSUME NEW i \in Items, NEW b \in Folders \union {""}, NEW c \in Folders \union {""},
             <<b, "parent", i>> \in j.always, <<c, "parent", i>> \in j.ever
      PROVE  b = c
  <2>1. <<b, "parent", i>> \in Facts(dir) /\ <<c, "parent", i>> \in Facts(dir)
    BY <1>3
  <2> QED
    BY <1>2, <2>1, Zenon
<1>4. DOMAIN j.mails = People /\ \A u \in People : dir.mail[u] \in j.mails[u]
  OBVIOUS
<1> QED
  BY <1>3, <1>4 DEF Lived

\* The steps of a job leave the directory alone.
LEMMA StepKeeps ==
    ASSUME GraphInv, UNCHANGED graph, UNCHANGED catalog, UNCHANGED delta,
           DOMAIN job' = {"op", "pc", "todo", "rest", "byID", "found", "listed",
                          "upto", "ps", "ever", "always", "mails"},
           DOMAIN job'.ps = {"groups", "folders", "documents"},
           job'.op \in {"snapshot", "enumerate", "poll"},
           Lived(job', dir),
           job'.op = "snapshot" => Snapshots(job'),
           job'.op = "enumerate" => Enumerates(job', catalog.principals, catalog.memberships),
           job'.op = "poll" => Polls(job', log, logged)
    PROVE  GraphInv'
<1>1. /\ dir' = dir /\ changed' = changed /\ log' = log /\ catalog' = catalog
      /\ token' = token /\ logged' = logged
  BY DEF graph, delta
<1>2. Shape'
  BY <1>1 DEF GraphInv, Shape, TypeOK
<1>3. NoChangeSkipped'
  BY <1>1 DEF GraphInv, NoChangeSkipped
<1> QED
  BY <1>1, <1>2, <1>3 DEF GraphInv

\* A job's end.
LEMMA EndKeeps ==
    ASSUME GraphInv, UNCHANGED <<graph, catalog, delta>>, job' = Idle
    PROVE  GraphInv'
<1>1. /\ dir' = dir /\ changed' = changed /\ log' = log /\ catalog' = catalog
      /\ token' = token /\ logged' = logged
  BY DEF graph, delta
<1>2. Shape'
  BY <1>1 DEF GraphInv, Shape, TypeOK
<1>3. NoChangeSkipped'
  BY <1>1 DEF GraphInv, NoChangeSkipped
<1> QED
  BY <1>2, <1>3 DEF GraphInv

\* ListUsers.
LEMMA SnapshotUsersKeeps ==
    ASSUME GraphInv, SnapshotUsers
    PROVE  GraphInv'
<1>1. /\ DOMAIN job' = {"op", "pc", "todo", "rest", "byID", "found", "listed",
                        "upto", "ps", "ever", "always", "mails"}
      /\ DOMAIN job'.ps = {"groups", "folders", "documents"}
      /\ job'.op = "snapshot" /\ job'.pc = "members" /\ job'.todo = Groups /\ job'.found = {}
      /\ job'.byID = [u \in Users |-> memberKey(dir, u)]
      /\ job'.ps.groups = << >> /\ job'.ps.folders = << >> /\ job'.ps.documents = << >>
      /\ job'.ever = Facts(dir) /\ job'.always = Facts(dir)
      /\ job'.mails = [u \in People |-> {dir.mail[u]}]
  BY DEF SnapshotUsers, Starting
<1>2. Lived(job', dir)
  BY <1>1, StartingLives DEF GraphInv, Shape, TypeOK
<1>3. DOMAIN << >> = {}
  OBVIOUS
<1>4. \A u \in Users : job'.byID[u] \in KeysOf(u, job'.mails[u])
  <2> SUFFICES ASSUME NEW u \in Users PROVE job'.byID[u] \in KeysOf(u, job'.mails[u])
    OBVIOUS
  <2>1. dir.mail[u] \in job'.mails[u]
    BY <1>1 DEF People
  <2>2. memberKey(dir, u) \in KeysOf(u, job'.mails[u])
    BY <2>1, CurrentKeys
  <2> QED
    BY <2>2, <1>1
<1>5. Snapshots(job')
  BY <1>1, <1>3, <1>4 DEF Snapshots, Seen, Walks
<1> QED
  BY <1>1, <1>2, <1>5, StepKeeps DEF SnapshotUsers

\* A snapshot is a job.
LEMMA Snapping ==
    ASSUME GraphInv, job.op = "snapshot"
    PROVE  /\ DOMAIN job = {"op", "pc", "todo", "rest", "byID", "found", "listed",
                            "upto", "ps", "ever", "always", "mails"}
           /\ DOMAIN job.ps = {"groups", "folders", "documents"}
           /\ Lived(job, dir) /\ Snapshots(job) /\ dir \in Directories
<1>1. job # Idle
  BY DEF Idle
<1> QED
  BY <1>1 DEF GraphInv, Shape, TypeOK

\* The history of a step is that of the job before it.
LEMMA SameHistory ==
    ASSUME NEW j, NEW k, k.ever = j.ever, k.always = j.always, k.mails = j.mails
    PROVE  /\ Later(j, k)
           /\ \A d : Lived(j, d) => Lived(k, d)
BY DEF Later, Lived

\* A group as it is read now.
LEMMA ReadsGroup ==
    ASSUME dir \in Directories, NEW j, Lived(j, dir), NEW g \in Groups
    PROVE  Reads(j, mapGroup(g), "member", g)
<1> DEFINE now == dir.members[g]
           key == [u \in People |-> memberKey(dir, u)]
<1>1. now \in SUBSET Subjects
  BY DEF Directories
<1>2. \A s \in Subjects : <<s, "member", g>> \in Facts(dir) <=> s \in now
  BY FactMember
<1>3. mapGroup(g).users = {key[u] : u \in now \intersect People}
      /\ mapGroup(g).groups = now \intersect Groups
  BY DEF mapGroup
<1>4. \A u \in People : key[u] \in KeysOf(u, j.mails[u])
  <2> SUFFICES ASSUME NEW u \in People PROVE key[u] \in KeysOf(u, j.mails[u])
    OBVIOUS
  <2>1. memberKey(dir, u) \in KeysOf(u, j.mails[u])
    BY CurrentKeys DEF Lived
  <2> QED
    BY <2>1
<1> HIDE DEF now, key
<1> QED
  BY <1>1, <1>2, <1>3, <1>4, ReadsNow

\* ListGroupMembers.
LEMMA SnapshotMembersKeeps ==
    ASSUME GraphInv, NEW g \in Groups, SnapshotMembers(g)
    PROVE  GraphInv'
<1>0. job.op = "snapshot" /\ job.pc = "members" /\ g \in job.todo
  BY DEF SnapshotMembers, At
<1>1. /\ DOMAIN job = {"op", "pc", "todo", "rest", "byID", "found", "listed",
                       "upto", "ps", "ever", "always", "mails"}
      /\ DOMAIN job.ps = {"groups", "folders", "documents"}
      /\ Lived(job, dir) /\ Snapshots(job) /\ dir \in Directories
  BY <1>0, Snapping
<1>2. /\ DOMAIN job' = DOMAIN job /\ DOMAIN job'.ps = DOMAIN job.ps
      /\ job'.op = job.op /\ job'.pc = job.pc /\ job'.todo = job.todo \ {g}
      /\ job'.byID = job.byID /\ job'.found = job.found
      /\ job'.ps.groups = With(job.ps.groups, g, mapGroup(g))
      /\ job'.ps.folders = job.ps.folders /\ job'.ps.documents = job.ps.documents
      /\ job'.ever = job.ever /\ job'.always = job.always /\ job'.mails = job.mails
  BY <1>1 DEF SnapshotMembers
<1>3. Later(job, job') /\ Lived(job', dir)
  BY <1>1, <1>2, SameHistory
<1>4. /\ job.todo \subseteq Groups /\ job.found = {}
      /\ DOMAIN job.ps.groups = Groups \ job.todo
      /\ DOMAIN job.ps.folders = {} /\ DOMAIN job.ps.documents = {}
  BY <1>0, <1>1 DEF Snapshots, Seen
<1>w. /\ DOMAIN job'.ps.groups = DOMAIN job.ps.groups \union {g}
      /\ job'.ps.groups[g] = mapGroup(g)
      /\ \A h \in DOMAIN job.ps.groups : h # g => job'.ps.groups[h] = job.ps.groups[h]
  <2> DEFINE old == job.ps.groups
             new == job'.ps.groups
             v == mapGroup(g)
  <2>1. new = With(old, g, v)
    BY <1>2
  <2> HIDE DEF old, new, v
  <2>2. /\ DOMAIN new = DOMAIN old \union {g} /\ new[g] = v
        /\ \A h \in DOMAIN old : h # g => new[h] = old[h]
    BY <2>1 DEF With
  <2> QED
    BY <2>2 DEF old, new, v
<1>6. DOMAIN job'.ps.groups = Groups \ job'.todo
  BY <1>0, <1>2, <1>4, <1>w
<1>7. \A h \in DOMAIN job'.ps.groups : Reads(job', job'.ps.groups[h], "member", h)
  <2> SUFFICES ASSUME NEW h \in DOMAIN job'.ps.groups
               PROVE  Reads(job', job'.ps.groups[h], "member", h)
    OBVIOUS
  <2>1. CASE h = g
    BY <1>1, <1>w, <1>3, <2>1, ReadsGroup
  <2>2. CASE h # g
    <3>1. h \in DOMAIN job.ps.groups /\ job'.ps.groups[h] = job.ps.groups[h]
      BY <1>w, <2>2
    <3>2. Reads(job, job.ps.groups[h], "member", h)
      BY <1>1, <3>1 DEF Snapshots
    <3> QED
      BY <1>3, <3>1, <3>2, ReadsLater
  <2> QED
    BY <2>1, <2>2
<1>8. Snapshots(job')
  BY <1>0, <1>1, <1>2, <1>4, <1>6, <1>7 DEF Snapshots, Seen, Walks
<1> QED
  BY <1>0, <1>1, <1>2, <1>3, <1>8, StepKeeps DEF SnapshotMembers

\* A listing in a walk: of the root at first, or of a folder that is to be walked.
Listing(c, left) ==
    \/ job.pc = "members" /\ job.todo = {} /\ c = "" /\ left = {}
    \/ job.pc = "drive" /\ \E e \in job.todo : c = e[1] /\ left = job.todo \ {e}

\* It takes the walk from j to k.
ListsTo(j, k, c, left, todo) ==
    /\ \/ j.pc = "members" /\ j.found = {} /\ c = "" /\ left = {}
       \/ j.pc = "drive" /\ \E e \in j.todo : c = e[1] /\ left = j.todo \ {e}
    /\ k.found = j.found \union {<<i, c>> : i \in Children(c)}
    /\ todo = left \union {e \in {<<i, c>> : i \in Children(c)} : e[1] \in Folders}
    /\ k.todo = IF todo # {} THEN todo ELSE k.found
    /\ k.pc = IF todo # {} THEN "drive" ELSE IF k.found # {} THEN "permissions" ELSE "done"
    /\ k.ever = j.ever /\ k.always = j.always

\* What it found is accounted for.
LEMMA ListingWalks ==
    ASSUME dir \in Directories, NEW j, NEW k, Lived(j, dir), Walks(j),
           NEW c, NEW left, NEW todo, ListsTo(j, k, c, left, todo)
    PROVE  Walks(k)
<1> USE DEF ListsTo
<1>1. c \in Folders \union {""}
  BY DEF Walks
<1>2. left \subseteq j.found /\ \A e \in left : e[1] \in Folders
  BY DEF Walks
<1>3. \A e \in {<<i, c>> : i \in Children(c)} : \E i \in Items : e = <<i, c>> /\ dir.folder[i] = c
  BY DEF Children
<1>4. \A e \in k.found : e \in Items \X (Folders \union {""}) /\ <<e[2], "parent", e[1]>> \in k.ever
  <2> SUFFICES ASSUME NEW e \in k.found
               PROVE  e \in Items \X (Folders \union {""}) /\ <<e[2], "parent", e[1]>> \in k.ever
    OBVIOUS
  <2>1. CASE e \in j.found
    BY <2>1 DEF Walks
  <2>2. CASE e \notin j.found
    <3>1. PICK i \in Items : e = <<i, c>> /\ dir.folder[i] = c
      BY <1>3, <2>2
    <3>2. <<c, "parent", i>> \in Facts(dir)
      BY <3>1, FactParent
    <3> QED
      BY <1>1, <3>1, <3>2 DEF Lived
  <2> QED
    BY <2>1, <2>2
<1>5. k.pc = "drive" => \A e \in k.todo : e \in k.found /\ e[1] \in Folders
  BY <1>2
<1>6. k.pc = "permissions" => k.todo \subseteq k.found
  OBVIOUS
<1>7. ASSUME NEW i \in Items, NEW p \in Folders \union {""}, <<p, "parent", i>> \in k.always
      PROVE  \/ <<i, p>> \in k.found
             \/ p # "" /\ k.pc = "drive" /\ \E e \in k.todo : e[1] = p
             \/ p # "" /\ \A e \in k.found : e[1] # p
  <2>1. dir.folder[i] = p
    BY <1>7, FactParent DEF Lived
  <2>2. CASE p = c
    <3>1. i \in Children(c)
      BY <2>1, <2>2 DEF Children
    <3> QED
      BY <2>2, <3>1
  <2>3. ASSUME p # c, p # "", NEW e \in k.found, e \notin j.found, e[1] = p
        PROVE  k.pc = "drive" /\ e \in k.todo
    <3>1. p \in Folders
      BY <2>3
    <3>2. e \in todo
      BY <2>3, <3>1
    <3> QED
      BY <3>2
  <2>4. CASE p # c /\ j.pc = "members"
    BY <2>3, <2>4
  <2>5. CASE p # c /\ j.pc = "drive"
    <3>1. \/ <<i, p>> \in j.found
          \/ p # "" /\ \E e \in j.todo : e[1] = p
          \/ p # "" /\ \A e \in j.found : e[1] # p
      BY <1>7, <2>5 DEF Walks
    <3>2. ASSUME NEW e \in j.todo, e[1] = p
          PROVE  k.pc = "drive" /\ e \in k.todo
      BY <2>5, <3>2
    <3> QED
      BY <2>3, <2>5, <3>1, <3>2
  <2> QED
    BY <2>2, <2>4, <2>5
<1> QED
  BY <1>4, <1>5, <1>6, <1>7 DEF Walks

\* A listing keeps the invariant.
LEMMA ListingKeeps ==
    ASSUME GraphInv, job.op = "snapshot", NEW c, NEW left, Listing(c, left), ListChildren(c, left),
           UNCHANGED <<graph, catalog, delta>>
    PROVE  GraphInv'
<1>1. /\ DOMAIN job = {"op", "pc", "todo", "rest", "byID", "found", "listed",
                       "upto", "ps", "ever", "always", "mails"}
      /\ DOMAIN job.ps = {"groups", "folders", "documents"}
      /\ Lived(job, dir) /\ Snapshots(job) /\ dir \in Directories
  BY Snapping
<1> DEFINE todo == left \union {e \in {<<i, c>> : i \in Children(c)} : e[1] \in Folders}
<1>2. /\ DOMAIN job' = DOMAIN job /\ job'.ps = job.ps
      /\ job'.op = job.op /\ job'.byID = job.byID
      /\ job'.found = job.found \union {<<i, c>> : i \in Children(c)}
      /\ job'.todo = IF todo # {} THEN todo ELSE job'.found
      /\ job'.pc = IF todo # {} THEN "drive" ELSE IF job'.found # {} THEN "permissions" ELSE "done"
      /\ job'.ever = job.ever /\ job'.always = job.always /\ job'.mails = job.mails
  BY <1>1 DEF ListChildren
<1>3. Later(job, job') /\ Lived(job', dir)
  BY <1>1, <1>2, SameHistory
<1>4. /\ DOMAIN job.ps.groups = Groups
      /\ DOMAIN job.ps.folders = {} /\ DOMAIN job.ps.documents = {}
      /\ job.pc = "members" => job.found = {}
      /\ Walks(job)
  BY <1>1 DEF Snapshots, Seen, Listing
<1> HIDE DEF todo
<1>5. Walks(job')
  <2>1. ListsTo(job, job', c, left, todo)
    BY <1>2, <1>4 DEF Listing, ListsTo, todo
  <2> QED
    BY <1>1, <1>4, <2>1, ListingWalks
<1>6. \A g \in DOMAIN job'.ps.groups : Reads(job', job'.ps.groups[g], "member", g)
  BY <1>1, <1>2, <1>3, ReadsLater DEF Snapshots
<1>7. Seen(job') = {} /\ job'.pc \in {"drive", "permissions", "done"}
  BY <1>2 DEF Seen
<1>8. \A u \in Users : job'.byID[u] \in KeysOf(u, job'.mails[u])
  BY <1>1, <1>2 DEF Snapshots
<1>9. Snapshots(job')
  BY <1>2, <1>4, <1>5, <1>6, <1>7, <1>8 DEF Snapshots
<1> QED
  BY <1>1, <1>2, <1>3, <1>9, StepKeeps

\* ListDriveItems.
LEMMA WalkKeeps ==
    ASSUME GraphInv
    PROVE  /\ WalkRoot => GraphInv'
           /\ \A e \in Items \X (Folders \union {""}) : Walk(e) => GraphInv'
<1>1. ASSUME WalkRoot PROVE GraphInv'
  BY <1>1, ListingKeeps DEF WalkRoot, At, Listing
<1>2. ASSUME NEW e \in Items \X (Folders \union {""}), Walk(e) PROVE GraphInv'
  <2>1. Listing(e[1], job.todo \ {e}) /\ job.op = "snapshot"
    BY <1>2 DEF Walk, At, Listing
  <2> QED
    BY <1>2, <2>1, ListingKeeps DEF Walk
<1> QED
  BY <1>1, <1>2

\* The permissions of an item as they are read now.
LEMMA ReadsItem ==
    ASSUME dir \in Directories, Lived(job, dir), NEW i \in Items,
           \A u \in Users : job.byID[u] \in KeysOf(u, job.mails[u]),
           NEW x, x.users = granteesFromPerms(i).users, x.groups = granteesFromPerms(i).groups
    PROVE  Reads(job, x, "viewer", i)
<1> DEFINE now == Readers(i)
           key == [u \in People |-> IF u \in Users THEN job.byID[u] ELSE guestKey(dir, u)]
<1>1. now \in SUBSET Subjects
  BY DEF Readers
<1>2. \A s \in Subjects : <<s, "viewer", i>> \in Facts(dir) <=> s \in now
  BY FactViewer DEF Readers
<1>3. x.users = {key[u] : u \in now \intersect People}
      /\ x.groups = now \intersect Groups
  BY DEF granteesFromPerms
<1>4. \A u \in People : key[u] \in KeysOf(u, job.mails[u])
  <2> SUFFICES ASSUME NEW u \in People PROVE key[u] \in KeysOf(u, job.mails[u])
    OBVIOUS
  <2>1. u \in Guests => guestKey(dir, u) \in KeysOf(u, job.mails[u])
    BY CurrentKeys DEF Lived
  <2> QED
    BY <2>1 DEF People
<1> HIDE DEF now, key
<1> QED
  BY <1>1, <1>2, <1>3, <1>4, ReadsNow

\* ListItemPermissions.
LEMMA SnapshotPermissionsKeeps ==
    ASSUME GraphInv, NEW e \in Items \X (Folders \union {""}), SnapshotPermissions(e)
    PROVE  GraphInv'
<1>0. job.op = "snapshot" /\ job.pc = "permissions" /\ e \in job.todo
  BY DEF SnapshotPermissions, At
<1>1. /\ DOMAIN job = {"op", "pc", "todo", "rest", "byID", "found", "listed",
                       "upto", "ps", "ever", "always", "mails"}
      /\ DOMAIN job.ps = {"groups", "folders", "documents"}
      /\ Lived(job, dir) /\ Snapshots(job) /\ dir \in Directories
  BY <1>0, Snapping
<1> DEFINE oldF == job.ps.folders
           newF == job'.ps.folders
           oldD == job.ps.documents
           newD == job'.ps.documents
           v == granteesFromPerms(e[1])
<1>2. /\ DOMAIN job' = DOMAIN job /\ DOMAIN job'.ps = DOMAIN job.ps
      /\ job'.op = job.op /\ job'.todo = job.todo \ {e}
      /\ job'.pc = IF job.todo = {e} THEN "done" ELSE "permissions"
      /\ job'.byID = job.byID /\ job'.found = job.found
      /\ job'.ps.groups = job.ps.groups
      /\ job'.ever = job.ever /\ job'.always = job.always /\ job'.mails = job.mails
  BY <1>0, <1>1 DEF SnapshotPermissions
<1>3. /\ newF = IF e[1] \in Folders THEN With(oldF, e, v) ELSE oldF
      /\ newD = IF e[1] \in Docs THEN With(oldD, e, v) ELSE oldD
  BY <1>1 DEF SnapshotPermissions
<1>4. Later(job, job') /\ Lived(job', dir)
  BY <1>1, <1>2, SameHistory
<1>5. /\ DOMAIN job.ps.groups = Groups
      /\ DOMAIN oldF = {d \in job.found \ job.todo : d[1] \in Folders}
      /\ DOMAIN oldD = {d \in job.found \ job.todo : d[1] \in Docs}
      /\ \A u \in Users : job.byID[u] \in KeysOf(u, job.mails[u])
      /\ Walks(job)
      /\ \A g \in DOMAIN job.ps.groups : Reads(job, job.ps.groups[g], "member", g)
      /\ \A f \in DOMAIN oldF : Reads(job, oldF[f], "viewer", f[1])
      /\ \A d \in DOMAIN oldD : Reads(job, oldD[d], "viewer", d[1])
  BY <1>0, <1>1 DEF Snapshots, Seen
<1>6. Reads(job, v, "viewer", e[1])
  <2>1. e[1] \in Items
    OBVIOUS
  <2> HIDE DEF v
  <2>2. v = granteesFromPerms(e[1])
    BY DEF v
  <2> QED
    BY <1>1, <1>5, <2>1, <2>2, ReadsItem
<1>7. e \in job.found
  BY <1>0, <1>5 DEF Walks
<1> DEFINE seen == job.found \ (job.todo \ {e})
<1>8. Seen(job') = seen /\ job'.pc \in {"permissions", "done"}
  BY <1>0, <1>2 DEF Seen
<1> HIDE DEF oldF, newF, oldD, newD, v
<1>9. /\ DOMAIN newF = {d \in seen : d[1] \in Folders}
      /\ \A f \in DOMAIN newF : (f \in DOMAIN oldF /\ newF[f] = oldF[f])
                                \/ (f = e /\ newF[f] = v)
  BY <1>0, <1>3, <1>5, <1>7 DEF With
<1>10. /\ DOMAIN newD = {d \in seen : d[1] \in Docs}
       /\ \A d \in DOMAIN newD : (d \in DOMAIN oldD /\ newD[d] = oldD[d])
                                 \/ (d = e /\ newD[d] = v)
  BY <1>0, <1>3, <1>5, <1>7 DEF With
<1>11. \A f \in DOMAIN newF : Reads(job', newF[f], "viewer", f[1])
  <2> SUFFICES ASSUME NEW f \in DOMAIN newF PROVE Reads(job', newF[f], "viewer", f[1])
    OBVIOUS
  <2>1. Reads(job, newF[f], "viewer", f[1])
    BY <1>5, <1>6, <1>9
  <2> QED
    BY <1>4, <2>1, ReadsLater
<1>12. \A d \in DOMAIN newD : Reads(job', newD[d], "viewer", d[1])
  <2> SUFFICES ASSUME NEW d \in DOMAIN newD PROVE Reads(job', newD[d], "viewer", d[1])
    OBVIOUS
  <2>1. Reads(job, newD[d], "viewer", d[1])
    BY <1>5, <1>6, <1>10
  <2> QED
    BY <1>4, <2>1, ReadsLater
<1>13. \A g \in DOMAIN job'.ps.groups : Reads(job', job'.ps.groups[g], "member", g)
  BY <1>2, <1>4, <1>5, ReadsLater
<1>14. \A u \in Users : job'.byID[u] \in KeysOf(u, job'.mails[u])
  BY <1>2, <1>5
<1>15. Walks(job')
  BY <1>0, <1>2, <1>5 DEF Walks
<1>16. Snapshots(job')
  BY <1>2, <1>5, <1>8, <1>9, <1>10, <1>11, <1>12, <1>13, <1>14, <1>15 DEF Snapshots, newF, newD
<1> QED
  BY <1>0, <1>1, <1>2, <1>4, <1>16, StepKeeps DEF SnapshotPermissions

-----------------------------------------------------------------------------
(* The steps of an enumeration *)

\* An enumeration is a job.
LEMMA Enumerating ==
    ASSUME GraphInv, job.op = "enumerate"
    PROVE  /\ DOMAIN job = {"op", "pc", "todo", "rest", "byID", "found", "listed",
                            "upto", "ps", "ever", "always", "mails"}
           /\ DOMAIN job.ps = {"groups", "folders", "documents"}
           /\ Lived(job, dir) /\ Enumerates(job, catalog.principals, catalog.memberships)
           /\ dir \in Directories
<1>1. job # Idle
  BY DEF Idle
<1> QED
  BY <1>1 DEF GraphInv, Shape, TypeOK

\* A statement that writes to the catalog.
LEMMA UpsertKeeps ==
    ASSUME GraphInv, UNCHANGED graph, UNCHANGED delta,
           DOMAIN catalog' = {"principals", "memberships"},
           DOMAIN catalog'.principals \subseteq Users,
           catalog'.memberships \subseteq Subjects \X Groups,
           DOMAIN job' = {"op", "pc", "todo", "rest", "byID", "found", "listed",
                          "upto", "ps", "ever", "always", "mails"},
           DOMAIN job'.ps = {"groups", "folders", "documents"},
           job'.op = "enumerate", Lived(job', dir),
           Enumerates(job', catalog'.principals, catalog'.memberships)
    PROVE  GraphInv'
<1>1. /\ dir' = dir /\ changed' = changed /\ log' = log /\ token' = token /\ logged' = logged
  BY DEF graph, delta
<1>2. Shape'
  BY <1>1 DEF GraphInv, Shape, TypeOK
<1>3. NoChangeSkipped'
  BY <1>1 DEF GraphInv, NoChangeSkipped
<1> QED
  BY <1>1, <1>2, <1>3 DEF GraphInv

\* ListUsers.
LEMMA EnumerateUsersKeeps ==
    ASSUME GraphInv, EnumerateUsers
    PROVE  GraphInv'
<1>1. /\ DOMAIN job' = {"op", "pc", "todo", "rest", "byID", "found", "listed",
                        "upto", "ps", "ever", "always", "mails"}
      /\ DOMAIN job'.ps = {"groups", "folders", "documents"}
      /\ job'.op = "enumerate" /\ job'.pc = "principals" /\ job'.todo = Users
      /\ job'.rest = Groups /\ job'.listed = dir.mail
      /\ job'.ever = Facts(dir) /\ job'.always = Facts(dir)
      /\ job'.mails = [u \in People |-> {dir.mail[u]}]
  BY DEF EnumerateUsers, Starting
<1>2. Lived(job', dir)
  BY <1>1, StartingLives DEF GraphInv, Shape, TypeOK
<1>3. \A u \in Users : job'.listed[u] \in job'.mails[u]
  BY <1>1 DEF People
<1>4. Enumerates(job', catalog.principals, catalog.memberships)
  BY <1>1, <1>3 DEF Enumerates
<1> QED
  BY <1>1, <1>2, <1>4, StepKeeps DEF EnumerateUsers

\* The upsert of a user.
LEMMA UpsertPrincipalKeeps ==
    ASSUME GraphInv, NEW u \in Users, UpsertPrincipal(u)
    PROVE  GraphInv'
<1>0. job.op = "enumerate" /\ job.pc = "principals" /\ u \in job.todo
  BY DEF UpsertPrincipal, At
<1>1. /\ DOMAIN job = {"op", "pc", "todo", "rest", "byID", "found", "listed",
                       "upto", "ps", "ever", "always", "mails"}
      /\ DOMAIN job.ps = {"groups", "folders", "documents"}
      /\ Lived(job, dir) /\ Enumerates(job, catalog.principals, catalog.memberships)
  BY <1>0, Enumerating
<1>2. /\ DOMAIN catalog = {"principals", "memberships"}
      /\ DOMAIN catalog.principals \subseteq Users
      /\ catalog.memberships \subseteq Subjects \X Groups
  BY DEF GraphInv, Shape, TypeOK
<1> DEFINE old == catalog.principals
           new == catalog'.principals
           v == COALESCE(job.listed[u], u)
<1>3. /\ DOMAIN catalog' = DOMAIN catalog /\ new = With(old, u, v)
      /\ catalog'.memberships = catalog.memberships
  BY <1>2 DEF UpsertPrincipal
<1>4. /\ DOMAIN job' = DOMAIN job /\ job'.ps = job.ps
      /\ job'.op = job.op /\ job'.pc = job.pc /\ job'.todo = job.todo \ {u}
      /\ job'.rest = job.rest /\ job'.listed = job.listed
      /\ job'.ever = job.ever /\ job'.always = job.always /\ job'.mails = job.mails
  BY <1>1 DEF UpsertPrincipal
<1>5. Lived(job', dir)
  BY <1>1, <1>4, SameHistory
<1>6. job.listed[u] # "" => v = job.listed[u]
  BY DEF COALESCE
<1> HIDE DEF new, v
<1>7. /\ DOMAIN new = DOMAIN old \union {u} /\ new[u] = v
      /\ \A w \in DOMAIN old : w # u => new[w] = old[w]
  BY <1>3 DEF With
<1>8. \A w \in Users : (job'.pc = "principals" /\ w \in job'.todo)
          \/ (w \in DOMAIN new /\ (job'.listed[w] # "" => new[w] = job'.listed[w]))
  <2> SUFFICES ASSUME NEW w \in Users, w \notin job'.todo
               PROVE  w \in DOMAIN new /\ (job.listed[w] # "" => new[w] = job.listed[w])
    BY <1>0, <1>4
  <2>1. CASE w = u
    BY <2>1, <1>6, <1>7
  <2>2. CASE w # u
    <3>1. w \notin job.todo
      BY <1>4, <2>2
    <3>2. w \in DOMAIN old /\ (job.listed[w] # "" => old[w] = job.listed[w])
      BY <1>1, <3>1 DEF Enumerates
    <3> QED
      BY <1>7, <2>2, <3>2
  <2> QED
    BY <2>1, <2>2
<1>9. Enumerates(job', new, catalog'.memberships)
  BY <1>0, <1>1, <1>3, <1>4, <1>8 DEF Enumerates
<1>10. DOMAIN catalog'.principals \subseteq Users
  BY <1>2, <1>7 DEF new
<1> QED
  BY <1>0, <1>1, <1>2, <1>3, <1>4, <1>5, <1>9, <1>10, UpsertKeeps DEF UpsertPrincipal, new

\* ListGroupMembers.
LEMMA EnumerateMembersKeeps ==
    ASSUME GraphInv, NEW g \in Groups, EnumerateMembers(g)
    PROVE  GraphInv'
<1>0. job.op = "enumerate" /\ job.pc = "principals" /\ job.todo = {} /\ g \in job.rest
  BY DEF EnumerateMembers, At
<1>1. /\ DOMAIN job = {"op", "pc", "todo", "rest", "byID", "found", "listed",
                       "upto", "ps", "ever", "always", "mails"}
      /\ DOMAIN job.ps = {"groups", "folders", "documents"}
      /\ Lived(job, dir) /\ Enumerates(job, catalog.principals, catalog.memberships)
      /\ dir \in Directories
  BY <1>0, Enumerating
<1>2. /\ DOMAIN job' = DOMAIN job /\ job'.ps = job.ps
      /\ job'.op = job.op /\ job'.pc = "memberships"
      /\ job'.todo = {<<x, g>> : x \in dir.members[g]}
      /\ job'.rest = job.rest \ {g} /\ job'.listed = job.listed
      /\ job'.ever = job.ever /\ job'.always = job.always /\ job'.mails = job.mails
  BY <1>1 DEF EnumerateMembers
<1>3. Lived(job', dir)
  BY <1>1, <1>2, SameHistory
<1>4. dir.members[g] \subseteq Subjects
  BY <1>1 DEF Directories
<1>5. job'.todo \subseteq Subjects \X Groups
  BY <1>2, <1>4
<1>6. \A x \in Subjects, h \in Groups : <<x, "member", h>> \in job'.always =>
          h \in job'.rest \/ <<x, h>> \in catalog.memberships \/ <<x, h>> \in job'.todo
  <2> SUFFICES ASSUME NEW x \in Subjects, NEW h \in Groups, <<x, "member", h>> \in job.always,
                      h \notin job'.rest
               PROVE  <<x, h>> \in catalog.memberships \/ <<x, h>> \in job'.todo
    BY <1>2
  <2>1. CASE h = g
    <3>1. x \in dir.members[g]
      BY <1>1, <2>1, FactMember DEF Lived
    <3> QED
      BY <1>2, <2>1, <3>1
  <2>2. CASE h # g
    BY <1>0, <1>1, <1>2, <2>2 DEF Enumerates
  <2> QED
    BY <2>1, <2>2
<1>7. Enumerates(job', catalog.principals, catalog.memberships)
  BY <1>0, <1>1, <1>2, <1>5, <1>6 DEF Enumerates
<1> QED
  BY <1>0, <1>1, <1>2, <1>3, <1>7, StepKeeps DEF EnumerateMembers

\* The upsert of a membership.
LEMMA UpsertMembershipKeeps ==
    ASSUME GraphInv, NEW m \in Subjects \X Groups, UpsertMembership(m)
    PROVE  GraphInv'
<1>0. job.op = "enumerate" /\ job.pc = "memberships" /\ m \in job.todo
  BY DEF UpsertMembership, At
<1>1. /\ DOMAIN job = {"op", "pc", "todo", "rest", "byID", "found", "listed",
                       "upto", "ps", "ever", "always", "mails"}
      /\ DOMAIN job.ps = {"groups", "folders", "documents"}
      /\ Lived(job, dir) /\ Enumerates(job, catalog.principals, catalog.memberships)
  BY <1>0, Enumerating
<1>2. /\ DOMAIN catalog = {"principals", "memberships"}
      /\ DOMAIN catalog.principals \subseteq Users
      /\ catalog.memberships \subseteq Subjects \X Groups
  BY DEF GraphInv, Shape, TypeOK
<1>3. /\ DOMAIN catalog' = DOMAIN catalog /\ catalog'.principals = catalog.principals
      /\ catalog'.memberships = catalog.memberships \union {m}
  BY <1>2 DEF UpsertMembership
<1>4. /\ DOMAIN job' = DOMAIN job /\ job'.ps = job.ps
      /\ job'.op = job.op /\ job'.pc = job.pc /\ job'.todo = job.todo \ {m}
      /\ job'.rest = job.rest /\ job'.listed = job.listed
      /\ job'.ever = job.ever /\ job'.always = job.always /\ job'.mails = job.mails
  BY <1>1 DEF UpsertMembership
<1>5. Lived(job', dir)
  BY <1>1, <1>4, SameHistory
<1>6. catalog'.memberships \subseteq Subjects \X Groups
  BY <1>2, <1>3
<1>7. Enumerates(job', catalog'.principals, catalog'.memberships)
  BY <1>0, <1>1, <1>3, <1>4 DEF Enumerates
<1> QED
  BY <1>0, <1>1, <1>2, <1>3, <1>4, <1>5, <1>6, <1>7, UpsertKeeps DEF UpsertMembership

\* The next group, or the end.
LEMMA NextGroupKeeps ==
    ASSUME GraphInv, NextGroup
    PROVE  GraphInv'
<1>0. /\ job.op = "enumerate" /\ job.todo = {}
      /\ job.pc = "memberships" \/ (job.pc = "principals" /\ job.rest = {})
  BY DEF NextGroup, At
<1>1. /\ DOMAIN job = {"op", "pc", "todo", "rest", "byID", "found", "listed",
                       "upto", "ps", "ever", "always", "mails"}
      /\ DOMAIN job.ps = {"groups", "folders", "documents"}
      /\ Lived(job, dir) /\ Enumerates(job, catalog.principals, catalog.memberships)
  BY <1>0, Enumerating
<1>2. /\ DOMAIN job' = DOMAIN job /\ job'.ps = job.ps
      /\ job'.op = job.op /\ job'.pc = (IF job.rest = {} THEN "done" ELSE "principals")
      /\ job'.todo = job.todo /\ job'.rest = job.rest /\ job'.listed = job.listed
      /\ job'.ever = job.ever /\ job'.always = job.always /\ job'.mails = job.mails
  BY <1>1 DEF NextGroup
<1>3. Lived(job', dir)
  BY <1>1, <1>2, SameHistory
<1>4. Enumerates(job', catalog.principals, catalog.memberships)
  BY <1>0, <1>1, <1>2 DEF Enumerates
<1> QED
  BY <1>0, <1>1, <1>2, <1>3, <1>4, StepKeeps DEF NextGroup

-----------------------------------------------------------------------------
(* The steps of a poll *)

\* A statement of the poll.
LEMMA PollKeeps ==
    ASSUME GraphInv, UNCHANGED graph, UNCHANGED catalog,
           token' \in 0..log, logged' \subseteq 1..log, 1..token' \subseteq logged',
           DOMAIN job' = {"op", "pc", "todo", "rest", "byID", "found", "listed",
                          "upto", "ps", "ever", "always", "mails"},
           DOMAIN job'.ps = {"groups", "folders", "documents"},
           job'.op = "poll", Lived(job', dir), Polls(job', log, logged')
    PROVE  GraphInv'
<1>1. dir' = dir /\ changed' = changed /\ log' = log /\ catalog' = catalog
  BY DEF graph
<1>2. Shape'
  BY <1>1 DEF GraphInv, Shape, TypeOK
<1>3. NoChangeSkipped'
  BY <1>1 DEF GraphInv, NoChangeSkipped
<1> QED
  BY <1>1, <1>2, <1>3 DEF GraphInv

\* The fetch and the report.
LEMMA PollFetchKeeps ==
    ASSUME GraphInv, PollFetch
    PROVE  GraphInv'
<1>1. /\ DOMAIN job' = {"op", "pc", "todo", "rest", "byID", "found", "listed",
                        "upto", "ps", "ever", "always", "mails"}
      /\ DOMAIN job'.ps = {"groups", "folders", "documents"}
      /\ job'.op = "poll" /\ job'.pc = "save" /\ job'.upto = log
      /\ job'.ever = Facts(dir) /\ job'.always = Facts(dir)
      /\ job'.mails = [u \in People |-> {dir.mail[u]}]
  BY DEF PollFetch, Starting
<1>2. Lived(job', dir)
  BY <1>1, StartingLives DEF GraphInv, Shape, TypeOK
<1>3. /\ log \in Nat /\ token \in 0..log /\ logged \subseteq 1..log /\ 1..token \subseteq logged
  <2>1. /\ changed \in 0..MaxChanges /\ log \in 0..changed
        /\ token \in 0..log /\ logged \subseteq 1..log
    BY DEF GraphInv, Shape, TypeOK
  <2>2. log \in Nat
    BY <2>1
  <2>3. 1..token \subseteq logged
    BY DEF GraphInv, NoChangeSkipped
  <2> QED
    BY <2>1, <2>2, <2>3
<1>4. PICK from \in {0, token} : logged' = logged \union (from + 1)..log
  BY DEF PollFetch
<1>5. logged' \subseteq 1..log /\ 1..log \subseteq logged'
  BY <1>3, <1>4
<1>6. token' = token
  BY DEF PollFetch
<1>7. Polls(job', log, logged')
  BY <1>1, <1>3, <1>5 DEF Polls
<1>8. 1..token' \subseteq logged' /\ token' \in 0..log
  BY <1>3, <1>4, <1>6
<1> QED
  BY <1>1, <1>2, <1>5, <1>7, <1>8, PollKeeps DEF PollFetch

\* The save.
LEMMA PollSaveKeeps ==
    ASSUME GraphInv, PollSave
    PROVE  GraphInv'
<1>0. job.op = "poll" /\ job # Idle
  BY DEF PollSave, At, Idle
<1>1. /\ DOMAIN job = {"op", "pc", "todo", "rest", "byID", "found", "listed",
                       "upto", "ps", "ever", "always", "mails"}
      /\ DOMAIN job.ps = {"groups", "folders", "documents"}
      /\ Lived(job, dir) /\ Polls(job, log, logged) /\ logged \subseteq 1..log
  BY <1>0 DEF GraphInv, Shape, TypeOK
<1>2. /\ DOMAIN job' = DOMAIN job /\ job'.ps = job.ps
      /\ job'.op = job.op /\ job'.pc = "done" /\ job'.upto = job.upto
      /\ job'.ever = job.ever /\ job'.always = job.always /\ job'.mails = job.mails
      /\ token' = job.upto /\ logged' = logged
  BY <1>1 DEF PollSave
<1>3. Lived(job', dir)
  BY <1>1, <1>2, SameHistory
<1>4. Polls(job', log, logged') /\ token' \in 0..log /\ 1..token' \subseteq logged'
      /\ logged' \subseteq 1..log
  BY <1>1, <1>2 DEF Polls
<1> QED
  BY <1>0, <1>1, <1>2, <1>3, <1>4, PollKeeps DEF PollSave

-----------------------------------------------------------------------------
(* The invariant *)

\* The initial state.
LEMMA InitKeeps == Init => GraphInv
<1> SUFFICES ASSUME Init PROVE GraphInv
  OBVIOUS
<1>1. /\ dir = Directory /\ changed = 0 /\ log = 0 /\ job = Idle /\ token = 0 /\ logged = {}
      /\ catalog = [principals |-> << >>, memberships |-> {}]
  BY DEF Init
<1>2. DOMAIN << >> = {}
  OBVIOUS
<1>3. DOMAIN catalog = {"principals", "memberships"} /\ DOMAIN catalog.principals \subseteq Users
      /\ catalog.memberships \subseteq Subjects \X Groups
  BY <1>1, <1>2
<1>4. changed \in 0..MaxChanges /\ log \in 0..changed /\ token \in 0..log /\ logged \subseteq 1..log
      /\ 1..token \subseteq logged
  <2>1. MaxChanges \in Nat
    BY DirectoryAssumption
  <2> QED
    BY <1>1, <2>1
<1>5. dir \in Directories /\ OneOwner(dir.mail) /\ Tree(dir.folder)
  BY <1>1, DirectoryAssumption
<1> QED
  BY <1>1, <1>3, <1>4, <1>5 DEF GraphInv, Shape, TypeOK, NoChangeSkipped

\* Every step.
LEMMA NextKeeps ==
    ASSUME GraphInv, Next
    PROVE  GraphInv'
<1>0. dir \in Directories /\ OneOwner(dir.mail) /\ Tree(dir.folder)
  BY DEF GraphInv, Shape, TypeOK
<1>1. ASSUME NEW u \in People, NEW m \in Mails \union {""}, SetMail(u, m) PROVE GraphInv'
  BY <1>0, <1>1, MailTyping, ChangeKeeps DEF SetMail
<1>2. ASSUME NEW x \in Subjects, NEW g \in Groups, Join(x, g) PROVE GraphInv'
  <2> DEFINE S == dir.members[g] \union {x}
  <2>1. S \in SUBSET Subjects
    BY <1>0 DEF Directories
  <2>2. ChangeTo([dir EXCEPT !.members[g] = S])
    BY <1>2 DEF Join
  <2> HIDE DEF S
  <2> QED
    BY <1>0, <2>1, <2>2, MembersTyping, ChangeKeeps
<1>3. ASSUME NEW x \in Subjects, NEW g \in Groups, Leave(x, g) PROVE GraphInv'
  <2> DEFINE S == dir.members[g] \ {x}
  <2>1. S \in SUBSET Subjects
    BY <1>0 DEF Directories
  <2>2. ChangeTo([dir EXCEPT !.members[g] = S])
    BY <1>3 DEF Leave
  <2> HIDE DEF S
  <2> QED
    BY <1>0, <2>1, <2>2, MembersTyping, ChangeKeeps
<1>4. ASSUME NEW i \in Items, NEW x \in Subjects, NEW role \in Roles, SetRole(i, x, role)
      PROVE  GraphInv'
  BY <1>0, <1>4, RolesTyping, ChangeKeeps DEF SetRole
<1>5. ASSUME NEW i \in Items, NEW f \in Folders \union {""}, Move(i, f) PROVE GraphInv'
  <2> DEFINE d == [dir EXCEPT !.folder[i] = f]
  <2>1. d \in Directories /\ d.mail = dir.mail /\ d.folder = [dir.folder EXCEPT ![i] = f]
    BY <1>0, FolderTyping
  <2>2. Tree([dir.folder EXCEPT ![i] = f])
    BY <1>0, <1>5, MoveTree DEF Move
  <2>3. ChangeTo(d)
    BY <1>5 DEF Move
  <2> HIDE DEF d
  <2>4. OneOwner(d.mail) /\ Tree(d.folder)
    BY <1>0, <2>1, <2>2
  <2> QED
    BY <2>1, <2>3, <2>4, ChangeKeeps
<1>6. ASSUME JobFails \/ Finish PROVE GraphInv'
  BY <1>6, EndKeeps DEF JobFails, Finish
<1> QED
  BY <1>1, <1>2, <1>3, <1>4, <1>5, <1>6, SnapshotUsersKeeps, WalkKeeps,
     SnapshotMembersKeeps, SnapshotPermissionsKeeps, EnumerateUsersKeeps, NextGroupKeeps,
     UpsertPrincipalKeeps, EnumerateMembersKeeps, UpsertMembershipKeeps, PollFetchKeeps,
     PollSaveKeeps DEF Next

\* Nothing happens.
LEMMA StutterKeeps ==
    ASSUME GraphInv, UNCHANGED vars
    PROVE  GraphInv'
<1>1. /\ dir' = dir /\ changed' = changed /\ log' = log /\ job' = job /\ catalog' = catalog
      /\ token' = token /\ logged' = logged
  BY DEF vars, graph, delta
<1>2. Shape'
  BY <1>1 DEF GraphInv, Shape, TypeOK
<1> QED
  BY <1>1, <1>2 DEF GraphInv, NoChangeSkipped

\* GraphInv holds in every reachable state: what a snapshot, an enumeration and a
\* poll have read lies between what held all the time and what held at some time.
THEOREM GraphInvariant == Spec => []GraphInv
<1>1. GraphInv /\ [Next]_vars => GraphInv'
  BY NextKeeps, StutterKeeps
<1> QED
  BY <1>1, InitKeeps, PTL DEF Spec

\* The delta token never runs ahead of what pollDelta reported.
THEOREM NoChangeSkippedHolds == Spec => []NoChangeSkipped
<1>1. GraphInv => NoChangeSkipped
  BY DEF GraphInv
<1> QED
  BY <1>1, GraphInvariant, PTL

\* An enumeration that ends has caught up with users, lasting addresses and lasting
\* memberships, however often earlier ones were cut short.
THEOREM CatalogCatchesUpHolds == Spec => []CatalogCatchesUp
<1>1. GraphInv => CatalogCatchesUp
  <2> SUFFICES ASSUME GraphInv, At("enumerate", "done") PROVE CatalogCatchesUp
    BY DEF CatalogCatchesUp
  <2>1. job.op = "enumerate" /\ job.pc = "done"
    BY DEF At
  <2>2. Lived(job, dir) /\ Enumerates(job, catalog.principals, catalog.memberships)
        /\ dir \in Directories /\ DOMAIN catalog.principals \subseteq Users
    BY <2>1, Enumerating DEF GraphInv, Shape, TypeOK
  <2>3. DOMAIN catalog.principals = Users
    BY <2>1, <2>2 DEF Enumerates
  <2>4. \A f \in job.always : f[2] = "member" => <<f[1], f[3]>> \in catalog.memberships
    <3> SUFFICES ASSUME NEW f \in job.always, f[2] = "member"
                 PROVE  <<f[1], f[3]>> \in catalog.memberships
      OBVIOUS
    <3>1. f \in Facts(dir)
      BY <2>2 DEF Lived
    <3>2. PICK g \in Groups : \E x \in dir.members[g] : f = <<x, "member", g>>
      BY <2>2, <3>1, FactKinds
    <3>3. PICK x \in dir.members[g] : f = <<x, "member", g>>
      BY <3>2
    <3>4. x \in Subjects
      BY <2>2, <3>3 DEF Directories
    <3> QED
      BY <2>1, <2>2, <3>3, <3>4 DEF Enumerates
  <2>5. \A u \in Users, m \in Mails : job.mails[u] = {m} => catalog.principals[u] = m
    <3> SUFFICES ASSUME NEW u \in Users, NEW m \in Mails, job.mails[u] = {m}
                 PROVE  catalog.principals[u] = m
      OBVIOUS
    <3>1. job.listed[u] = m /\ m # ""
      BY <2>2, DirectoryAssumption DEF Enumerates
    <3> QED
      BY <2>1, <2>2, <3>1 DEF Enumerates
  <2> QED
    BY <2>3, <2>4, <2>5 DEF CatalogCatchesUp
<1> QED
  BY <1>1, GraphInvariant, PTL

-----------------------------------------------------------------------------
(* The search through nested groups *)

\* Among sets of subsets of a finite set there is a smallest one: induction on
\* finite sets, stated with a set in the place of a predicate.
LEMMA MinimalSet ==
    ASSUME NEW S, IsFiniteSet(S), NEW B, B \subseteq SUBSET S, B # {}
    PROVE  \E U \in B : \A V \in B : V \subseteq U => V = U
<1>1. FiniteSubsetsOf(S) = SUBSET S
  BY FS_FiniteSubsetsOfFinite
<1>2. IsWellFoundedOn(StrictSubsetOrdering(S), SUBSET S)
  BY <1>1, FS_StrictSubsetOrderingWellFounded
<1>3. PICK U \in B : \A V \in B : ~(<<V, U>> \in StrictSubsetOrdering(S))
  BY <1>2, WFMin
<1>4. \A V \in B : V \subseteq U => V = U
  BY <1>3 DEF StrictSubsetOrdering
<1> QED
  BY <1>4

\* S has the nodes of N outside s that are in D or have a child in S.
Closed(S, N, D, C, s) ==
    \A h \in N \ s : h \in D \/ (\E c \in C[h] : c \in S) => h \in S

\* The nodes that are in every such set.
Least(N, D, C, s) == {h \in N \ s : \A S \in SUBSET N : Closed(S, N, D, C, s) => h \in S}

\* The search from each node, when those of s have been entered.
Search(F, N, D, C) ==
    [s \in SUBSET N |-> {h \in N \ s : h \in D \/ (\E c \in C[h] : c \in F[s \union {h}])}]

\* The least closed set is closed.
LEMMA LeastIsClosed ==
    ASSUME NEW N, NEW D, NEW C, NEW s \in SUBSET N
    PROVE  Closed(Least(N, D, C, s), N, D, C, s)
BY DEF Closed, Least

\* Who is reached without passing h is reached.
LEMMA LeastShrinks ==
    ASSUME NEW N, NEW D, NEW C, NEW s \in SUBSET N, NEW h \in N
    PROVE  Least(N, D, C, s \union {h}) \subseteq Least(N, D, C, s)
BY DEF Closed, Least

\* A node is reached directly or through a child, which is reached without it.
LEMMA LeastUnfolds ==
    ASSUME NEW N, NEW D, NEW C, NEW s \in SUBSET N, NEW h \in N \ s
    PROVE  h \in Least(N, D, C, s)
           <=> h \in D \/ (\E c \in C[h] : c \in Least(N, D, C, s \union {h}))
<1> DEFINE T == Least(N, D, C, s \union {h})
<1>1. Closed(T, N, D, C, s \union {h})
  BY LeastIsClosed
<1>2. h \notin T /\ T \in SUBSET N
  BY DEF Least
<1>3. T \subseteq Least(N, D, C, s)
  BY LeastShrinks
<1>4. ASSUME h \in D \/ (\E c \in C[h] : c \in T)
      PROVE  h \in Least(N, D, C, s)
  <2>1. Closed(Least(N, D, C, s), N, D, C, s)
    BY LeastIsClosed
  <2> HIDE DEF T
  <2> QED
    BY <1>3, <1>4, <2>1 DEF Closed
<1> HIDE DEF T
<1>5. ASSUME h \in Least(N, D, C, s), ~(h \in D \/ (\E c \in C[h] : c \in T))
      PROVE  FALSE
  <2>1. Closed(T, N, D, C, s)
    BY <1>1, <1>5 DEF Closed
  <2>2. h \in T
    BY <1>2, <1>5, <2>1 DEF Least
  <2> QED
    BY <1>2, <2>2
<1> QED
  BY <1>4, <1>5 DEF T

\* The recursion finds the least closed set, whatever it passed through, on cycles
\* too: by induction on the nodes that are left.
LEMMA SearchFinds ==
    ASSUME NEW N, IsFiniteSet(N), NEW D, NEW C, NEW F, F = CHOOSE G : G = Search(G, N, D, C)
    PROVE  \A s \in SUBSET N : F[s] = Least(N, D, C, s)
<1> DEFINE W == [s \in SUBSET N |-> Least(N, D, C, s)]
<1>1. W = Search(W, N, D, C)
  <2>1. ASSUME NEW s \in SUBSET N
        PROVE  Least(N, D, C, s) = {h \in N \ s : h \in D \/ (\E c \in C[h] : c \in W[s \union {h}])}
    <3>1. \A h \in N : W[s \union {h}] = Least(N, D, C, s \union {h})
      OBVIOUS
    <3> HIDE DEF W
    <3>2. Least(N, D, C, s) \subseteq N \ s
      BY DEF Least
    <3>3. ASSUME NEW h \in N \ s
          PROVE  h \in Least(N, D, C, s) <=> h \in D \/ (\E c \in C[h] : c \in W[s \union {h}])
      <4>1. h \in Least(N, D, C, s)
            <=> h \in D \/ (\E c \in C[h] : c \in Least(N, D, C, s \union {h}))
        BY LeastUnfolds
      <4> QED
        BY <3>1, <4>1
    <3> QED
      BY <3>2, <3>3
  <2> QED
    BY <2>1 DEF Search
<1>2. F = Search(F, N, D, C)
  <2> HIDE DEF W
  <2> QED
    BY <1>1
<1>3. \A s \in SUBSET N :
        F[s] = {h \in N \ s : h \in D \/ (\E c \in C[h] : c \in F[s \union {h}])}
  <2> SUFFICES ASSUME NEW s \in SUBSET N
               PROVE  F[s] = {h \in N \ s : h \in D \/ (\E c \in C[h] : c \in F[s \union {h}])}
    OBVIOUS
  <2>1. F[s] = Search(F, N, D, C)[s]
    BY <1>2
  <2> QED
    BY <2>1 DEF Search
<1> DEFINE B == {U \in SUBSET N : F[N \ U] # Least(N, D, C, N \ U)}
<1>4. B = {}
  <2> SUFFICES ASSUME B # {} PROVE FALSE
    OBVIOUS
  <2>1. B \subseteq SUBSET N
    OBVIOUS
  <2>2. PICK U \in B : \A V \in B : V \subseteq U => V = U
    <3> HIDE DEF B
    <3> QED
      BY <2>1, MinimalSet
  <2> DEFINE s == N \ U
  <2>3. s \in SUBSET N /\ U \in SUBSET N /\ F[s] # Least(N, D, C, s)
    BY <2>2
  <2>4. ASSUME NEW h \in N \ s
        PROVE  F[s \union {h}] = Least(N, D, C, s \union {h})
    <3>1. U \ {h} \in SUBSET N /\ N \ (U \ {h}) = s \union {h} /\ h \in U
      BY <2>3, <2>4
    <3>2. U \ {h} \notin B
      <4> HIDE DEF B
      <4> QED
        BY <2>2, <3>1
    <3> QED
      BY <3>1, <3>2
  <2> HIDE DEF s, B
  <2>5. ASSUME NEW h \in N \ s
        PROVE  h \in F[s] <=> h \in Least(N, D, C, s)
    <3>1. h \in Least(N, D, C, s)
          <=> h \in D \/ (\E c \in C[h] : c \in Least(N, D, C, s \union {h}))
      BY <2>3, LeastUnfolds
    <3>2. h \in F[s] <=> h \in D \/ (\E c \in C[h] : c \in F[s \union {h}])
      BY <1>3, <2>3
    <3> QED
      BY <2>4, <3>1, <3>2
  <2>6. F[s] \subseteq N \ s
    BY <1>3, <2>3
  <2>7. Least(N, D, C, s) \subseteq N \ s
    BY DEF Least
  <2> QED
    BY <2>3, <2>5, <2>6, <2>7
<1> QED
  <2> SUFFICES ASSUME NEW s \in SUBSET N PROVE F[s] = Least(N, D, C, s)
    OBVIOUS
  <2>1. N \ s \in SUBSET N /\ N \ (N \ s) = s
    OBVIOUS
  <2> QED
    BY <1>4, <2>1

\* The groups that the tuples name, those the user is in, and those nested in each.
Named(set) == {t[3][2] : t \in {s \in set : s[2] = "member"}}
Direct(set, user) == {h \in Named(set) : <<user, "member", groupRef(h)>> \in set}
Nested(set) ==
    [h \in Named(set) |->
        {t[1][2] : t \in {s \in set : s[1][1] = "members" /\ s[2] = "member" /\ s[3] = groupRef(h)}}]

\* memberOf is the least set of groups that has those the user is in and those in
\* which one of them is nested.
LEMMA memberOfFinds ==
    ASSUME NEW set, IsFiniteSet(Named(set)), NEW user, NEW g
    PROVE  memberOf(set, user, g, {}) <=> g \in Least(Named(set), Direct(set, user), Nested(set), {})
<1> DEFINE N == Named(set)
           D == Direct(set, user)
           C == Nested(set)
           body(F, s) == {h \in N \ s :
                \/ <<user, "member", groupRef(h)>> \in set
                \/ \E t \in set :
                     /\ t[1][1] = "members" /\ t[2] = "member" /\ t[3] = groupRef(h)
                     /\ t[1][2] \in F[s \union {h}]}
           found == CHOOSE F : F = [s \in SUBSET (N \union {}) |-> body(F, s)]
<1>1. memberOf(set, user, g, {}) <=> g \in found[{}]
  BY DEF memberOf, Named
<1>2. ASSUME NEW F PROVE [s \in SUBSET (N \union {}) |-> body(F, s)] = Search(F, N, D, C)
  <2>1. N \union {} = N
    OBVIOUS
  <2>2. ASSUME NEW s \in SUBSET N
        PROVE  body(F, s) = {h \in N \ s : h \in D \/ (\E c \in C[h] : c \in F[s \union {h}])}
    <3>1. ASSUME NEW h \in N \ s
          PROVE  (<<user, "member", groupRef(h)>> \in set) <=> h \in D
      BY DEF Direct
    <3>2. ASSUME NEW h \in N \ s
          PROVE  (\E t \in set : /\ t[1][1] = "members" /\ t[2] = "member" /\ t[3] = groupRef(h)
                                 /\ t[1][2] \in F[s \union {h}])
                 <=> (\E c \in C[h] : c \in F[s \union {h}])
      <4>1. C[h] = {t[1][2] : t \in {x \in set : x[1][1] = "members" /\ x[2] = "member"
                                                  /\ x[3] = groupRef(h)}}
        BY DEF Nested
      <4> QED
        BY <4>1
    <3> HIDE DEF N, D, C
    <3> QED
      BY <3>1, <3>2
  <2> HIDE DEF N, D, C, body
  <2> QED
    BY <2>1, <2>2 DEF Search
<1>3. found = CHOOSE F : F = Search(F, N, D, C)
  BY <1>2
<1> HIDE DEF N, D, C, found
<1>4. IsFiniteSet(N)
  BY DEF N
<1>5. found[{}] = Least(N, D, C, {})
  BY <1>3, <1>4, SearchFinds
<1> QED
  BY <1>1, <1>5 DEF N, D, C

-----------------------------------------------------------------------------
(* The tuples of a permission set *)

\* A grant to a user or to the members of a group.
LEMMA GrantingIs ==
    ASSUME NEW x, NEW relation, NEW object, NEW t
    PROVE  t \in Granting(x, relation, object)
           <=> \/ \E k \in x.users : t = <<userRef(k), relation, object>>
               \/ \E g \in x.groups : t = <<groupMembersRef(g), relation, object>>
BY DEF Granting

\* The four kinds of tuples of a permission set.
OfGroups(ps, t) ==
    \E g \in DOMAIN ps.groups : t \in Granting(ps.groups[g], "member", groupRef(g))
OfFolders(ps, t) ==
    \E e \in DOMAIN ps.folders : t \in Granting(ps.folders[e], "viewer", folderRef(e[1]))
OfDocuments(ps, t) ==
    \E e \in DOMAIN ps.documents : t \in Granting(ps.documents[e], "viewer", documentRef(e[1]))
OfParents(ps, t) ==
    \E e \in DOMAIN ps.documents :
        e[2] # "" /\ t = <<folderRef(e[2]), "parent", documentRef(e[1])>>

\* There are no others.
LEMMA TuplesAre ==
    ASSUME NEW ps, NEW t
    PROVE  t \in PermissionSetToTuples(ps)
           <=> OfGroups(ps, t) \/ OfFolders(ps, t) \/ OfDocuments(ps, t) \/ OfParents(ps, t)
<1> HIDE DEF Granting
<1> DEFINE A == UNION {Granting(ps.groups[g], "member", groupRef(g)) : g \in DOMAIN ps.groups}
           B == UNION {Granting(ps.folders[e], "viewer", folderRef(e[1])) : e \in DOMAIN ps.folders}
           E == UNION {Granting(ps.documents[e], "viewer", documentRef(e[1])) : e \in DOMAIN ps.documents}
           P == {<<folderRef(e[2]), "parent", documentRef(e[1])>> :
                    e \in {d \in DOMAIN ps.documents : d[2] # ""}}
<1>1. PermissionSetToTuples(ps) = A \union B \union E \union P
  BY DEF PermissionSetToTuples
<1>2. t \in A <=> OfGroups(ps, t)
  BY DEF OfGroups
<1>3. t \in B <=> OfFolders(ps, t)
  BY DEF OfFolders
<1>4. t \in E <=> OfDocuments(ps, t)
  BY DEF OfDocuments
<1>5. t \in P <=> OfParents(ps, t)
  BY DEF OfParents
<1> HIDE DEF A, B, E, P
<1> QED
  BY <1>1, <1>2, <1>3, <1>4, <1>5

\* The references of different objects differ.
LEMMA RefsDiffer ==
    ASSUME NEW x, NEW y
    PROVE  /\ userRef(x) = userRef(y) <=> x = y
           /\ groupRef(x) = groupRef(y) <=> x = y
           /\ groupMembersRef(x) = groupMembersRef(y) <=> x = y
           /\ folderRef(x) = folderRef(y) <=> x = y
           /\ documentRef(x) = documentRef(y) <=> x = y
           /\ userRef(x) # groupMembersRef(y) /\ userRef(x) # folderRef(y)
           /\ groupMembersRef(x) # folderRef(y)
           /\ groupRef(x) # folderRef(y) /\ groupRef(x) # documentRef(y)
           /\ folderRef(x) # documentRef(y)
BY DEF userRef, groupRef, groupMembersRef, folderRef, documentRef

\* A tuple is in a grant if its user, or its group, is among those granted to.
LEMMA GrantsUser ==
    ASSUME NEW x, NEW relation, NEW object, NEW k, NEW r, NEW o
    PROVE  <<userRef(k), r, o>> \in Granting(x, relation, object)
           <=> r = relation /\ o = object /\ k \in x.users
BY GrantingIs, RefsDiffer

\* The same for a group.
LEMMA GrantsGroup ==
    ASSUME NEW x, NEW relation, NEW object, NEW g, NEW r, NEW o
    PROVE  <<groupMembersRef(g), r, o>> \in Granting(x, relation, object)
           <=> r = relation /\ o = object /\ g \in x.groups
BY GrantingIs, RefsDiffer

\* Neither is a folder granted anything, nor is what is granted to a user or group.
LEMMA GrantsNoFolder ==
    ASSUME NEW x, NEW relation, NEW object, NEW f, NEW r, NEW o
    PROVE  <<folderRef(f), r, o>> \notin Granting(x, relation, object)
BY DEF Granting, userRef, groupMembersRef, folderRef

\* Which tuples name a user.
LEMMA UserTuples ==
    ASSUME NEW ps, NEW k, NEW r, NEW o
    PROVE  <<userRef(k), r, o>> \in PermissionSetToTuples(ps)
           <=> \/ r = "member" /\ \E g \in DOMAIN ps.groups :
                                      o = groupRef(g) /\ k \in ps.groups[g].users
               \/ r = "viewer" /\ \E f \in DOMAIN ps.folders :
                                      o = folderRef(f[1]) /\ k \in ps.folders[f].users
               \/ r = "viewer" /\ \E d \in DOMAIN ps.documents :
                                      o = documentRef(d[1]) /\ k \in ps.documents[d].users
<1> DEFINE t == <<userRef(k), r, o>>
<1>1. OfGroups(ps, t) <=> r = "member" /\ \E g \in DOMAIN ps.groups :
                                      o = groupRef(g) /\ k \in ps.groups[g].users
  <2>1. ASSUME NEW g \in DOMAIN ps.groups
        PROVE  t \in Granting(ps.groups[g], "member", groupRef(g))
               <=> r = "member" /\ o = groupRef(g) /\ k \in ps.groups[g].users
    BY GrantsUser
  <2> HIDE DEF t
  <2> QED
    BY <2>1 DEF OfGroups
<1>2. OfFolders(ps, t) <=> r = "viewer" /\ \E f \in DOMAIN ps.folders :
                                      o = folderRef(f[1]) /\ k \in ps.folders[f].users
  <2>1. ASSUME NEW f \in DOMAIN ps.folders
        PROVE  t \in Granting(ps.folders[f], "viewer", folderRef(f[1]))
               <=> r = "viewer" /\ o = folderRef(f[1]) /\ k \in ps.folders[f].users
    <3> DEFINE object == folderRef(f[1])
               x == ps.folders[f]
    <3> HIDE DEF object, x
    <3>1. t \in Granting(x, "viewer", object) <=> r = "viewer" /\ o = object /\ k \in x.users
      BY GrantsUser
    <3> QED
      BY <3>1 DEF object, x
  <2> HIDE DEF t
  <2> QED
    BY <2>1 DEF OfFolders
<1>3. OfDocuments(ps, t) <=> r = "viewer" /\ \E d \in DOMAIN ps.documents :
                                      o = documentRef(d[1]) /\ k \in ps.documents[d].users
  <2>1. ASSUME NEW d \in DOMAIN ps.documents
        PROVE  t \in Granting(ps.documents[d], "viewer", documentRef(d[1]))
               <=> r = "viewer" /\ o = documentRef(d[1]) /\ k \in ps.documents[d].users
    <3> DEFINE object == documentRef(d[1])
               x == ps.documents[d]
    <3> HIDE DEF object, x
    <3>1. t \in Granting(x, "viewer", object) <=> r = "viewer" /\ o = object /\ k \in x.users
      BY GrantsUser
    <3> QED
      BY <3>1 DEF object, x
  <2> HIDE DEF t
  <2> QED
    BY <2>1 DEF OfDocuments
<1>4. ~OfParents(ps, t)
  BY DEF OfParents, userRef, folderRef
<1> HIDE DEF t
<1>5. t \in PermissionSetToTuples(ps)
      <=> OfGroups(ps, t) \/ OfFolders(ps, t) \/ OfDocuments(ps, t) \/ OfParents(ps, t)
  BY TuplesAre
<1> QED
  BY <1>1, <1>2, <1>3, <1>4, <1>5 DEF t

\* Which tuples name a group.
LEMMA GroupTuples ==
    ASSUME NEW ps, NEW k, NEW r, NEW o
    PROVE  <<groupMembersRef(k), r, o>> \in PermissionSetToTuples(ps)
           <=> \/ r = "member" /\ \E g \in DOMAIN ps.groups :
                                      o = groupRef(g) /\ k \in ps.groups[g].groups
               \/ r = "viewer" /\ \E f \in DOMAIN ps.folders :
                                      o = folderRef(f[1]) /\ k \in ps.folders[f].groups
               \/ r = "viewer" /\ \E d \in DOMAIN ps.documents :
                                      o = documentRef(d[1]) /\ k \in ps.documents[d].groups
<1> DEFINE t == <<groupMembersRef(k), r, o>>
<1>1. OfGroups(ps, t) <=> r = "member" /\ \E g \in DOMAIN ps.groups :
                                      o = groupRef(g) /\ k \in ps.groups[g].groups
  <2>1. ASSUME NEW g \in DOMAIN ps.groups
        PROVE  t \in Granting(ps.groups[g], "member", groupRef(g))
               <=> r = "member" /\ o = groupRef(g) /\ k \in ps.groups[g].groups
    BY GrantsGroup
  <2> HIDE DEF t
  <2> QED
    BY <2>1 DEF OfGroups
<1>2. OfFolders(ps, t) <=> r = "viewer" /\ \E f \in DOMAIN ps.folders :
                                      o = folderRef(f[1]) /\ k \in ps.folders[f].groups
  <2>1. ASSUME NEW f \in DOMAIN ps.folders
        PROVE  t \in Granting(ps.folders[f], "viewer", folderRef(f[1]))
               <=> r = "viewer" /\ o = folderRef(f[1]) /\ k \in ps.folders[f].groups
    <3> DEFINE object == folderRef(f[1])
               x == ps.folders[f]
    <3> HIDE DEF object, x
    <3>1. t \in Granting(x, "viewer", object) <=> r = "viewer" /\ o = object /\ k \in x.groups
      BY GrantsGroup
    <3> QED
      BY <3>1 DEF object, x
  <2> HIDE DEF t
  <2> QED
    BY <2>1 DEF OfFolders
<1>3. OfDocuments(ps, t) <=> r = "viewer" /\ \E d \in DOMAIN ps.documents :
                                      o = documentRef(d[1]) /\ k \in ps.documents[d].groups
  <2>1. ASSUME NEW d \in DOMAIN ps.documents
        PROVE  t \in Granting(ps.documents[d], "viewer", documentRef(d[1]))
               <=> r = "viewer" /\ o = documentRef(d[1]) /\ k \in ps.documents[d].groups
    <3> DEFINE object == documentRef(d[1])
               x == ps.documents[d]
    <3> HIDE DEF object, x
    <3>1. t \in Granting(x, "viewer", object) <=> r = "viewer" /\ o = object /\ k \in x.groups
      BY GrantsGroup
    <3> QED
      BY <3>1 DEF object, x
  <2> HIDE DEF t
  <2> QED
    BY <2>1 DEF OfDocuments
<1>4. ~OfParents(ps, t)
  BY DEF OfParents, groupMembersRef, folderRef
<1> HIDE DEF t
<1>5. t \in PermissionSetToTuples(ps)
      <=> OfGroups(ps, t) \/ OfFolders(ps, t) \/ OfDocuments(ps, t) \/ OfParents(ps, t)
  BY TuplesAre
<1> QED
  BY <1>1, <1>2, <1>3, <1>4, <1>5 DEF t

\* A parent is a folder.
LEMMA ParentIsFolder ==
    ASSUME NEW f, NEW o, NEW t, t = <<folderRef(f), "parent", o>>
    PROVE  t[1][1] = "folder"
BY DEF folderRef

\* Which tuples are about parents.
LEMMA ParentTuples ==
    ASSUME NEW ps, NEW t
    PROVE  t \in PermissionSetToTuples(ps) /\ t[1][1] = "folder"
           <=> \E e \in DOMAIN ps.documents :
                  e[2] # "" /\ t = <<folderRef(e[2]), "parent", documentRef(e[1])>>
<1>1. OfParents(ps, t) => t[1][1] = "folder"
  BY ParentIsFolder DEF OfParents
<1>2. ASSUME NEW x, NEW r, NEW o, t \in Granting(x, r, o)
      PROVE  t[1][1] # "folder"
  BY <1>2 DEF Granting, userRef, groupMembersRef
<1>3. OfGroups(ps, t) => t[1][1] # "folder"
  BY <1>2 DEF OfGroups
<1>4. OfFolders(ps, t) => t[1][1] # "folder"
  BY <1>2 DEF OfFolders
<1>5. OfDocuments(ps, t) => t[1][1] # "folder"
  BY <1>2 DEF OfDocuments
<1>6. t \in PermissionSetToTuples(ps) /\ t[1][1] = "folder" <=> OfParents(ps, t)
  BY <1>1, <1>3, <1>4, <1>5, TuplesAre
<1> QED
  BY <1>6 DEF OfParents

\* A tuple about the members of a group names it.
LEMMA MembersTuples ==
    ASSUME NEW ps, NEW t \in PermissionSetToTuples(ps), t[1][1] = "members"
    PROVE  t = <<groupMembersRef(t[1][2]), t[2], t[3]>>
<1>1. ASSUME NEW x, NEW r, NEW o, t \in Granting(x, r, o)
      PROVE  t = <<groupMembersRef(t[1][2]), t[2], t[3]>>
  <2>1. CASE \E k \in x.users : t = <<userRef(k), r, o>>
    BY <2>1 DEF userRef
  <2>2. CASE \E g \in x.groups : t = <<groupMembersRef(g), r, o>>
    BY <2>2 DEF groupMembersRef
  <2> QED
    BY <1>1, <2>1, <2>2, GrantingIs
<1>2. ~OfParents(ps, t)
  <2>1. OfParents(ps, t) => t[1][1] = "folder"
    BY ParentIsFolder DEF OfParents
  <2> QED
    BY <2>1
<1>3. OfGroups(ps, t) \/ OfFolders(ps, t) \/ OfDocuments(ps, t)
  BY <1>2, TuplesAre
<1> QED
  BY <1>1, <1>3 DEF OfGroups, OfFolders, OfDocuments

-----------------------------------------------------------------------------
(* A snapshot is bracketed *)

Ref(o) == IF o \in Groups THEN groupRef(o) ELSE IF o \in Folders THEN folderRef(o) ELSE documentRef(o)

\* The tuples that say a fact.
LEMMA RenderedIs ==
    ASSUME NEW s, NEW r, NEW o, NEW t
    PROVE  /\ s \in People =>
                (t \in Rendered(<<s, r, o>>) <=> \E k \in Keys(s) : t = <<userRef(k), r, Ref(o)>>)
           /\ s \in Groups =>
                (t \in Rendered(<<s, r, o>>) <=> t = <<groupMembersRef(s), r, Ref(o)>>)
           /\ s \in Folders =>
                (t \in Rendered(<<s, r, o>>) <=> o \in Docs /\ t = <<folderRef(s), r, Ref(o)>>)
           /\ s = "" => t \notin Rendered(<<s, r, o>>)
<1> DEFINE f == <<s, r, o>>
           subjects == IF s \in People THEN {userRef(k) : k \in Keys(s)}
                       ELSE IF s \in Groups THEN {groupMembersRef(s)}
                       ELSE IF s \in Folders /\ o \in Docs THEN {folderRef(s)} ELSE {}
<1>1. f[1] = s /\ f[2] = r /\ f[3] = o
  OBVIOUS
<1> HIDE DEF f
<1>2. Rendered(f) = {<<x, r, Ref(o)>> : x \in subjects}
  BY <1>1 DEF Rendered, Ref
<1>3. t \in Rendered(f) <=> \E x \in subjects : t = <<x, r, Ref(o)>>
  BY <1>2
<1>4. s \in Groups => s \notin People
  BY DirectoryAssumption
<1>5. s \in Folders => s \notin People /\ s \notin Groups
  BY DirectoryAssumption DEF Subjects, Items
<1>6. s = "" => s \notin People /\ s \notin Groups /\ s \notin Folders
  BY DirectoryAssumption DEF Subjects, Items
<1> HIDE DEF subjects
<1>7. s \in People => subjects = {userRef(k) : k \in Keys(s)}
  BY DEF subjects
<1>8. s \in Groups => subjects = {groupMembersRef(s)}
  BY <1>4 DEF subjects
<1>9. s \in Folders => subjects = IF o \in Docs THEN {folderRef(s)} ELSE {}
  BY <1>5 DEF subjects
<1>10. s = "" => subjects = {}
  BY <1>6 DEF subjects
<1>11. s \in People =>
          (t \in Rendered(f) <=> \E k \in Keys(s) : t = <<userRef(k), r, Ref(o)>>)
  BY <1>3, <1>7
<1>12. s \in Groups => (t \in Rendered(f) <=> t = <<groupMembersRef(s), r, Ref(o)>>)
  BY <1>3, <1>8
<1>13. s \in Folders => (t \in Rendered(f) <=> o \in Docs /\ t = <<folderRef(s), r, Ref(o)>>)
  BY <1>3, <1>9
<1>14. s = "" => t \notin Rendered(f)
  BY <1>3, <1>10
<1> QED
  BY <1>11, <1>12, <1>13, <1>14 DEF f

\* What was read of an object says only what held at some time, ...
LEMMA GrantsAreSound ==
    ASSUME NEW x, NEW r, NEW o, Reads(job, x, r, o), NEW t \in Granting(x, r, Ref(o))
    PROVE  \E f \in job.ever : t \in Rendered(f)
<1>1. CASE \E k \in x.users : t = <<userRef(k), r, Ref(o)>>
  <2>1. PICK k \in x.users : t = <<userRef(k), r, Ref(o)>>
    BY <1>1
  <2>2. PICK u \in People : k \in KeysOf(u, job.mails[u]) /\ <<u, r, o>> \in job.ever
    BY <2>1 DEF Reads
  <2>3. k \in Keys(u)
    BY <2>2 DEF Keys
  <2>4. t \in Rendered(<<u, r, o>>)
    BY <2>1, <2>3, RenderedIs
  <2> QED
    BY <2>2, <2>4
<1>2. CASE \E g \in x.groups : t = <<groupMembersRef(g), r, Ref(o)>>
  <2>1. PICK g \in x.groups : t = <<groupMembersRef(g), r, Ref(o)>>
    BY <1>2
  <2>2. g \in Groups /\ <<g, r, o>> \in job.ever
    BY <2>1 DEF Reads
  <2>3. t \in Rendered(<<g, r, o>>)
    BY <2>1, <2>2, RenderedIs
  <2> QED
    BY <2>2, <2>3
<1> QED
  BY <1>1, <1>2, GrantingIs

\* ... and all that held all the time.
LEMMA GrantsAreComplete ==
    ASSUME NEW x, NEW r, NEW o, Reads(job, x, r, o), NEW s \in Subjects,
           <<s, r, o>> \in job.always
    PROVE  \E t \in Granting(x, r, Ref(o)) : t \in Rendered(<<s, r, o>>)
<1>1. CASE s \in People
  <2>1. PICK k \in x.users : k \in KeysOf(s, job.mails[s])
    BY <1>1 DEF Reads
  <2>2. <<userRef(k), r, Ref(o)>> \in Granting(x, r, Ref(o))
    BY <2>1, GrantingIs
  <2>3. <<userRef(k), r, Ref(o)>> \in Rendered(<<s, r, o>>)
    BY <1>1, <2>1, RenderedIs DEF Keys
  <2> QED
    BY <2>2, <2>3
<1>2. CASE s \in Groups
  <2>1. s \in x.groups
    BY <1>2 DEF Reads
  <2>2. <<groupMembersRef(s), r, Ref(o)>> \in Granting(x, r, Ref(o))
    BY <2>1, GrantingIs
  <2>3. <<groupMembersRef(s), r, Ref(o)>> \in Rendered(<<s, r, o>>)
    BY <1>2, RenderedIs
  <2> QED
    BY <2>2, <2>3
<1> QED
  BY <1>1, <1>2 DEF Subjects

\* A snapshot that is done has read every group and every entry that it found.
LEMMA AllRead ==
    ASSUME GraphInv, Snapped
    PROVE  /\ Lived(job, dir) /\ dir \in Directories /\ Tree(dir.folder)
           /\ DOMAIN job.ps.groups = Groups
           /\ DOMAIN job.ps.folders = {e \in job.found : e[1] \in Folders}
           /\ DOMAIN job.ps.documents = {e \in job.found : e[1] \in Docs}
           /\ \A g \in Groups : Reads(job, job.ps.groups[g], "member", g)
           /\ \A e \in DOMAIN job.ps.folders : Reads(job, job.ps.folders[e], "viewer", e[1])
           /\ \A e \in DOMAIN job.ps.documents : Reads(job, job.ps.documents[e], "viewer", e[1])
           /\ \A e \in job.found : e \in Items \X (Folders \union {""})
                                   /\ <<e[2], "parent", e[1]>> \in job.ever
           /\ \A i \in Items, c \in Folders \union {""} : <<c, "parent", i>> \in job.always =>
                  <<i, c>> \in job.found \/ (c # "" /\ Missed(c))
<1>1. job.op = "snapshot" /\ job.pc = "done"
  BY DEF Snapped, At
<1>2. Lived(job, dir) /\ Snapshots(job) /\ dir \in Directories
  BY <1>1, Snapping
<1>3. /\ DOMAIN job.ps.groups = Groups
      /\ DOMAIN job.ps.folders = {e \in job.found : e[1] \in Folders}
      /\ DOMAIN job.ps.documents = {e \in job.found : e[1] \in Docs}
  BY <1>1, <1>2 DEF Snapshots, Seen
<1>4. /\ \A g \in DOMAIN job.ps.groups : Reads(job, job.ps.groups[g], "member", g)
      /\ \A e \in DOMAIN job.ps.folders : Reads(job, job.ps.folders[e], "viewer", e[1])
      /\ \A e \in DOMAIN job.ps.documents : Reads(job, job.ps.documents[e], "viewer", e[1])
      /\ Walks(job)
  BY <1>1, <1>2 DEF Snapshots
<1>5. /\ \A e \in job.found : e \in Items \X (Folders \union {""})
                               /\ <<e[2], "parent", e[1]>> \in job.ever
      /\ \A i \in Items, c \in Folders \union {""} : <<c, "parent", i>> \in job.always =>
             <<i, c>> \in job.found \/ (c # "" /\ Missed(c))
  BY <1>1, <1>4 DEF Walks, Missed
<1>6. Tree(dir.folder)
  BY DEF GraphInv, Shape, TypeOK
<1> QED
  BY <1>2, <1>3, <1>4, <1>5, <1>6

\* Each kind of object has its own references.
LEMMA RefsOfKinds ==
    /\ \A g \in Groups : Ref(g) = groupRef(g)
    /\ \A f \in Folders : Ref(f) = folderRef(f)
    /\ \A d \in Docs : Ref(d) = documentRef(d)
<1>1. Groups \intersect Folders = {} /\ Groups \intersect Docs = {} /\ Folders \intersect Docs = {}
  BY DirectoryAssumption DEF Subjects, Items
<1> QED
  BY <1>1 DEF Ref

\* A snapshot invents nothing: ...
LEMMA NothingInvented ==
    ASSUME GraphInv, Snapped, NEW t \in Result
    PROVE  \E f \in job.ever : t \in Rendered(f)
<1> DEFINE ps == job.ps
<1>1. OfGroups(ps, t) \/ OfFolders(ps, t) \/ OfDocuments(ps, t) \/ OfParents(ps, t)
  BY TuplesAre DEF Result
<1>2. CASE OfGroups(ps, t)
  <2>1. PICK g \in DOMAIN ps.groups : t \in Granting(ps.groups[g], "member", groupRef(g))
    BY <1>2 DEF OfGroups
  <2>2. g \in Groups /\ Ref(g) = groupRef(g) /\ Reads(job, ps.groups[g], "member", g)
    BY <2>1, AllRead, RefsOfKinds
  <2> QED
    BY <2>1, <2>2, GrantsAreSound
<1>3. CASE OfFolders(ps, t)
  <2>1. PICK e \in DOMAIN ps.folders : t \in Granting(ps.folders[e], "viewer", folderRef(e[1]))
    BY <1>3 DEF OfFolders
  <2>2. e[1] \in Folders /\ Reads(job, ps.folders[e], "viewer", e[1])
    BY <2>1, AllRead
  <2>3. Ref(e[1]) = folderRef(e[1])
    BY <2>2, RefsOfKinds
  <2> QED
    BY <2>1, <2>2, <2>3, GrantsAreSound
<1>4. CASE OfDocuments(ps, t)
  <2>1. PICK e \in DOMAIN ps.documents : t \in Granting(ps.documents[e], "viewer", documentRef(e[1]))
    BY <1>4 DEF OfDocuments
  <2>2. e[1] \in Docs /\ Reads(job, ps.documents[e], "viewer", e[1])
    BY <2>1, AllRead
  <2>3. Ref(e[1]) = documentRef(e[1])
    BY <2>2, RefsOfKinds
  <2> QED
    BY <2>1, <2>2, <2>3, GrantsAreSound
<1>5. CASE OfParents(ps, t)
  <2>1. PICK e \in DOMAIN ps.documents :
            e[2] # "" /\ t = <<folderRef(e[2]), "parent", documentRef(e[1])>>
    BY <1>5 DEF OfParents
  <2>2. e[1] \in Docs /\ e \in job.found
    BY <2>1, AllRead
  <2>3. e[2] \in Folders \union {""} /\ <<e[2], "parent", e[1]>> \in job.ever
    BY <2>2, AllRead
  <2>4. Ref(e[1]) = documentRef(e[1])
    BY <2>2, RefsOfKinds
  <2> DEFINE c == e[2]
             d == e[1]
  <2>5. c \in Folders /\ d \in Docs /\ t = <<folderRef(c), "parent", Ref(d)>>
        /\ <<c, "parent", d>> \in job.ever
    BY <2>1, <2>2, <2>3, <2>4
  <2> HIDE DEF c, d
  <2>6. t \in Rendered(<<c, "parent", d>>)
    BY <2>5, RenderedIs
  <2> QED
    BY <2>5, <2>6
<1> QED
  BY <1>1, <1>2, <1>3, <1>4, <1>5

\* ... what it says of an item it found is all that held of the item all the time; ...
LEMMA ItemsRemembered ==
    ASSUME GraphInv, Snapped, NEW i \in Items, NEW x \in Subjects,
           <<x, "viewer", i>> \in job.always, ~Missed(i)
    PROVE  \E t \in Result : t \in Rendered(<<x, "viewer", i>>)
<1> DEFINE ps == job.ps
<1>1. PICK e \in job.found : e[1] = i
  BY DEF Missed
<1>2. CASE i \in Folders
  <2>1. e \in DOMAIN ps.folders /\ Ref(i) = folderRef(e[1])
    BY <1>1, <1>2, AllRead, RefsOfKinds
  <2>2. Reads(job, ps.folders[e], "viewer", i)
    BY <1>1, <2>1, AllRead
  <2>3. PICK t \in Granting(ps.folders[e], "viewer", Ref(i)) : t \in Rendered(<<x, "viewer", i>>)
    BY <2>2, GrantsAreComplete
  <2>4. OfFolders(ps, t)
    BY <2>1, <2>3 DEF OfFolders
  <2> QED
    BY <2>3, <2>4, TuplesAre DEF Result
<1>3. CASE i \in Docs
  <2>1. e \in DOMAIN ps.documents /\ Ref(i) = documentRef(e[1])
    BY <1>1, <1>3, AllRead, RefsOfKinds
  <2>2. Reads(job, ps.documents[e], "viewer", i)
    BY <1>1, <2>1, AllRead
  <2>3. PICK t \in Granting(ps.documents[e], "viewer", Ref(i)) : t \in Rendered(<<x, "viewer", i>>)
    BY <2>2, GrantsAreComplete
  <2>4. OfDocuments(ps, t)
    BY <2>1, <2>3 DEF OfDocuments
  <2> QED
    BY <2>3, <2>4, TuplesAre DEF Result
<1> QED
  BY <1>2, <1>3 DEF Items

\* ... the folder of a document included; ...
LEMMA PlacesRemembered ==
    ASSUME GraphInv, Snapped, NEW i \in Items, NEW c \in Folders \union {""},
           <<c, "parent", i>> \in job.always
    PROVE  \/ \A t : t \notin Rendered(<<c, "parent", i>>)
           \/ \E t \in Result : t \in Rendered(<<c, "parent", i>>)
           \/ Missed(i)
<1>1. CASE c = ""
  BY <1>1, RenderedIs
<1>2. CASE c \in Folders /\ i \notin Docs
  BY <1>2, RenderedIs
<1>3. CASE c \in Folders /\ i \in Docs /\ ~Missed(i)
  <2>1. PICK e \in job.found : e[1] = i
    BY <1>3 DEF Missed
  <2>2. e \in Items \X (Folders \union {""}) /\ <<e[2], "parent", i>> \in job.ever
    BY <2>1, AllRead
  <2>3. e[2] = c
    BY <2>2, AllRead DEF Lived
  <2>4. e \in DOMAIN job.ps.documents /\ c # ""
    BY <1>3, <2>1, AllRead, DirectoryAssumption DEF Items
  <2> DEFINE t == <<folderRef(c), "parent", documentRef(i)>>
  <2>5. OfParents(job.ps, t)
    BY <2>1, <2>3, <2>4 DEF OfParents
  <2>6. t \in Rendered(<<c, "parent", i>>)
    BY <1>3, RenderedIs, RefsOfKinds
  <2> HIDE DEF t
  <2> QED
    BY <2>5, <2>6, TuplesAre DEF Result
<1> QED
  BY <1>1, <1>2, <1>3

\* ... and what it misses has moved or lies in a folder it misses.
LEMMA Bracketed ==
    ASSUME GraphInv, Snapped
    PROVE  /\ Result \subseteq UNION {Rendered(f) : f \in job.ever}
           /\ \A f \in job.always :
                 \/ Rendered(f) = {}
                 \/ Rendered(f) \intersect Result # {}
                 \/ f[3] \in Items /\ Missed(f[3])
           /\ \A i \in Items, c \in Folders \union {""} :
                 Missed(i) /\ <<c, "parent", i>> \in job.always => c # "" /\ Missed(c)
<1> DEFINE ps == job.ps
<1>1. ASSUME NEW t \in Result PROVE \E f \in job.ever : t \in Rendered(f)
  BY NothingInvented
<1>2. ASSUME NEW f \in job.always
      PROVE  \/ \A t : t \notin Rendered(f)
             \/ \E t \in Result : t \in Rendered(f)
             \/ f[3] \in Items /\ Missed(f[3])
  <2>1. f \in Facts(dir) /\ dir \in Directories
    BY AllRead DEF Lived
  <2>2. CASE \E g \in Groups : \E x \in dir.members[g] : f = <<x, "member", g>>
    <3>1. PICK g \in Groups : \E x \in dir.members[g] : f = <<x, "member", g>>
      BY <2>2
    <3>2. PICK x \in dir.members[g] : f = <<x, "member", g>>
      BY <3>1
    <3>3. x \in Subjects
      BY <2>1 DEF Directories
    <3>4. Reads(job, ps.groups[g], "member", g) /\ Ref(g) = groupRef(g) /\ g \in DOMAIN ps.groups
      BY AllRead, RefsOfKinds
    <3>5. PICK t \in Granting(ps.groups[g], "member", Ref(g)) : t \in Rendered(f)
      BY <3>2, <3>3, <3>4, GrantsAreComplete
    <3>6. OfGroups(ps, t)
      BY <3>4, <3>5 DEF OfGroups
    <3> QED
      BY <3>5, <3>6, TuplesAre DEF Result
  <2>3. CASE \E i \in Items, x \in Subjects : f = <<x, "viewer", i>>
    <3>1. PICK i \in Items, x \in Subjects : f = <<x, "viewer", i>>
      BY <2>3
    <3>2. f[3] = i
      BY <3>1
    <3> QED
      BY <3>1, <3>2, ItemsRemembered
  <2>4. CASE \E i \in Items : f = <<dir.folder[i], "parent", i>>
    <3>1. PICK i \in Items : f = <<dir.folder[i], "parent", i>>
      BY <2>4
    <3> DEFINE c == dir.folder[i]
    <3>2. c \in Folders \union {""}
      BY <2>1 DEF Directories
    <3>3. f = <<c, "parent", i>> /\ f[3] = i
      BY <3>1
    <3> HIDE DEF c
    <3> QED
      BY <3>2, <3>3, PlacesRemembered
  <2> QED
    BY <2>1, <2>2, <2>3, <2>4, FactKinds
<1>3. ASSUME NEW i \in Items, NEW c \in Folders \union {""}, Missed(i),
             <<c, "parent", i>> \in job.always
      PROVE  c # "" /\ Missed(c)
  <2>1. <<i, c>> \in job.found \/ (c # "" /\ Missed(c))
    BY <1>3, AllRead
  <2>2. <<i, c>> \notin job.found
    <3>1. <<i, c>>[1] = i
      OBVIOUS
    <3> QED
      BY <1>3, <3>1 DEF Missed
  <2> QED
    BY <2>1, <2>2
<1> HIDE DEF Rendered, Result, Missed
<1>4. \A f \in job.always :
          \/ Rendered(f) = {}
          \/ Rendered(f) \intersect Result # {}
          \/ f[3] \in Items /\ Missed(f[3])
  BY <1>2
<1> QED
  BY <1>1, <1>3, <1>4

\* A snapshot invents nothing, and forgets only what is granted on items that its
\* walk missed; these have moved meanwhile, or lie in a folder that it missed.
THEOREM SnapshotBracketedHolds == Spec => []SnapshotBracketed
<1>1. GraphInv => SnapshotBracketed
  BY Bracketed DEF SnapshotBracketed, GraphInv, Shape
<1> QED
  BY <1>1, GraphInvariant, PTL

-----------------------------------------------------------------------------
(* What Check decides from the tuples of a permission set *)

\* The tuples of a group grant on a document, ...
LEMMA GroupViewsDocument ==
    ASSUME NEW ps, NEW i, NEW t
    PROVE  t \in PermissionSetToTuples(ps) /\ t[1][1] = "members" /\ t[2] = "viewer"
           /\ t[3] = documentRef(i)
           <=> \E e \in DOMAIN ps.documents : e[1] = i /\ \E g \in ps.documents[e].groups :
                  t = <<groupMembersRef(g), "viewer", documentRef(i)>>
<1>1. ASSUME NEW g, t = <<groupMembersRef(g), "viewer", documentRef(i)>>
      PROVE  t[1][1] = "members" /\ t[2] = "viewer" /\ t[3] = documentRef(i)
  BY <1>1 DEF groupMembersRef
<1>2. ASSUME NEW g
      PROVE  <<groupMembersRef(g), "viewer", documentRef(i)>> \in PermissionSetToTuples(ps)
             <=> \E e \in DOMAIN ps.documents : e[1] = i /\ g \in ps.documents[e].groups
  <2>1. \A f : documentRef(i) # folderRef(f)
    BY RefsDiffer
  <2>2. \A d : documentRef(i) = documentRef(d) <=> d = i
    BY RefsDiffer
  <2> QED
    BY <2>1, <2>2, GroupTuples
<1>3. ASSUME t \in PermissionSetToTuples(ps), t[1][1] = "members", t[2] = "viewer",
             t[3] = documentRef(i)
      PROVE  \E e \in DOMAIN ps.documents : e[1] = i /\ \E g \in ps.documents[e].groups :
                t = <<groupMembersRef(g), "viewer", documentRef(i)>>
  <2> DEFINE g == t[1][2]
  <2>1. t = <<groupMembersRef(g), t[2], t[3]>>
    BY <1>3, MembersTuples
  <2> HIDE DEF g
  <2>2. t = <<groupMembersRef(g), "viewer", documentRef(i)>>
    BY <1>3, <2>1
  <2> QED
    BY <1>2, <1>3, <2>2
<1> QED
  BY <1>1, <1>2, <1>3

\* ... and on a folder.
LEMMA GroupViewsFolder ==
    ASSUME NEW ps, NEW i, NEW t
    PROVE  t \in PermissionSetToTuples(ps) /\ t[1][1] = "members" /\ t[2] = "viewer"
           /\ t[3] = folderRef(i)
           <=> \E e \in DOMAIN ps.folders : e[1] = i /\ \E g \in ps.folders[e].groups :
                  t = <<groupMembersRef(g), "viewer", folderRef(i)>>
<1>1. ASSUME NEW g, t = <<groupMembersRef(g), "viewer", folderRef(i)>>
      PROVE  t[1][1] = "members" /\ t[2] = "viewer" /\ t[3] = folderRef(i)
  BY <1>1 DEF groupMembersRef
<1>2. ASSUME NEW g
      PROVE  <<groupMembersRef(g), "viewer", folderRef(i)>> \in PermissionSetToTuples(ps)
             <=> \E e \in DOMAIN ps.folders : e[1] = i /\ g \in ps.folders[e].groups
  <2>1. \A f : folderRef(i) # documentRef(f)
    BY RefsDiffer
  <2>2. \A d : folderRef(i) = folderRef(d) <=> d = i
    BY RefsDiffer
  <2> QED
    BY <2>1, <2>2, GroupTuples
<1>3. ASSUME t \in PermissionSetToTuples(ps), t[1][1] = "members", t[2] = "viewer",
             t[3] = folderRef(i)
      PROVE  \E e \in DOMAIN ps.folders : e[1] = i /\ \E g \in ps.folders[e].groups :
                t = <<groupMembersRef(g), "viewer", folderRef(i)>>
  <2> DEFINE g == t[1][2]
  <2>1. t = <<groupMembersRef(g), t[2], t[3]>>
    BY <1>3, MembersTuples
  <2> HIDE DEF g
  <2>2. t = <<groupMembersRef(g), "viewer", folderRef(i)>>
    BY <1>3, <2>1
  <2> QED
    BY <1>2, <1>3, <2>2
<1> QED
  BY <1>1, <1>2, <1>3

\* The name in a reference to the members of a group.
LEMMA MembersName ==
    ASSUME NEW g, NEW r, NEW o, NEW t, t = <<groupMembersRef(g), r, o>>
    PROVE  t[1][2] = g
BY DEF groupMembersRef

\* The key k is among the users of x or in one of its groups.
Views(ps, x, k) ==
    \/ k \in x.users
    \/ \E g \in x.groups : memberOf(PermissionSetToTuples(ps), userRef(k), g, {})

\* viewerOf finds the users of the object and the members of its groups: of a
\* document, ...
LEMMA DocumentViewers ==
    ASSUME NEW ps, NEW i, NEW k
    PROVE  viewerOf(PermissionSetToTuples(ps), userRef(k), documentRef(i))
           <=> \E e \in DOMAIN ps.documents : /\ e[1] = i
                                        /\ Views(ps, ps.documents[e], k)
<1> DEFINE T == PermissionSetToTuples(ps)
           o == documentRef(i)
<1>1. <<userRef(k), "viewer", o>> \in T
      <=> \E e \in DOMAIN ps.documents : e[1] = i /\ k \in ps.documents[e].users
  <2>1. \A f : documentRef(i) # folderRef(f)
    BY RefsDiffer
  <2>2. \A d : documentRef(i) = documentRef(d) <=> d = i
    BY RefsDiffer
  <2> QED
    BY <2>1, <2>2, UserTuples
<1>2. ASSUME NEW e \in DOMAIN ps.documents, e[1] = i, NEW g \in ps.documents[e].groups,
             memberOf(T, userRef(k), g, {})
      PROVE  viewerOf(T, userRef(k), o)
  <2> DEFINE t == <<groupMembersRef(g), "viewer", o>>
  <2>1. t \in T /\ t[1][1] = "members" /\ t[2] = "viewer" /\ t[3] = o
    BY <1>2, GroupViewsDocument
  <2>2. t[1][2] = g
    BY DEF groupMembersRef
  <2> HIDE DEF t, T, o
  <2>3. memberOf(T, userRef(k), t[1][2], {})
    BY <1>2, <2>2
  <2> QED
    BY <2>1, <2>3, Zenon DEF viewerOf
<1>3. ASSUME NEW t \in T, t[1][1] = "members", t[2] = "viewer", t[3] = o,
             memberOf(T, userRef(k), t[1][2], {})
      PROVE  \E e \in DOMAIN ps.documents : e[1] = i /\ \E g \in ps.documents[e].groups :
                memberOf(T, userRef(k), g, {})
  <2>1. PICK e \in DOMAIN ps.documents : e[1] = i /\ \E g \in ps.documents[e].groups :
            t = <<groupMembersRef(g), "viewer", o>>
    BY <1>3, GroupViewsDocument
  <2>2. PICK g \in ps.documents[e].groups : t = <<groupMembersRef(g), "viewer", o>>
    BY <2>1
  <2>3. t[1][2] = g
    BY <2>2, MembersName
  <2> HIDE DEF T, o
  <2>4. memberOf(T, userRef(k), g, {})
    BY <1>3, <2>3
  <2> QED
    BY <2>1, <2>4
<1> HIDE DEF T, o
<1>4. viewerOf(T, userRef(k), o)
      => \/ <<userRef(k), "viewer", o>> \in T
         \/ \E e \in DOMAIN ps.documents : e[1] = i /\ \E g \in ps.documents[e].groups :
                memberOf(T, userRef(k), g, {})
  BY <1>3, Zenon DEF viewerOf
<1>5. <<userRef(k), "viewer", o>> \in T => viewerOf(T, userRef(k), o)
  BY Zenon DEF viewerOf
<1> QED
  BY <1>1, <1>2, <1>4, <1>5 DEF Views, T, o

\* ... and of a folder.
LEMMA FolderViewers ==
    ASSUME NEW ps, NEW i, NEW k
    PROVE  viewerOf(PermissionSetToTuples(ps), userRef(k), folderRef(i))
           <=> \E e \in DOMAIN ps.folders : /\ e[1] = i
                                        /\ Views(ps, ps.folders[e], k)
<1> DEFINE T == PermissionSetToTuples(ps)
           o == folderRef(i)
<1>1. <<userRef(k), "viewer", o>> \in T
      <=> \E e \in DOMAIN ps.folders : e[1] = i /\ k \in ps.folders[e].users
  <2>1. \A f : folderRef(i) # documentRef(f)
    BY RefsDiffer
  <2>2. \A d : folderRef(i) = folderRef(d) <=> d = i
    BY RefsDiffer
  <2> QED
    BY <2>1, <2>2, UserTuples
<1>2. ASSUME NEW e \in DOMAIN ps.folders, e[1] = i, NEW g \in ps.folders[e].groups,
             memberOf(T, userRef(k), g, {})
      PROVE  viewerOf(T, userRef(k), o)
  <2> DEFINE t == <<groupMembersRef(g), "viewer", o>>
  <2>1. t \in T /\ t[1][1] = "members" /\ t[2] = "viewer" /\ t[3] = o
    BY <1>2, GroupViewsFolder
  <2>2. t[1][2] = g
    BY DEF groupMembersRef
  <2> HIDE DEF t, T, o
  <2>3. memberOf(T, userRef(k), t[1][2], {})
    BY <1>2, <2>2
  <2> QED
    BY <2>1, <2>3, Zenon DEF viewerOf
<1>3. ASSUME NEW t \in T, t[1][1] = "members", t[2] = "viewer", t[3] = o,
             memberOf(T, userRef(k), t[1][2], {})
      PROVE  \E e \in DOMAIN ps.folders : e[1] = i /\ \E g \in ps.folders[e].groups :
                memberOf(T, userRef(k), g, {})
  <2>1. PICK e \in DOMAIN ps.folders : e[1] = i /\ \E g \in ps.folders[e].groups :
            t = <<groupMembersRef(g), "viewer", o>>
    BY <1>3, GroupViewsFolder
  <2>2. PICK g \in ps.folders[e].groups : t = <<groupMembersRef(g), "viewer", o>>
    BY <2>1
  <2>3. t[1][2] = g
    BY <2>2, MembersName
  <2> HIDE DEF T, o
  <2>4. memberOf(T, userRef(k), g, {})
    BY <1>3, <2>3
  <2> QED
    BY <2>1, <2>4
<1> HIDE DEF T, o
<1>4. viewerOf(T, userRef(k), o)
      => \/ <<userRef(k), "viewer", o>> \in T
         \/ \E e \in DOMAIN ps.folders : e[1] = i /\ \E g \in ps.folders[e].groups :
                memberOf(T, userRef(k), g, {})
  BY <1>3, Zenon DEF viewerOf
<1>5. <<userRef(k), "viewer", o>> \in T => viewerOf(T, userRef(k), o)
  BY Zenon DEF viewerOf
<1> QED
  BY <1>1, <1>2, <1>4, <1>5 DEF Views, T, o

\* Check asks for the viewers of the document and those of the folders it was found
\* in; of a folder, for its viewers.
LEMMA CheckAsks ==
    ASSUME NEW ps, NEW d, NEW user
    PROVE  /\ Check(PermissionSetToTuples(ps), user, documentRef(d))
              <=> \/ viewerOf(PermissionSetToTuples(ps), user, documentRef(d))
                  \/ \E e \in DOMAIN ps.documents :
                        /\ e[1] = d /\ e[2] # ""
                        /\ viewerOf(PermissionSetToTuples(ps), user, folderRef(e[2]))
           /\ \A f : Check(PermissionSetToTuples(ps), user, folderRef(f))
                     <=> viewerOf(PermissionSetToTuples(ps), user, folderRef(f))
<1> DEFINE T == PermissionSetToTuples(ps)
           o == documentRef(d)
<1>1. ASSUME NEW t \in T, t[1][1] = "folder", t[3] = o
      PROVE  \E e \in DOMAIN ps.documents : e[1] = d /\ e[2] # "" /\ t[1] = folderRef(e[2])
  <2>1. PICK e \in DOMAIN ps.documents :
            e[2] # "" /\ t = <<folderRef(e[2]), "parent", documentRef(e[1])>>
    BY <1>1, ParentTuples
  <2>2. documentRef(e[1]) = documentRef(d) /\ t[1] = folderRef(e[2])
    BY <1>1, <2>1
  <2>3. e[1] = d
    BY <2>2, RefsDiffer
  <2> QED
    BY <2>1, <2>2, <2>3
<1>2. ASSUME NEW e \in DOMAIN ps.documents, e[1] = d, e[2] # "", viewerOf(T, user, folderRef(e[2]))
      PROVE  viewerDocument(T, user, o)
  <2> DEFINE h == folderRef(e[2])
             t == <<h, "parent", o>>
  <2>1. t \in T /\ t[1][1] = "folder"
    BY <1>2, ParentTuples
  <2>2. t[2] = "parent" /\ t[3] = o /\ t[1] = h
    OBVIOUS
  <2> HIDE DEF t, T, o
  <2>3. viewerOf(T, user, t[1])
    BY <1>2, <2>2
  <2> QED
    BY <2>1, <2>2, <2>3, Zenon DEF viewerDocument
<1>3. o[1] = "document" /\ \A f : folderRef(f)[1] # "document"
  BY DEF documentRef, folderRef
<1> HIDE DEF T, o
<1>4. ASSUME NEW t \in T, t[1][1] = "folder", t[3] = o, viewerOf(T, user, t[1])
      PROVE  \E e \in DOMAIN ps.documents :
                e[1] = d /\ e[2] # "" /\ viewerOf(T, user, folderRef(e[2]))
  <2>1. PICK e \in DOMAIN ps.documents : e[1] = d /\ e[2] # "" /\ t[1] = folderRef(e[2])
    BY <1>1, <1>4
  <2>2. viewerOf(T, user, folderRef(e[2]))
    BY <1>4, <2>1
  <2> QED
    BY <2>1, <2>2
<1>5. viewerDocument(T, user, o)
      => \/ viewerOf(T, user, o)
         \/ \E e \in DOMAIN ps.documents :
               e[1] = d /\ e[2] # "" /\ viewerOf(T, user, folderRef(e[2]))
  BY <1>4, Zenon DEF viewerDocument
<1>6. viewerOf(T, user, o) => viewerDocument(T, user, o)
  BY Zenon DEF viewerDocument
<1> QED
  BY <1>2, <1>3, <1>5, <1>6 DEF Check, T, o

-----------------------------------------------------------------------------
(* The leak report *)

\* A report without a finding of access across departments to d: no other group
\* than its owner may view d.
LEMMA NoCrossDepartment ==
    ASSUME NEW ps, NEW e \in DOMAIN ps.documents, NEW d, e[1] = d, Owners[d] # "",
           NEW g \in ps.documents[e].groups,
           Finding("cross_department_access", d, g) \notin Analyze(ps, Owners)
    PROVE  g = Owners[d]
<1> DEFINE docs == {c \in DOMAIN ps.documents : Owners[c[1]] # ""}
           of(c) == {Finding("cross_department_access", c[1], h) :
                        h \in ps.documents[c].groups \ {Owners[c[1]]}}
<1>1. e \in docs
  OBVIOUS
<1>2. g # Owners[d] => Finding("cross_department_access", d, g) \in of(e)
  OBVIOUS
<1>3. CrossDepartment(ps, Owners) = UNION {of(c) : c \in docs}
  BY DEF CrossDepartment
<1> HIDE DEF of, docs
<1>4. g # Owners[d] => Finding("cross_department_access", d, g) \in CrossDepartment(ps, Owners)
  BY <1>1, <1>2, <1>3
<1>5. CrossDepartment(ps, Owners) \subseteq Analyze(ps, Owners)
  BY DEF Analyze
<1> QED
  BY <1>4, <1>5

\* Findings of different kinds, or of different documents, differ.
LEMMA FindingsDiffer ==
    ASSUME NEW d
    PROVE  /\ \A e, g : /\ Finding("orphaned_document", d, "") # Finding("world_readable", e, g)
                       /\ Finding("orphaned_document", d, "") # Finding("cross_department_access", e, g)
                       /\ Finding("orphaned_document", d, "") # Finding("overexposed_document", e, g)
                       /\ Finding("orphaned_document", d, "") # Finding("excessive_group_access", e, g)
           /\ \A e : Finding("orphaned_document", d, "") = Finding("orphaned_document", e, "") => d = e
BY DEF Finding

\* The document d was found without viewers of its own.
Orphaned(ps, d) ==
    \E e \in DOMAIN ps.documents :
        e[1] = d /\ ps.documents[e].users = {} /\ ps.documents[e].groups = {}

\* So was an orphan.
LEMMA OrphansAre ==
    ASSUME NEW ps, NEW d,
           Finding("orphaned_document", d, "") \in Analyze(ps, Owners)
    PROVE  Orphaned(ps, d)
<1> DEFINE docs == DOMAIN ps.documents
           f == Finding("orphaned_document", d, "")
           W == {Finding("world_readable", e[1], "") :
                   e \in {c \in docs : hasPublic(ps.documents[c].users) \/ hasPublic(ps.documents[c].groups)}}
           O == {Finding("orphaned_document", e[1], "") :
                   e \in {c \in docs : ps.documents[c].users = {} /\ ps.documents[c].groups = {}}}
           C == CrossDepartment(ps, Owners)
           X == {Finding("overexposed_document", e[1], "") :
                   e \in {c \in docs : Cardinality(ps.documents[c].groups) > 1}}
           G == {Finding("excessive_group_access", "", g) :
                   g \in {h \in UNION {ps.documents[c].groups : c \in docs} :
                             Cardinality(ForeignOwners(ps, Owners, h)) > 1}}
<1>1. Analyze(ps, Owners) = W \union O \union C \union X \union G
  BY Zenon DEF Analyze
<1>2. f \notin W
  BY FindingsDiffer
<1>3. f \notin C
  <2>1. ASSUME f \in C PROVE FALSE
    <3>1. PICK e, g : f = Finding("cross_department_access", e, g)
      BY <2>1 DEF CrossDepartment
    <3> QED
      BY <3>1, FindingsDiffer
  <2> QED
    BY <2>1
<1>4. f \notin X
  BY FindingsDiffer
<1>5. f \notin G
  BY FindingsDiffer
<1>6. f \in O
  <2> HIDE DEF f, W, O, C, X, G
  <2> QED
    BY <1>1, <1>2, <1>3, <1>4, <1>5 DEF f
<1>7. PICK c \in docs : f = Finding("orphaned_document", c[1], "")
                        /\ ps.documents[c].users = {} /\ ps.documents[c].groups = {}
  BY <1>6
<1>8. c[1] = d
  BY <1>7, FindingsDiffer
<1> QED
  BY <1>7, <1>8 DEF Orphaned

\* A report without a finding of access across departments is good news: who views
\* the document by a group grant of its own is in the group that owns it.
LEMMA NoNewsIsGood ==
    ASSUME GraphInv, Snapped, NEW d \in Docs, NEW k, Owners[d] # "",
           \A g \in Groups : Finding("cross_department_access", d, g) \notin Analyze(job.ps, Owners),
           viewerOf(Result, userRef(k), documentRef(d))
    PROVE  \/ \E e \in DOMAIN job.ps.documents : e[1] = d /\ k \in job.ps.documents[e].users
           \/ memberOf(Result, userRef(k), Owners[d], {})
<1> DEFINE ps == job.ps
<1>1. Result = PermissionSetToTuples(ps)
  BY DEF Result
<1>2. PICK e \in DOMAIN ps.documents : e[1] = d /\ Views(ps, ps.documents[e], k)
  BY <1>1, DocumentViewers
<1>3. \A g \in ps.documents[e].groups : g \in Groups
  BY <1>2, AllRead DEF Reads
<1>4. ASSUME NEW g \in ps.documents[e].groups
      PROVE  g = Owners[d]
  BY <1>2, <1>3, NoCrossDepartment
<1> QED
  BY <1>1, <1>2, <1>4 DEF Views

\* An orphan that was found in one place is seen by exactly the viewers of its folder.
LEMMA OrphansAreSeen ==
    ASSUME NEW ps, NEW d, NEW c, NEW k,
           Finding("orphaned_document", d, "") \in Analyze(ps, Owners),
           {e \in DOMAIN ps.documents : e[1] = d} = {<<d, c>>}
    PROVE  Check(PermissionSetToTuples(ps), userRef(k), documentRef(d))
           <=> c # "" /\ Check(PermissionSetToTuples(ps), userRef(k), folderRef(c))
<1> DEFINE T == PermissionSetToTuples(ps)
           p == <<d, c>>
<1>1. \A e \in DOMAIN ps.documents : e[1] = d => e = p
  OBVIOUS
<1>2. p \in DOMAIN ps.documents /\ p[1] = d /\ p[2] = c
  OBVIOUS
<1>o. PICK o \in DOMAIN ps.documents :
          o[1] = d /\ ps.documents[o].users = {} /\ ps.documents[o].groups = {}
  <2>1. Orphaned(ps, d)
    BY OrphansAre
  <2> QED
    BY <2>1, Zenon DEF Orphaned
<1> HIDE DEF p, T
<1>3. ps.documents[p].users = {} /\ ps.documents[p].groups = {}
  BY <1>1, <1>o
<1>4. ~viewerOf(T, userRef(k), documentRef(d))
  <2>1. viewerOf(T, userRef(k), documentRef(d))
        <=> \E q \in DOMAIN ps.documents : q[1] = d /\ Views(ps, ps.documents[q], k)
    BY DocumentViewers DEF T
  <2>2. ~Views(ps, ps.documents[p], k)
    BY <1>3 DEF Views
  <2> QED
    BY <1>1, <2>1, <2>2
<1>5. Check(T, userRef(k), documentRef(d))
      <=> \/ viewerOf(T, userRef(k), documentRef(d))
          \/ \E e \in DOMAIN ps.documents :
                e[1] = d /\ e[2] # "" /\ viewerOf(T, userRef(k), folderRef(e[2]))
  BY CheckAsks DEF T
<1>6. Check(T, userRef(k), folderRef(c)) <=> viewerOf(T, userRef(k), folderRef(c))
  BY CheckAsks DEF T
<1>7. (\E e \in DOMAIN ps.documents :
          e[1] = d /\ e[2] # "" /\ viewerOf(T, userRef(k), folderRef(e[2])))
      <=> c # "" /\ viewerOf(T, userRef(k), folderRef(c))
  BY <1>1, <1>2
<1> QED
  BY <1>4, <1>5, <1>6, <1>7 DEF T

\* What a report says, and what it does not say, of access across departments and of
\* orphans.
THEOREM ReportIsTightHolds == Spec => []ReportIsTight
<1>1. ASSUME GraphInv, Snapped, NEW d \in Docs, NEW k, Owners[d] # "",
             \A g \in Groups : Finding("cross_department_access", d, g) \notin Analyze(job.ps, Owners),
             viewerOf(Result, userRef(k), documentRef(d))
      PROVE  \/ \E e \in {p \in DOMAIN job.ps.documents : p[1] = d} : k \in job.ps.documents[e].users
             \/ memberOf(Result, userRef(k), Owners[d], {})
  BY <1>1, NoNewsIsGood
<1>2. ASSUME NEW d \in Docs, NEW k, NEW c \in Folders \union {""},
             Finding("orphaned_document", d, "") \in Analyze(job.ps, Owners),
             {e \in DOMAIN job.ps.documents : e[1] = d} = {<<d, c>>}
      PROVE  Check(Result, userRef(k), documentRef(d))
             <=> c # "" /\ Check(Result, userRef(k), folderRef(c))
  <2> DEFINE ps == job.ps
  <2>1. Result = PermissionSetToTuples(ps)
    BY DEF Result
  <2> HIDE DEF ps
  <2>2. Finding("orphaned_document", d, "") \in Analyze(ps, Owners)
        /\ {e \in DOMAIN ps.documents : e[1] = d} = {<<d, c>>}
    BY <1>2 DEF ps
  <2> QED
    BY <2>1, <2>2, OrphansAreSeen
<1>3. GraphInv => ReportIsTight
  BY <1>1, <1>2, Zenon DEF ReportIsTight
<1> QED
  BY <1>3, GraphInvariant, PTL

-----------------------------------------------------------------------------
(* Check decides access as the source has it *)

\* g is in every set of groups that has those u is in, and with a group those it
\* is nested in, where M are the members of each.
InEvery(M, u, g) ==
    \A S \in SUBSET Groups :
        (\A h \in Groups : M[h] \intersect ({u} \union S) # {} => h \in S) => g \in S

\* The search graph has the edges of M.
HasEdges(N, D, C, M, u) ==
    /\ N \in SUBSET Groups /\ u \notin Groups
    /\ \A h \in Groups : u \in M[h] => h \in N /\ h \in D
    /\ \A h \in N : h \in D => u \in M[h]
    /\ \A h \in Groups : \A c \in Groups : c \in M[h] => h \in N /\ c \in C[h]
    /\ \A h \in N : \A c \in C[h] : c \in Groups /\ c \in M[h]

\* Then the search finds what membership means in the directory.
LEMMA LeastOfGroups ==
    ASSUME NEW N, NEW D, NEW C, NEW M, NEW u, HasEdges(N, D, C, M, u), NEW g \in Groups
    PROVE  g \in Least(N, D, C, {}) <=> InEvery(M, u, g)
<1> USE DEF HasEdges
<1>1. ASSUME g \in Least(N, D, C, {}), NEW S \in SUBSET Groups,
             \A h \in Groups : M[h] \intersect ({u} \union S) # {} => h \in S
      PROVE  g \in S
  <2>1. Closed(S \intersect N, N, D, C, {})
    <3> SUFFICES ASSUME NEW h \in N, h \in D \/ (\E c \in C[h] : c \in S \intersect N)
                 PROVE  h \in S
      BY DEF Closed
    <3>1. CASE h \in D
      BY <1>1, <3>1
    <3>2. CASE \E c \in C[h] : c \in S \intersect N
      BY <1>1, <3>2
    <3> QED
      BY <3>1, <3>2
  <2> QED
    BY <1>1, <2>1 DEF Least
<1>2. ASSUME InEvery(M, u, g)
      PROVE  g \in Least(N, D, C, {})
  <2> DEFINE S == Least(N, D, C, {})
  <2>1. Closed(S, N, D, C, {})
    BY LeastIsClosed
  <2>2. S \in SUBSET N
    BY DEF Least
  <2> HIDE DEF S
  <2>3. ASSUME NEW h \in Groups, M[h] \intersect ({u} \union S) # {} PROVE h \in S
    <3>1. CASE u \in M[h]
      BY <2>1, <3>1 DEF Closed
    <3>2. CASE \E c \in S : c \in M[h]
      BY <2>1, <2>2, <3>2 DEF Closed
    <3> QED
      BY <2>3, <3>1, <3>2
  <2>4. g \in S
    BY <1>2, <2>2, <2>3 DEF InEvery
  <2> QED
    BY <2>4 DEF S
<1> QED
  BY <1>1, <1>2 DEF InEvery

\* After a quiet snapshot a person with one key has exactly the grants it should.
LEMMA ReadsExactly ==
    ASSUME NEW x, NEW r, NEW o, Reads(job, x, r, o), NEW F, job.ever = F, job.always = F,
           NEW u \in People, NEW k, Known(u, k)
    PROVE  /\ k \in x.users <=> <<u, r, o>> \in F
           /\ \A g : g \in x.groups <=> g \in Groups /\ <<g, r, o>> \in F
<1>1. \A v \in People : k \in KeysOf(v, job.mails[v]) => v = u
  BY DEF Known, Keys
<1>2. KeysOf(u, job.mails[u]) = {k}
  BY DEF Known, Keys
<1> HIDE DEF KeysOf
<1> QED
  BY <1>1, <1>2 DEF Reads

\* The groups that are named in the tuples.
LEMMA NamedAre ==
    ASSUME NEW ps, NEW h
    PROVE  h \in Named(PermissionSetToTuples(ps))
           <=> h \in DOMAIN ps.groups
               /\ (ps.groups[h].users # {} \/ ps.groups[h].groups # {})
<1> DEFINE T == PermissionSetToTuples(ps)
<1>1. ASSUME NEW t \in T, t[2] = "member"
      PROVE  t[3][2] \in DOMAIN ps.groups
             /\ (ps.groups[t[3][2]].users # {} \/ ps.groups[t[3][2]].groups # {})
  <2>1. ASSUME NEW x, NEW o, t \in Granting(x, "viewer", o) PROVE FALSE
    BY <1>1, <2>1, GrantingIs
  <2>2. OfGroups(ps, t)
    <3>1. ~OfFolders(ps, t) /\ ~OfDocuments(ps, t)
      BY <2>1 DEF OfFolders, OfDocuments
    <3>2. \A a, b : t # <<a, "parent", b>>
      BY <1>1
    <3>3. ~OfParents(ps, t)
      BY <3>2 DEF OfParents
    <3> QED
      BY <3>1, <3>3, TuplesAre
  <2>3. PICK g \in DOMAIN ps.groups : t \in Granting(ps.groups[g], "member", groupRef(g))
    BY <2>2 DEF OfGroups
  <2>4. t[3] = groupRef(g) /\ (ps.groups[g].users # {} \/ ps.groups[g].groups # {})
    BY <2>3, GrantingIs
  <2>5. t[3][2] = g
    BY <2>4 DEF groupRef
  <2> QED
    BY <2>4, <2>5
<1>2. ASSUME h \in DOMAIN ps.groups, NEW s, <<s, "member", groupRef(h)>> \in T
      PROVE  h \in Named(T)
  <2> DEFINE t == <<s, "member", groupRef(h)>>
  <2>1. t[2] = "member" /\ t[3][2] = h
    BY DEF groupRef
  <2>2. t \in T
    BY <1>2
  <2> HIDE DEF t, T
  <2> QED
    BY <2>1, <2>2 DEF Named
<1>3. ASSUME h \in DOMAIN ps.groups, NEW k \in ps.groups[h].users
      PROVE  <<userRef(k), "member", groupRef(h)>> \in T
  BY <1>3, UserTuples
<1>4. ASSUME h \in DOMAIN ps.groups, NEW g \in ps.groups[h].groups
      PROVE  <<groupMembersRef(g), "member", groupRef(h)>> \in T
  BY <1>4, GroupTuples
<1>5. ASSUME h \in Named(T)
      PROVE  h \in DOMAIN ps.groups /\ (ps.groups[h].users # {} \/ ps.groups[h].groups # {})
  <2> HIDE DEF T
  <2>1. PICK t \in T : t[2] = "member" /\ h = t[3][2]
    BY <1>5 DEF Named
  <2> QED
    BY <1>1, <2>1
<1> QED
  BY <1>2, <1>3, <1>4, <1>5

\* The groups a key is directly in, and those nested in a group.
LEMMA EdgesAre ==
    ASSUME NEW ps, NEW h \in Named(PermissionSetToTuples(ps)), NEW k, NEW c
    PROVE  /\ h \in Direct(PermissionSetToTuples(ps), userRef(k)) <=> k \in ps.groups[h].users
           /\ c \in Nested(PermissionSetToTuples(ps))[h] <=> c \in ps.groups[h].groups
<1> DEFINE T == PermissionSetToTuples(ps)
<1>1. h \in DOMAIN ps.groups
  BY NamedAre
<1>2. <<userRef(k), "member", groupRef(h)>> \in T <=> k \in ps.groups[h].users
  <2>1. \A g : groupRef(h) = groupRef(g) <=> g = h
    BY DEF groupRef
  <2> QED
    BY <1>1, <2>1, UserTuples
<1>3. <<groupMembersRef(c), "member", groupRef(h)>> \in T <=> c \in ps.groups[h].groups
  <2>1. \A g : groupRef(h) = groupRef(g) <=> g = h
    BY DEF groupRef
  <2> QED
    BY <1>1, <2>1, GroupTuples
<1>4. ASSUME c \in ps.groups[h].groups PROVE c \in Nested(T)[h]
  <2> DEFINE t == <<groupMembersRef(c), "member", groupRef(h)>>
  <2>1. t[1][1] = "members" /\ t[2] = "member" /\ t[3] = groupRef(h) /\ t[1][2] = c
    BY DEF groupMembersRef
  <2>2. t \in T
    BY <1>3, <1>4
  <2> HIDE DEF t, T
  <2> QED
    BY <2>1, <2>2 DEF Nested, T
<1>5. ASSUME c \in Nested(T)[h] PROVE c \in ps.groups[h].groups
  <2>1. PICK t \in T : t[1][1] = "members" /\ t[2] = "member" /\ t[3] = groupRef(h) /\ c = t[1][2]
    BY <1>5 DEF Nested
  <2>2. t = <<groupMembersRef(c), "member", groupRef(h)>>
    BY <2>1, MembersTuples
  <2> QED
    BY <1>3, <2>1, <2>2
<1> QED
  BY <1>2, <1>4, <1>5 DEF Direct

\* memberOf finds exactly the groups that the person is in, through any nesting.
LEMMA MembershipDecided ==
    ASSUME GraphInv, Snapped, job.ever = job.always, NEW u \in People, NEW k, Known(u, k),
           NEW g \in Groups
    PROVE  memberOf(Result, userRef(k), g, {}) <=> MemberIn(u, g)
<1> DEFINE ps == job.ps
           M == dir.members
<1>1. /\ job.ever = Facts(dir) /\ job.always = Facts(dir) /\ dir \in Directories
      /\ DOMAIN ps.groups = Groups
      /\ \A h \in Groups : Reads(job, ps.groups[h], "member", h)
  BY AllRead DEF Lived
<1>2. ASSUME NEW h \in Groups
      PROVE  /\ k \in ps.groups[h].users <=> u \in M[h]
             /\ \A c : c \in ps.groups[h].groups <=> c \in Groups /\ c \in M[h]
  <2>1. /\ k \in ps.groups[h].users <=> <<u, "member", h>> \in Facts(dir)
        /\ \A c : c \in ps.groups[h].groups <=> c \in Groups /\ <<c, "member", h>> \in Facts(dir)
    BY <1>1, ReadsExactly
  <2>2. \A c : <<c, "member", h>> \in Facts(dir) <=> c \in M[h]
    BY <1>1, FactMember
  <2> QED
    BY <2>1, <2>2
<1>3. Result = PermissionSetToTuples(ps)
  BY DEF Result
<1> DEFINE N == Named(Result)
           D == Direct(Result, userRef(k))
           C == Nested(Result)
<1>4. \A h : h \in N <=> h \in Groups /\ (ps.groups[h].users # {} \/ ps.groups[h].groups # {})
  BY <1>1, <1>3, NamedAre
<1>5. ASSUME NEW h \in N
      PROVE  /\ h \in D <=> k \in ps.groups[h].users
             /\ \A c : c \in C[h] <=> c \in ps.groups[h].groups
  BY <1>3, EdgesAre
<1>6. IsFiniteSet(N)
  <2>1. N \subseteq Groups /\ IsFiniteSet(Groups)
    BY <1>4, DirectoryAssumption
  <2> QED
    BY <2>1, FS_Subset
<1>7. memberOf(Result, userRef(k), g, {}) <=> g \in Least(N, D, C, {})
  BY <1>6, memberOfFinds
<1>8. u \notin Groups
  BY DirectoryAssumption
<1> HIDE DEF N, D, C, M, ps
<1>9. N \in SUBSET Groups
  BY <1>4
<1>10. \A h \in Groups : u \in M[h] => h \in N /\ h \in D
  BY <1>2, <1>4, <1>5
<1>11. \A h \in N : h \in D => u \in M[h]
  BY <1>2, <1>4, <1>5
<1>12. \A h \in Groups : \A c \in Groups : c \in M[h] => h \in N /\ c \in C[h]
  BY <1>2, <1>4, <1>5
<1>13. \A h \in N : \A c \in C[h] : c \in Groups /\ c \in M[h]
  BY <1>2, <1>4, <1>5
<1>14. HasEdges(N, D, C, M, u)
  BY <1>8, <1>9, <1>10, <1>11, <1>12, <1>13 DEF HasEdges
<1>15. g \in Least(N, D, C, {}) <=> InEvery(M, u, g)
  BY <1>14, LeastOfGroups
<1>16. InEvery(M, u, g) <=> MemberIn(u, g)
  BY DEF InEvery, MemberIn, M
<1> QED
  BY <1>7, <1>15, <1>16

\* After a quiet snapshot every item was found, where it is and nowhere else.
LEMMA AllFound ==
    ASSUME GraphInv, Snapped, job.ever = job.always
    PROVE  /\ \A i \in Items : <<i, dir.folder[i]>> \in job.found
           /\ \A e \in job.found : e[1] \in Items /\ e[2] = dir.folder[e[1]]
<1>1. job.ever = Facts(dir) /\ job.always = Facts(dir) /\ dir \in Directories
  BY AllRead DEF Lived
<1>2. ASSUME NEW i \in Items
      PROVE  /\ dir.folder[i] \in Folders \union {""}
             /\ \A h : <<h, "parent", i>> \in Facts(dir) <=> dir.folder[i] = h
  <2>1. dir.folder[i] \in Folders \union {""}
    BY <1>1 DEF Directories
  <2>2. \A h : <<h, "parent", i>> \in Facts(dir) <=> dir.folder[i] = h
    BY <1>1, FactParent
  <2> QED
    BY <2>1, <2>2
<1>3. ASSUME NEW i \in Items
      PROVE  <<i, dir.folder[i]>> \in job.found \/ (dir.folder[i] # "" /\ Missed(dir.folder[i]))
  <2> DEFINE c == dir.folder[i]
  <2>1. c \in Folders \union {""} /\ <<c, "parent", i>> \in job.always
    BY <1>1, <1>2
  <2> HIDE DEF c
  <2>2. <<i, c>> \in job.found \/ (c # "" /\ Missed(c))
    BY <2>1, AllRead
  <2> QED
    BY <2>2 DEF c
<1> DEFINE S == {f \in Folders : Missed(f)}
<1>4. ASSUME NEW f \in S PROVE dir.folder[f] \in S
  <2>1. <<f, dir.folder[f]>> \notin job.found
    <3>1. <<f, dir.folder[f]>>[1] = f
      OBVIOUS
    <3> QED
      BY <3>1, <1>4 DEF Missed
  <2> QED
    BY <1>2, <1>3, <1>4, <2>1 DEF Items
<1>5. S \in SUBSET Folders /\ Tree(dir.folder)
  BY AllRead
<1>6. S = {}
  <2> HIDE DEF S
  <2> QED
    BY <1>4, <1>5 DEF Tree
<1>7. \A i \in Items : <<i, dir.folder[i]>> \in job.found
  BY <1>2, <1>3, <1>6
<1>8. ASSUME NEW e \in job.found PROVE e[1] \in Items /\ e[2] = dir.folder[e[1]]
  <2>1. e \in Items \X (Folders \union {""}) /\ <<e[2], "parent", e[1]>> \in Facts(dir)
    BY <1>1, AllRead
  <2> DEFINE i == e[1]
             c == e[2]
  <2>2. i \in Items /\ <<c, "parent", i>> \in Facts(dir)
    BY <2>1
  <2> HIDE DEF i, c
  <2>3. dir.folder[i] = c
    BY <1>2, <2>2, Zenon
  <2> QED
    BY <2>2, <2>3 DEF i, c
<1> QED
  BY <1>7, <1>8

\* Who views an item by a grant of its own may read it, and the other way round.
LEMMA ViewingDecided ==
    ASSUME GraphInv, Snapped, job.ever = job.always, NEW u \in People, NEW k, Known(u, k)
    PROVE  /\ \A d \in Docs : viewerOf(Result, userRef(k), documentRef(d)) <=> MayRead(u, d)
           /\ \A f \in Folders : viewerOf(Result, userRef(k), folderRef(f)) <=> MayRead(u, f)
<1> DEFINE ps == job.ps
<1>1. /\ job.ever = Facts(dir) /\ job.always = Facts(dir) /\ dir \in Directories
      /\ DOMAIN ps.folders = {e \in job.found : e[1] \in Folders}
      /\ DOMAIN ps.documents = {e \in job.found : e[1] \in Docs}
      /\ \A e \in DOMAIN ps.folders : Reads(job, ps.folders[e], "viewer", e[1])
      /\ \A e \in DOMAIN ps.documents : Reads(job, ps.documents[e], "viewer", e[1])
  BY AllRead DEF Lived
<1>r. Result = PermissionSetToTuples(ps)
  BY DEF Result
<1>2. ASSUME NEW x, NEW i \in Items, Reads(job, x, "viewer", i)
      PROVE  Views(ps, x, k) <=> MayRead(u, i)
  <2>1. /\ k \in x.users <=> <<u, "viewer", i>> \in Facts(dir)
        /\ \A g : g \in x.groups <=> g \in Groups /\ <<g, "viewer", i>> \in Facts(dir)
    BY <1>1, <1>2, ReadsExactly
  <2>2. \A s \in Subjects : <<s, "viewer", i>> \in Facts(dir) <=> s \in Readers(i)
    BY <1>1, FactViewer DEF Readers
  <2>3. u \in Subjects /\ Groups \subseteq Subjects
    BY DEF Subjects
  <2>4. /\ k \in x.users <=> u \in Readers(i)
        /\ \A g : g \in x.groups <=> g \in Groups /\ g \in Readers(i)
    BY <2>1, <2>2, <2>3
  <2>5. \A g \in Groups : memberOf(Result, userRef(k), g, {}) <=> MemberIn(u, g)
    BY MembershipDecided
  <2> QED
    BY <1>r, <2>4, <2>5 DEF MayRead, Views
<1>3. ASSUME NEW i \in Items PROVE \E e \in job.found : e[1] = i
  <2>1. <<i, dir.folder[i]>> \in job.found /\ <<i, dir.folder[i]>>[1] = i
    BY AllFound
  <2> QED
    BY <2>1
<1>4. ASSUME NEW d \in Docs
      PROVE  viewerOf(Result, userRef(k), documentRef(d)) <=> MayRead(u, d)
  <2>1. viewerOf(Result, userRef(k), documentRef(d))
        <=> \E e \in DOMAIN ps.documents : e[1] = d /\ Views(ps, ps.documents[e], k)
    BY <1>r, DocumentViewers
  <2>2. d \in Items
    BY DEF Items
  <2>3. \A e \in DOMAIN ps.documents : e[1] = d => (Views(ps, ps.documents[e], k) <=> MayRead(u, d))
    BY <1>1, <1>2, <2>2
  <2>4. \E e \in DOMAIN ps.documents : e[1] = d
    BY <1>1, <1>3, <2>2
  <2> QED
    BY <2>1, <2>3, <2>4
<1>5. ASSUME NEW f \in Folders
      PROVE  viewerOf(Result, userRef(k), folderRef(f)) <=> MayRead(u, f)
  <2>1. viewerOf(Result, userRef(k), folderRef(f))
        <=> \E e \in DOMAIN ps.folders : e[1] = f /\ Views(ps, ps.folders[e], k)
    BY <1>r, FolderViewers
  <2>2. f \in Items
    BY DEF Items
  <2>3. \A e \in DOMAIN ps.folders : e[1] = f => (Views(ps, ps.folders[e], k) <=> MayRead(u, f))
    BY <1>1, <1>2, <2>2
  <2>4. \E e \in DOMAIN ps.folders : e[1] = f
    BY <1>1, <1>3, <2>2
  <2> QED
    BY <2>1, <2>3, <2>4
<1> QED
  BY <1>4, <1>5

\* Access is decided as the source has it: after a snapshot of a directory that
\* did not change, Check grants a person with one key, which nobody else had,
\* exactly the documents that it may read itself or in their folder, through any
\* nesting of groups, cycles too.
THEOREM CheckDecidesHolds == Spec => []CheckDecides
<1>1. ASSUME GraphInv, Snapped, job.ever = job.always, NEW u \in People, NEW d \in Docs, NEW k,
             Known(u, k)
      PROVE  Check(Result, userRef(k), documentRef(d))
             <=> MayRead(u, d) \/ (dir.folder[d] # "" /\ MayRead(u, dir.folder[d]))
  <2> DEFINE ps == job.ps
             h == dir.folder[d]
  <2>1. /\ dir \in Directories /\ DOMAIN ps.documents = {e \in job.found : e[1] \in Docs}
        /\ Result = PermissionSetToTuples(ps) /\ d \in Items
    BY <1>1, AllRead DEF Result, Items
  <2>2. h \in Folders \union {""}
    BY <2>1 DEF Directories
  <2>3. <<d, h>> \in DOMAIN ps.documents /\ <<d, h>>[1] = d /\ <<d, h>>[2] = h
    BY <1>1, <2>1, AllFound
  <2>4. \A e \in DOMAIN ps.documents : e[1] = d => e[2] = h
    BY <1>1, <2>1, AllFound
  <2>5. Check(Result, userRef(k), documentRef(d))
        <=> \/ viewerOf(Result, userRef(k), documentRef(d))
            \/ \E e \in DOMAIN ps.documents :
                  e[1] = d /\ e[2] # "" /\ viewerOf(Result, userRef(k), folderRef(e[2]))
    BY <2>1, CheckAsks
  <2> HIDE DEF h, ps
  <2>6. (\E e \in DOMAIN ps.documents :
            e[1] = d /\ e[2] # "" /\ viewerOf(Result, userRef(k), folderRef(e[2])))
        <=> h # "" /\ viewerOf(Result, userRef(k), folderRef(h))
    BY <2>3, <2>4
  <2>7. /\ viewerOf(Result, userRef(k), documentRef(d)) <=> MayRead(u, d)
        /\ h \in Folders => (viewerOf(Result, userRef(k), folderRef(h)) <=> MayRead(u, h))
    BY <1>1, ViewingDecided
  <2>8. Check(Result, userRef(k), documentRef(d)) <=> MayRead(u, d) \/ (h # "" /\ MayRead(u, h))
    BY <2>2, <2>5, <2>6, <2>7
  <2> QED
    BY <2>8 DEF h
<1>2. GraphInv => CheckDecides
  BY <1>1 DEF CheckDecides
<1> QED
  BY <1>2, GraphInvariant, PTL

=============================================================================
