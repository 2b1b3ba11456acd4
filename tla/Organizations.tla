----------------------------- MODULE Organizations -----------------------------
(***************************************************************************)
(* The tree of organizations and its members: the endpoints of              *)
(* api/v1/endpoints/organizations.py over services/organization_service.py. *)
(*                                                                          *)
(* The service flushes and leaves the commit to its caller; the endpoints   *)
(* that create, change and delete organizations do not commit, nor does     *)
(* get_db when the request is over.  What they did is seen in their own     *)
(* transaction and in the audit log, which has a session of its own.  The   *)
(* endpoints for members commit.                                            *)
(***************************************************************************)
EXTENDS Integers, FiniteSets, Functions

CONSTANTS
    Org,        \* ids of organizations
    Default,    \* the organization that the program creates by itself
    User,       \* ids of users
    MaxChanges, \* bound on the changes of memberships
    None

OrganizationsAssumption ==
    None \notin Org /\ Default \in Org /\ MaxChanges \in Nat /\ IsFiniteSet(Org)

VARIABLES
    stored,  \* the committed rows: a function from ids to parent and level
    view,    \* what the open transaction sees, or None
    moved,   \* an organization was put under one of its own (in the view)
    member,  \* users.organization_id of each user
    audited, \* the audit log says that an organization was deleted
    changes

vars == <<stored, view, moved, member, audited, changes>>

Row == [parent : Org \cup {None}, level : Nat]

Parents == UNION {[orgs -> orgs \cup {None}] : orgs \in SUBSET Org}

\* An organization with all above it: the least set that holds the organization and
\* the parent of each that it holds.
Path(parent, o) ==
    {a \in DOMAIN parent :
        \A up \in SUBSET DOMAIN parent :
            o \in up /\ (\A x \in up : parent[x] = None \/ parent[x] \in up) => a \in up}

\* The level of a root: the default organization is created with level 0.
RootLevel(o) == IF o = Default THEN 0 ELSE 1

\* The trees that number their levels from the root.
Trees ==
    {[o \in DOMAIN parent |->
        [parent |-> parent[o],
         level |-> LET path == Path(parent, o)
                       root == {r \in path : parent[r] = None}
                   IN  Cardinality(path) - (IF Default \in root THEN 1 ELSE 0)]] :
        parent \in {p \in Parents : \A o \in DOMAIN p :
                                      p[o] = None \/ o \notin Path(p, p[o])}}

ParentsOf(tree) == [o \in DOMAIN tree |-> tree[o].parent]

\* An organization and those below it: _get_all_children_ids.
Subtree(tree, o) == {d \in DOMAIN tree : o \in Path(ParentsOf(tree), d)}

TypeOK ==
    /\ \E orgs \in SUBSET Org : stored \in [orgs -> Row]
    /\ view # None => \E orgs \in SUBSET Org : view \in [orgs -> Row]
    /\ moved \in BOOLEAN
    /\ member \in [User -> Org \cup {None}]
    /\ audited \in BOOLEAN
    /\ changes \in 0 .. MaxChanges

\* The default organization apart, they were put into the database by hand.
Init ==
    /\ stored \in Trees
    /\ view = None /\ moved = FALSE
    /\ member \in [User -> {None} \cup DOMAIN stored]
    /\ audited = FALSE /\ changes = 0

\* _ensure_default_org at the start, and the first upload (documents.py): these commit.
CreateDefault ==
    /\ stored = <<>>
    /\ stored' = [o \in {Default} |-> [parent |-> None, level |-> 0]]
    /\ UNCHANGED <<view, moved, member, audited, changes>>

\* The parent's level and one more; 1 without a parent.
LevelUnder(tree, p) == IF p = None THEN 1 ELSE tree[p].level + 1

With(o, p) ==
    [x \in DOMAIN stored \cup {o} |->
        IF x = o THEN [parent |-> p, level |-> LevelUnder(stored, p)] ELSE stored[x]]

\* create_organization; an unknown parent violates the foreign key, a known name is
\* refused.
Create(o, p) ==
    /\ view = None
    /\ o \notin DOMAIN stored /\ p \in DOMAIN stored \cup {None}
    /\ view' = With(o, p)
    /\ UNCHANGED <<stored, moved, member, audited, changes>>

\* Mutant: only the children of the organization get a new level.
MovedWithChildren(o, p) ==
    LET level == LevelUnder(stored, p)
    IN  [x \in DOMAIN stored |->
            CASE x = o -> [parent |-> p, level |-> level]
              [] stored[x].parent = o -> [stored[x] EXCEPT !.level = level + 1]
              [] OTHER -> stored[x]]

\* Levels are set first, down the old tree (_update_children_levels).
Moved(o, p) ==
    LET level == LevelUnder(stored, p)
        below(x) == stored[x].level - stored[o].level
    IN  [x \in DOMAIN stored |->
            IF x \notin Subtree(stored, o) THEN stored[x]
            ELSE [parent |-> IF x = o THEN p ELSE stored[x].parent,
                  level |-> level + below(x)]]

\* update_organization with a new parent, which is not the organization itself but may
\* be below it.
Move(o, p) ==
    /\ view = None
    /\ o \in DOMAIN stored /\ p \in (DOMAIN stored \cup {None}) \ {o}
    /\ p # stored[o].parent
    /\ view' = Moved(o, p)
    /\ moved' = (p \in Subtree(stored, o))
    /\ UNCHANGED <<stored, member, audited, changes>>

Gone(orgs) == UNION {Subtree(stored, o) : o \in orgs}

\* delete_organization and batch_delete_organizations: the organizations with all
\* below them; a member or a document of one of them violates a foreign key, and
\* nothing is deleted or logged.  The log is committed at once.
Delete(orgs) ==
    /\ view = None
    /\ orgs \subseteq DOMAIN stored /\ orgs # {}
    /\ \A u \in User : member[u] \notin Gone(orgs)
    /\ view' = Restrict(stored, DOMAIN stored \ Gone(orgs))
    /\ audited' = TRUE
    /\ UNCHANGED <<stored, moved, member, changes>>

\* The response says it is done; the session is closed, the transaction rolled back.
End ==
    /\ view # None
    /\ view' = None /\ moved' = FALSE
    /\ UNCHANGED <<stored, member, audited, changes>>

ChangeMember(u, o) ==
    /\ changes < MaxChanges
    /\ member' = [member EXCEPT ![u] = o]
    /\ changes' = changes + 1
    /\ UNCHANGED <<stored, view, moved, audited>>

\* add_organization_member, also from another organization.
AddMember(u, o) == o \in DOMAIN stored /\ o # member[u] /\ ChangeMember(u, o)

\* remove_organization_member
RemoveMember(u) == member[u] # None /\ ChangeMember(u, None)

Next ==
    \/ CreateDefault
    \/ \E o \in Org, p \in Org \cup {None} : Create(o, p) \/ Move(o, p)
    \/ \E orgs \in SUBSET Org : Delete(orgs)
    \/ End
    \/ \E u \in User : RemoveMember(u) \/ \E o \in Org : AddMember(u, o)

Spec == Init /\ [][Next]_vars

---------------------------------------------------------------------------
(* Properties.                                                             *)

\* Every parent exists, and levels count from the root.
Consistent(tree) ==
    \A o \in DOMAIN tree :
        LET p == tree[o].parent
        IN  IF p = None THEN tree[o].level \in {RootLevel(o), 1}
            ELSE p \in DOMAIN tree /\ tree[o].level = tree[p].level + 1

\* In its transaction a request that creates, moves or deletes leaves a tree whose
\* parents exist and whose levels count from the root, unless it has put an
\* organization under one of its own, which nothing refuses; and only memberships
\* outlive their request, which always are in an organization that exists.
TreeStaysWhole ==
    /\ Consistent(stored)
    /\ view # None /\ ~moved => Consistent(view)
    /\ \A u \in User : member[u] # None => member[u] \in DOMAIN stored

\* The inductive invariant: the rows are those of a function, and the tree is whole.
IInv ==
    /\ \E orgs \in SUBSET Org : stored \in [orgs -> [parent : Org \cup {None}, level : Int]]
    /\ TreeStaysWhole
=============================================================================
