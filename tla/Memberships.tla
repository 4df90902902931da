----------------------------- MODULE Memberships -----------------------------
(***************************************************************************)
(* Groups, their members and their invitations: the tables                 *)
(* consumer_groups, user_consumer_groups and group_invitations.  A row of  *)
(* a member has three flags for its roles, which are written together and  *)
(* are one column here, and a fourth that says whether the group is the    *)
(* default of the user.  Invitations are never deleted:                    *)
(* cleanupExpiredInvitations has no caller.                                *)
(***************************************************************************)
EXTENDS Accounts

CONSTANTS
    Groups,        \* ids, in the order in which groups are created
    GroupEmails,
    Roles,         \* the combinations of flags, "manager" and "preparer" among them
    Invitations    \* ids with their tokens

ASSUME MembershipsAssumption ==
    /\ Groups \subseteq Nat
    /\ {"manager", "preparer", "client"} \subseteq Roles

VARIABLES
    group,        \* the rows of consumer_groups
    member,       \* the rows of user_consumer_groups, by user and group
    invitation,   \* the rows of group_invitations
    late,         \* the invitations that expire have expired
    spent         \* history: expiring invitations whose use has been answered

membershipVars == <<group, member, invitation, late, spent>>

GroupRow == [email : GroupEmails, isActive : BOOLEAN]

MemberRow == [id : 1..Copies, role : Roles, isDefault : BOOLEAN]

\* In `to` the user invited, or Anybody.
Anybody == "anybody"

InvitationRow ==
    [group : Groups, to : Users \cup {Anybody}, role : Roles, expires : BOOLEAN, isUsed : BOOLEAN]

\* user_consumer_groups has rows for users and groups that exist: its foreign keys.
Refers(k) == k[1] \in DOMAIN user /\ k[2] \in DOMAIN group

GroupsOf(u) == {k \in DOMAIN member : k[1] = u}

IsManager(u, g) == <<u, g>> \in DOMAIN member /\ member[<<u, g>>].role = "manager"

IsPreparer(u, g) == <<u, g>> \in DOMAIN member /\ member[<<u, g>>].role = "preparer"

IsMember(u, g) == <<u, g>> \in DOMAIN member

\* The guards of managers and of preparers: they take the group from what is sent before
\* they take that of the URL, so that any group of the user will do.
PassesManager(u) == \E g \in DOMAIN group : IsManager(u, g)

PassesPreparer(u) == \E g \in DOMAIN group : IsManager(u, g) \/ IsPreparer(u, g)

IsAdmin(u) == u \in DOMAIN user /\ user[u].admin

-----------------------------------------------------------------------------
(* Groups *)

Taken(email, g) == \E x \in DOMAIN group \ {g} : group[x].email = email

\* create, by a user or by an administrator for a manager who may not exist.
Create(h, u, email) ==
    /\ ~\E g \in DOMAIN group : group[g].email = email
    /\ Goes(h, [at |-> "insertGroup", kind |-> "create", who |-> u, email |-> email])
    /\ UNCHANGED membershipVars

InsertGroup(h) ==
    LET r == request[h]
    IN  /\ At(h, "insertGroup")
        /\ \/ /\ \E g \in DOMAIN group : group[g].email = r.email
              /\ Ends(h)
              /\ UNCHANGED group
           \/ /\ ~\E g \in DOMAIN group : group[g].email = r.email
              /\ \E g \in Groups \ DOMAIN group :
                    /\ \A x \in Groups \ DOMAIN group : g <= x
                    /\ \A x \in Handlers : "id" \in DOMAIN request[x] => request[x].id # g
                    /\ group' = Put(group, g, [email |-> r.email, isActive |-> TRUE])
                    /\ Goes(h, [at |-> "insertManager", kind |-> "create", who |-> r.who,
                                email |-> r.email, id |-> g, key |-> <<r.who, g>>])
        /\ UNCHANGED <<member, invitation, late, spent>>

\* The creator becomes a manager, with the group as default beside other defaults; one who
\* is not a user is refused, and the group stays.
InsertManager(h) ==
    LET r == request[h]
        row == [id |-> FreshId(r.key), role |-> "manager", isDefault |-> TRUE]
    IN  /\ At(h, "insertManager")
        /\ member' = IF Refers(r.key) THEN Inserted(member, r.key, row) ELSE member
        /\ Ends(h)
        /\ UNCHANGED <<group, invitation, late, spent>>

\* update and updateImage, by a manager or an administrator.
Update(h, u, g, email) ==
    /\ PassesManager(u) \/ IsAdmin(u)
    /\ g \in DOMAIN group
    /\ ~Taken(email, g)
    /\ Goes(h, [at |-> "saveGroup", kind |-> "group", id |-> g,
                group |-> [group[g] EXCEPT !.email = email]])
    /\ UNCHANGED membershipVars

\* updateStatus, by an administrator.
UpdateStatus(h, g, isActive) ==
    /\ g \in DOMAIN group
    /\ Goes(h, [at |-> "saveGroup", kind |-> "group", id |-> g,
                group |-> [group[g] EXCEPT !.isActive = isActive]])
    /\ UNCHANGED membershipVars

\* A mutant of SaveGroup: the index of e-mails is not unique.
SaveAnyGroup(h) ==
    LET r == request[h]
    IN  /\ At(h, "saveGroup")
        /\ group' = Put(group, r.id, r.group)
        /\ Ends(h)
        /\ UNCHANGED <<member, invitation, late, spent>>

\* The group is saved as it was read, and inserted again if it is gone.
SaveGroup(h) ==
    LET r == request[h]
    IN  /\ At(h, "saveGroup")
        /\ group' = IF Taken(r.group.email, r.id) THEN group ELSE Put(group, r.id, r.group)
        /\ Ends(h)
        /\ UNCHANGED <<member, invitation, late, spent>>

\* A mutant of Delete: members stay.
DeleteOnly(h, u, g) ==
    /\ PassesManager(u) \/ IsAdmin(u)
    /\ g \in DOMAIN group
    /\ group' = Without(group, {g})
    /\ Ends(h)
    /\ UNCHANGED <<member, invitation, late, spent>>

\* Members go by ON DELETE CASCADE; invitations have no key and stay.
Delete(h, u, g) ==
    /\ PassesManager(u) \/ IsAdmin(u)
    /\ g \in DOMAIN group
    /\ group' = Without(group, {g})
    /\ member' = Without(member, {k \in DOMAIN member : k[2] = g})
    /\ Ends(h)
    /\ UNCHANGED <<invitation, late, spent>>

-----------------------------------------------------------------------------
(* Members *)

\* addMember, for a request r: its reads, and whether the group is the first of the user.
AddMember(h, r) ==
    /\ Refers(r.key)
    /\ r.key \notin DOMAIN member
    /\ Goes(h, [r EXCEPT !.isDefault = GroupsOf(r.key[1]) = {}])
    /\ UNCHANGED membershipVars

\* joinGroup, by a manager.
JoinGroup(h, m, u, g, role) ==
    /\ PassesManager(m)
    /\ AddMember(h, [at |-> "insertMember", kind |-> "join", key |-> <<u, g>>, role |-> role,
                     isDefault |-> FALSE, expires |-> FALSE])

\* The INSERT, or its refusal; an invitation that expires is marked next.
InsertMember(h) ==
    LET r == request[h]
        row == [id |-> FreshId(r.key), role |-> r.role, isDefault |-> r.isDefault]
        joins == Refers(r.key) /\ r.key \notin DOMAIN member
    IN  /\ At(h, "insertMember")
        /\ member' = IF joins THEN Inserted(member, r.key, row) ELSE member
        /\ IF joins /\ r.expires
           THEN Goes(h, [at |-> "mark", kind |-> "use", key |-> r.key, role |-> r.role,
                         expires |-> TRUE, invitation |-> r.invitation])
           ELSE Ends(h)
        /\ UNCHANGED <<group, invitation, late, spent>>

\* removeMember by a manager, and leaveGroup.
RemoveMember(h, m, u, g) ==
    /\ PassesManager(m) \/ m = u
    /\ IsMember(u, g)
    /\ member' = Without(member, {<<u, g>>})
    /\ Ends(h)
    /\ UNCHANGED <<group, invitation, late, spent>>

UpdateMemberRole(h, m, u, g, role) ==
    /\ PassesManager(m)
    /\ IsMember(u, g)
    /\ Goes(h, [at |-> "saveMember", kind |-> "role", key |-> <<u, g>>,
                row |-> [member[<<u, g>>] EXCEPT !.role = role]])
    /\ UNCHANGED membershipVars

SetDefaultGroup(h, u, g) ==
    /\ IsMember(u, g)
    /\ Goes(h, [at |-> "clear", kind |-> "default", key |-> <<u, g>>,
                row |-> [member[<<u, g>>] EXCEPT !.isDefault = TRUE]])
    /\ UNCHANGED membershipVars

\* A mutant of ClearDefaults: only one of the defaults is cleared.
ClearOneDefault(h) ==
    LET r == request[h]
        defaults == {k \in GroupsOf(r.key[1]) : member[k].isDefault}
        one == CHOOSE k \in defaults : \A x \in defaults : k[2] <= x[2]
    IN  /\ At(h, "clear")
        /\ member' = [k \in DOMAIN member |->
                         IF k \in defaults /\ k = one
                         THEN [member[k] EXCEPT !.isDefault = FALSE] ELSE member[k]]
        /\ Goes(h, [at |-> "saveMember", kind |-> "default", key |-> r.key, row |-> r.row])
        /\ UNCHANGED <<group, invitation, late, spent>>

\* Remove default from all user groups.
ClearDefaults(h) ==
    LET r == request[h]
    IN  /\ At(h, "clear")
        /\ member' = [k \in DOMAIN member |->
                         IF k[1] = r.key[1]
                         THEN [member[k] EXCEPT !.isDefault = FALSE] ELSE member[k]]
        /\ Goes(h, [at |-> "saveMember", kind |-> "default", key |-> r.key, row |-> r.row])
        /\ UNCHANGED <<group, invitation, late, spent>>

\* The member is saved as it was read: with the role or the default it had then, and
\* again if it was removed.
SaveMember(h) ==
    LET r == request[h]
    IN  /\ At(h, "saveMember")
        /\ member' = IF Refers(r.key) THEN Saved(member, r.key, r.row) ELSE member
        /\ Ends(h)
        /\ UNCHANGED <<group, invitation, late, spent>>

-----------------------------------------------------------------------------
(* Invitations *)

CreateInvitation(h, m, i, row) ==
    /\ PassesManager(m)
    /\ row.group \in DOMAIN group
    /\ i \notin DOMAIN invitation /\ ~row.isUsed
    /\ invitation' = Put(invitation, i, row)
    /\ Ends(h)
    /\ UNCHANGED <<group, member, late, spent>>

\* validateInvitation: what expires is for one use, what does not is for many.
IsValid(i) == invitation[i].expires => ~invitation[i].isUsed /\ ~late

UseInvitation(h, u, i) ==
    /\ i \in DOMAIN invitation
    /\ IsValid(i)
    /\ invitation[i].to \in {u, Anybody}
    /\ AddMember(h, [at |-> "insertMember", kind |-> "use", key |-> <<u, invitation[i].group>>,
                     role |-> invitation[i].role, isDefault |-> FALSE,
                     expires |-> invitation[i].expires, invitation |-> i])

\* A mutant of MarkUsed: only invitations for somebody are marked.
MarkPersonal(h) ==
    LET i == request[h].invitation
    IN  /\ At(h, "mark")
        /\ invitation' = IF invitation[i].to = Anybody THEN invitation
                         ELSE [invitation EXCEPT ![i].isUsed = TRUE]
        /\ spent' = spent \cup {i}
        /\ Ends(h)
        /\ UNCHANGED <<group, member, late>>

\* The save of the invitation, which nothing else changes.
MarkUsed(h) ==
    LET i == request[h].invitation
    IN  /\ At(h, "mark")
        /\ invitation' = [invitation EXCEPT ![i].isUsed = TRUE]
        /\ spent' = spent \cup {i}
        /\ Ends(h)
        /\ UNCHANGED <<group, member, late>>

\* Time passes.
Expire ==
    /\ ~late
    /\ \E i \in DOMAIN invitation : invitation[i].expires
    /\ late' = TRUE
    /\ UNCHANGED <<group, member, invitation, spent, request, kinds>>

-----------------------------------------------------------------------------

GroupRequest(h) ==
    \/ Begins(h, "create") /\ \E u \in Users, email \in GroupEmails : Create(h, u, email)
    \/ /\ Begins(h, "group")
       /\ \E g \in DOMAIN group :
             \/ \E u \in DOMAIN user, email \in GroupEmails : Update(h, u, g, email)
             \/ \E isActive \in BOOLEAN : UpdateStatus(h, g, isActive)
    \/ Begins(h, "delete") /\ \E u \in DOMAIN user, g \in DOMAIN group : Delete(h, u, g)

MemberRequest(h) ==
    \/ /\ Begins(h, "join")
       /\ \E m \in DOMAIN user, u \in Users, g \in DOMAIN group, role \in {"client", "manager"} :
             JoinGroup(h, m, u, g, role)
    \/ /\ Begins(h, "leave")
       /\ \E m \in DOMAIN user, k \in DOMAIN member : RemoveMember(h, m, k[1], k[2])
    \/ /\ Begins(h, "role")
       /\ \E m \in DOMAIN user, k \in DOMAIN member, role \in Roles :
             UpdateMemberRole(h, m, k[1], k[2], role)
    \/ Begins(h, "default") /\ \E k \in DOMAIN member : SetDefaultGroup(h, k[1], k[2])
    \/ /\ Begins(h, "invite")
       /\ \E m \in DOMAIN user, i \in Invitations, row \in InvitationRow :
             CreateInvitation(h, m, i, row)
    \/ /\ Begins(h, "use")
       /\ \E u \in DOMAIN user, i \in DOMAIN invitation : UseInvitation(h, u, i)

MembershipsNext ==
    \/ \E h \in Handlers :
          \/ GroupRequest(h) \/ MemberRequest(h)
          \/ InsertGroup(h) \/ InsertManager(h) \/ SaveGroup(h)
          \/ InsertMember(h) \/ ClearDefaults(h) \/ SaveMember(h) \/ MarkUsed(h)
    \/ Expire

-----------------------------------------------------------------------------
(* Properties *)

\* Nobody is a member of a group, or has a session, who or which is not there, whatever was
\* deleted while a request was about to write: users, groups, members and tokens agree.
MembersExist ==
    /\ \A k \in DOMAIN member : Refers(k)
    /\ \A k \in DOMAIN token : k[1] \in DOMAIN user

\* Once a use of an invitation that expires has been answered, no use of it begins: the
\* invitation stays marked through all that other uses of it still save, and restarts.
UsedUpInvitations ==
    \A i \in spent : i \in DOMAIN invitation /\ ~IsValid(i)

\* A user has at most one default group, as the unique index of the database schema says and
\* the comment of create, that the first group is default: create makes every new group one.
OneDefaultGroup ==
    \A j, k \in DOMAIN member :
        j[1] = k[1] /\ member[j].isDefault /\ member[k].isDefault => j = k
=============================================================================
