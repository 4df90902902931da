----------------------------- MODULE Community -----------------------------
(***************************************************************************)
(* Accounts, memberships and basket schedules as one server answers them,  *)
(* with the deletions that the foreign keys carry from one table to the    *)
(* next, and restarts that forget the requests of that moment.             *)
(***************************************************************************)
EXTENDS BasketSchedule

CONSTANT Scenes        \* the kinds of requests that arrive, with the tables of the start

ASSUME CommunityAssumption ==
    \A s \in Scenes :
        /\ IsTable(s.user, Users, UserRow) /\ IsTable(s.group, Groups, GroupRow)
        /\ \A u, x \in DOMAIN s.user : s.user[u].id = s.user[x].id => u = x
        /\ \A g, x \in DOMAIN s.group : s.group[g].email = s.group[x].email => g = x
        /\ IsTable(s.member, (DOMAIN s.user) \X (DOMAIN s.group), MemberRow)
        /\ IsTable(s.invitation, Invitations, InvitationRow)

VARIABLE was           \* history: the tables when a request began, while nobody changed them

tables == <<user, token, group, member, invitation, vote, turn, config>>

vars == <<tables, loginEnabled, now, ended, late, spent, request, kinds, was>>

Plain(table, column) == [k \in DOMAIN table |-> table[k][column]]

Profiles(table) == [u \in DOMAIN table |-> Says(table[u])]

\* What the tables say, without the ids of rows.
Tables ==
    [user |-> Profiles(user), token |-> token, group |-> group,
     role |-> Plain(member, "role"), isDefault |-> Plain(member, "isDefault"),
     isUsed |-> Plain(invitation, "isUsed"),
     vote |-> Plain(vote, "status"), turn |-> Plain(turn, "user"), config |-> config]

Init ==
    /\ request = [h \in Handlers |-> Idle]
    /\ \E s \in Scenes :
          /\ kinds = s.kinds
          /\ user = s.user /\ group = s.group /\ member = s.member /\ invitation = s.invitation
    /\ token = <<>> /\ ended = {} /\ loginEnabled = TRUE /\ now = 0
    /\ late = FALSE /\ spent = {}
    /\ vote = <<>> /\ turn = <<>> /\ config = <<>>
    /\ was = [h \in Handlers |-> {}]

-----------------------------------------------------------------------------
(* Deletions that foreign keys carry on *)

\* The users whom the foreign key of members refers to.
Referred == {k[1] : k \in DOMAIN member}

CascadeUsers ==
    /\ member' = [k \in {x \in DOMAIN member : x[1] \in DOMAIN user'} |-> member[k]]
    /\ UNCHANGED <<group, invitation, late, spent, basketVars>>

CascadeGroups ==
    /\ vote' = [k \in {x \in DOMAIN vote : x[1] \in DOMAIN group'} |-> vote[k]]
    /\ turn' = [k \in {x \in DOMAIN turn : x[1] \in DOMAIN group'} |-> turn[k]]
    /\ config' = [g \in DOMAIN config \cap DOMAIN group' |-> config[g]]
    /\ UNCHANGED accountVars

\* The process stops and starts, once: what it was doing is not done.
Restart ==
    /\ "restart" \in kinds
    /\ \E h \in Handlers : request[h] # Idle
    /\ request' = [h \in Handlers |-> Idle]
    /\ kinds' = kinds \ {"restart"}
    /\ UNCHANGED <<accountVars, membershipVars, basketVars>>

Step ==
    \/ AccountsNext(Referred) /\ CascadeUsers
    \/ MembershipsNext /\ CascadeGroups
    \/ BasketNext /\ UNCHANGED <<accountVars, membershipVars>>
    \/ Restart

Begun(h) == request[h] = Idle /\ request'[h] # Idle

Answered(h) == request[h] # Idle /\ request'[h] = Idle /\ kinds' = kinds

\* A request is watched from what it reads first until somebody else changes a table.
Watch ==
    was' = [h \in Handlers |->
               CASE Begun(h) -> {Tables}
                 [] request'[h] = Idle -> {}
                 [] request'[h] = request[h] /\ tables' # tables -> {}
                 [] OTHER -> was[h]]

Next == Step /\ Watch

Spec == Init /\ [][Next]_vars

-----------------------------------------------------------------------------
(* What a request does to tables t that nobody else changes *)

\* The sessions when one is made: a token that is signed twice in its second is refused.
WithSession(sessions, k) == Inserted(sessions, k, FALSE)

\* An e-mail that others have, or that tokens or members refer to, is not changed.
CannotMove(r, t) ==
    /\ r.to # r.who
    /\ r.to \in DOMAIN t.user \/ \E k \in DOMAIN t.token \cup DOMAIN t.role : k[1] = r.who

\* What create does for a manager who is no user, and for one who has a default group, is no
\* promise: a group that nobody manages, and a default beside the other.
Promises(r, t) ==
    r.kind = "create" => r.who \in DOMAIN t.user /\ \A k \in DOMAIN t.role :
                                                    k[1] = r.who => ~t.isDefault[k]

Promised(r, t) ==
    LET put(f, x) == Put(f, r.key, x)
    IN  CASE r.kind = "register" ->
               [t EXCEPT !.user = Put(t.user, r.who, Says(r)),
                         !.token = WithSession(t.token, r.new)]
          [] r.kind = "createUser" -> [t EXCEPT !.user = Put(t.user, r.who, Says(r))]
          [] r.kind = "login" -> [t EXCEPT !.token = WithSession(t.token, r.new)]
          [] r.kind = "refresh" ->
               [t EXCEPT !.token = WithSession([t.token EXCEPT ![r.old] = TRUE], r.new)]
          [] r.kind = "logout" -> [t EXCEPT !.token[r.old] = TRUE]
          [] r.kind = "profile" ->
               IF CannotMove(r, t) THEN t
               ELSE [t EXCEPT !.user = Put(Without(t.user, {r.who}), r.to, Says(r.row))]
          [] r.kind = "reset" ->
               [t EXCEPT !.user[r.who] = Says(r.row),
                         !.token = [k \in DOMAIN t.token |-> k[1] = r.who \/ t.token[k]]]
          [] r.kind = "create" ->
               [t EXCEPT !.group = Put(t.group, r.id, [email |-> r.email, isActive |-> TRUE]),
                         !.role = put(t.role, "manager"), !.isDefault = put(t.isDefault, TRUE)]
          [] r.kind = "group" -> [t EXCEPT !.group[r.id] = r.group]
          [] r.kind \in {"join", "use"} ->
               [t EXCEPT !.role = put(t.role, r.role),
                         !.isDefault = put(t.isDefault, \A k \in DOMAIN t.role : k[1] # r.key[1]),
                         !.isUsed = IF r.expires THEN [t.isUsed EXCEPT ![r.invitation] = TRUE]
                                    ELSE t.isUsed]
          [] r.kind = "role" -> [t EXCEPT !.role[r.key] = r.row.role]
          [] r.kind = "default" ->
               [t EXCEPT !.isDefault = [k \in DOMAIN t.role |->
                                           IF k[1] = r.key[1] THEN k = r.key ELSE t.isDefault[k]]]
          [] r.kind = "vote" -> [t EXCEPT !.vote = put(t.vote, r.status)]
          [] r.kind = "turn" -> [t EXCEPT !.turn = put(t.turn, r.user)]
          [] r.kind = "config" ->
               LET row == IF r.id \in DOMAIN t.config THEN t.config[r.id]
                          ELSE [c \in ConfigColumns |-> Unset]
               IN  [t EXCEPT !.config = Put(t.config, r.id, Over(r.sent, row))]

-----------------------------------------------------------------------------
(* Properties *)

\* Rows, sessions and history have their types, whatever the rows that requests still save
\* had when they were read; the ids of users differ, and the e-mails of groups, which create
\* and update check before they write.
CommunityTypeOK ==
    /\ IsTable(user, Users, UserRow) /\ IsTable(token, TokenIds, BOOLEAN)
    /\ \A u, x \in DOMAIN user : user[u].id = user[x].id => u = x
    /\ ended \subseteq TokenIds /\ loginEnabled \in BOOLEAN /\ now \in Times
    /\ IsTable(group, Groups, GroupRow) /\ IsTable(member, Users \X Groups, MemberRow)
    /\ \A g, x \in DOMAIN group : group[g].email = group[x].email => g = x
    /\ IsTable(invitation, Invitations, InvitationRow)
    /\ late \in BOOLEAN /\ spent \subseteq Invitations
    /\ IsTable(vote, Groups \X Users \X Dates, VoteRow)
    /\ IsTable(turn, Groups \X Dates, TurnRow)
    /\ IsTable(config, Groups, [ConfigColumns -> Settings \cup {Unset}])

\* No row refers to a user or a group that is not there, whatever was deleted while a
\* request was about to write.
ReferencesHold == MembersExist /\ SchedulesHaveGroups

\* A request of several steps that nobody disturbs does what one step would: all of its
\* effects, on its own rows, and nothing else.
RequestsAreAtomic ==
    [][\A h \in Handlers : Answered(h) =>
          \A t \in was[h] : Promises(request[h], t) => Tables' = Promised(request[h], t)]_vars
=============================================================================
