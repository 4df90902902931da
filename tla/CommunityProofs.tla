-------------------------- MODULE CommunityProofs --------------------------
(***************************************************************************)
(* What the properties of Community show on small instances, for any       *)
(* number of users, groups, invitations and simultaneous requests.         *)
(***************************************************************************)
EXTENDS Community, FiniteSetTheorems, TLAPS

-----------------------------------------------------------------------------
(* Tokens that have ended stay refused *)

\* Only requests of accounts write tokens; none makes a revoked one valid, since the only
\* INSERT is refused for a token that is there.
LEMMA AccountsKeepEnded ==
    ASSUME NEW referred
    PROVE  EndedTokensRefused /\ AccountsNext(referred) => EndedTokensRefused'
<1> SUFFICES ASSUME EndedTokensRefused, AccountsNext(referred) PROVE EndedTokensRefused'
  OBVIOUS
<1>1. ASSUME UNCHANGED <<token, ended>> PROVE EndedTokensRefused'
  BY <1>1 DEF EndedTokensRefused
<1>2. CASE UpdateConfig \/ Tick
  BY <1>1, <1>2 DEF UpdateConfig, Tick
<1>3. ASSUME NEW h \in Handlers, StoreRefreshToken(h) PROVE EndedTokensRefused'
  BY <1>3 DEF StoreRefreshToken, EndedTokensRefused, Put
<1>4. ASSUME NEW h \in Handlers, RevokeRefreshToken(h) PROVE EndedTokensRefused'
  BY <1>4 DEF RevokeRefreshToken, EndedTokensRefused
<1>5. ASSUME NEW h \in Handlers, RevokeAllUserTokens(h) PROVE EndedTokensRefused'
  BY <1>5 DEF RevokeAllUserTokens, EndedTokensRefused, TokensOf
<1>6. ASSUME NEW h \in Handlers, InsertUser(h) \/ SaveUser(h, referred) PROVE EndedTokensRefused'
  BY <1>1, <1>6 DEF InsertUser, SaveUser
<1>7. ASSUME NEW h \in Handlers, NEW u \in Users, DeleteUser(h, u) PROVE EndedTokensRefused'
  BY <1>7 DEF DeleteUser, EndedTokensRefused, TokensOf, Without
<1>8. ASSUME NEW h \in Handlers, AccountRequest(h) PROVE EndedTokensRefused'
  BY <1>1, <1>7, <1>8 DEF AccountRequest, Register, Login, RefreshToken, Logout, ResetPassword,
     UpdateUser, accountVars
<1>9. QED
  BY <1>2, <1>3, <1>4, <1>5, <1>6, <1>8 DEF AccountsNext

\* For every value of the constants, EndedTokensRefused holds in every reachable state: the
\* end of a session that logout, refreshToken or resetPassword has answered is for good.
THEOREM SessionsEndForGood == Spec => []EndedTokensRefused
<1>1. Init => EndedTokensRefused
  BY DEF Init, EndedTokensRefused
<1>2. EndedTokensRefused /\ [Next]_vars => EndedTokensRefused'
  <2> SUFFICES ASSUME EndedTokensRefused, [Next]_vars PROVE EndedTokensRefused'
    OBVIOUS
  <2>1. CASE AccountsNext(Referred)
    BY <2>1, AccountsKeepEnded
  <2>2. CASE UNCHANGED <<token, ended>>
    BY <2>2 DEF EndedTokensRefused
  <2>3. QED
    BY <2>1, <2>2 DEF Next, Step, CascadeGroups, Restart, accountVars, vars, tables
<1>3. QED
  BY <1>1, <1>2, PTL DEF Spec

-----------------------------------------------------------------------------
(* Requests *)

\* A token that is about to be stored is of the user whom the request is about; an
\* invitation that is about to be marked is one that expires.
Stores(r) == r.at = "store" => r.new[1] = r.who

Marks(r) ==
    r.at = "mark" \/ (r.at = "insertMember" /\ r.expires)
        => r.invitation \in DOMAIN invitation /\ invitation[r.invitation].expires

RequestsOK ==
    /\ DOMAIN request = Handlers
    /\ \A h \in Handlers : Stores(request[h]) /\ Marks(request[h])

InvitationsOK == \A i \in DOMAIN invitation : invitation[i] \in InvitationRow

\* No invitation is lost, and none changes whether it expires.
InvitationsKept ==
    \A i \in DOMAIN invitation :
        i \in DOMAIN invitation' /\ invitation'[i].expires = invitation[i].expires

LEMMA OneGoes ==
    ASSUME DOMAIN request = Handlers, NEW h \in Handlers, NEW r, Goes(h, r)
    PROVE  /\ DOMAIN request' = Handlers
           /\ request'[h] = r
           /\ \A x \in Handlers \ {h} : request'[x] = request[x]
BY DEF Goes

LEMMA GoesWell ==
    ASSUME RequestsOK, InvitationsKept, NEW h \in Handlers, NEW r, Goes(h, r),
           Stores(r), Marks(r)
    PROVE  RequestsOK'
<1>1. ASSUME NEW x, Stores(x), Marks(x) PROVE Stores(x) /\ Marks(x)'
  BY <1>1 DEF Marks, InvitationsKept
<1>2. \A x \in Handlers : Stores(request'[x]) /\ Marks(request'[x])
  BY OneGoes DEF RequestsOK
<1>3. DOMAIN request' = Handlers
  BY OneGoes DEF RequestsOK
<1>4. QED
  BY <1>2, <1>3 DEF RequestsOK, Stores, Marks, InvitationsKept

LEMMA EndsWell ==
    ASSUME RequestsOK, InvitationsKept, NEW h \in Handlers, Ends(h)
    PROVE  RequestsOK'
BY GoesWell DEF Ends, Idle, Stores, Marks

LEMMA NobodyGoes ==
    ASSUME RequestsOK, InvitationsKept, UNCHANGED request
    PROVE  RequestsOK'
BY DEF RequestsOK, Stores, Marks, InvitationsKept

LEMMA AccountsKeepRequests ==
    ASSUME NEW referred
    PROVE  RequestsOK /\ InvitationsKept /\ AccountsNext(referred) => RequestsOK'
<1> SUFFICES ASSUME RequestsOK, InvitationsKept, AccountsNext(referred) PROVE RequestsOK'
  OBVIOUS
<1>1. CASE UpdateConfig \/ Tick
  BY <1>1, NobodyGoes DEF UpdateConfig, Tick, Marks
<1>2. ASSUME NEW h \in Handlers, InsertUser(h) PROVE RequestsOK'
  BY <1>2, EndsWell, GoesWell DEF InsertUser, Stores, Marks
<1>3. ASSUME NEW h \in Handlers, StoreRefreshToken(h) \/ RevokeAllUserTokens(h) PROVE RequestsOK'
  BY <1>3, EndsWell DEF StoreRefreshToken, RevokeAllUserTokens
<1>4. ASSUME NEW h \in Handlers, RevokeRefreshToken(h) PROVE RequestsOK'
  BY <1>4, EndsWell, GoesWell DEF RevokeRefreshToken, Stores, Marks
<1>5. ASSUME NEW h \in Handlers, SaveUser(h, referred) PROVE RequestsOK'
  BY <1>5, EndsWell, GoesWell DEF SaveUser, Stores, Marks
<1>6. ASSUME NEW h \in Handlers, AccountRequest(h) PROVE RequestsOK'
  <2>1. ASSUME NEW u, NEW p, NEW kind, NEW to, NEW admin,
               \/ Register(h, u, p, admin, kind) \/ Login(h, u, p)
               \/ ResetPassword(h, u, p) \/ UpdateUser(h, u, to, p, admin)
        PROVE  RequestsOK'
    BY <2>1, GoesWell DEF Register, Login, ResetPassword, UpdateUser, Stores, Marks
  <2>2. ASSUME NEW k \in DOMAIN token, RefreshToken(h, k) \/ Logout(h, k) PROVE RequestsOK'
    BY <2>2, GoesWell DEF RefreshToken, Logout, Stores, Marks
  <2>3. ASSUME NEW u \in Users, DeleteUser(h, u) PROVE RequestsOK'
    BY <2>3, EndsWell DEF DeleteUser
  <2>4. QED
    BY <1>6, <2>1, <2>2, <2>3 DEF AccountRequest
<1>7. QED
  BY <1>1, <1>2, <1>3, <1>4, <1>5, <1>6 DEF AccountsNext

LEMMA MembershipsKeepRequests ==
    RequestsOK /\ InvitationsKept /\ MembershipsNext => RequestsOK'
<1> SUFFICES ASSUME RequestsOK, InvitationsKept, MembershipsNext PROVE RequestsOK'
  OBVIOUS
<1>1. CASE Expire
  BY <1>1, NobodyGoes DEF Expire, Marks
<1>2. ASSUME NEW h \in Handlers, InsertGroup(h) \/ InsertManager(h) \/ SaveGroup(h)
      PROVE  RequestsOK'
  BY <1>2, EndsWell, GoesWell DEF InsertGroup, InsertManager, SaveGroup, Stores, Marks
<1>3. ASSUME NEW h \in Handlers,
             InsertMember(h) \/ ClearDefaults(h) \/ SaveMember(h) \/ MarkUsed(h)
      PROVE  RequestsOK'
  <2>1. CASE InsertMember(h)
    <3>1. CASE Ends(h)
      BY <3>1, EndsWell
    <3>2. ASSUME NEW r, Goes(h, r), r.at = "mark", request[h].at = "insertMember",
                 request[h].expires, r.invitation = request[h].invitation
          PROVE  RequestsOK'
      <4>1. Stores(r) /\ Marks(r)
        BY <3>2 DEF RequestsOK, Stores, Marks
      <4>2. QED
        BY <3>2, <4>1, GoesWell
    <3>3. QED
      BY <2>1, <3>1, <3>2 DEF InsertMember, At
  <2>2. CASE ClearDefaults(h)
    BY <2>2, GoesWell DEF ClearDefaults, Stores, Marks
  <2>3. QED
    BY <1>3, <2>1, <2>2, EndsWell DEF SaveMember, MarkUsed
<1>4. ASSUME NEW h \in Handlers, GroupRequest(h) PROVE RequestsOK'
  <2>1. ASSUME NEW u, NEW g, NEW x, NEW b,
               Create(h, u, x) \/ Update(h, u, g, x) \/ UpdateStatus(h, g, b) \/ Delete(h, u, g)
        PROVE  RequestsOK'
    BY <2>1, EndsWell, GoesWell DEF Create, Update, UpdateStatus, Delete, Stores, Marks
  <2>2. QED
    BY <1>4, <2>1 DEF GroupRequest
<1>5. ASSUME NEW h \in Handlers, MemberRequest(h) PROVE RequestsOK'
  <2>1. ASSUME NEW m, NEW u, NEW g, NEW role, JoinGroup(h, m, u, g, role) PROVE RequestsOK'
    BY <2>1, GoesWell DEF JoinGroup, AddMember, Stores, Marks
  <2>2. ASSUME NEW u, NEW i, UseInvitation(h, u, i) PROVE RequestsOK'
    BY <2>2, GoesWell DEF UseInvitation, AddMember, Stores, Marks
  <2>3. ASSUME NEW m, NEW u, NEW g, NEW role,
               \/ RemoveMember(h, m, u, g) \/ UpdateMemberRole(h, m, u, g, role)
               \/ SetDefaultGroup(h, u, g) \/ CreateInvitation(h, m, g, role)
        PROVE  RequestsOK'
    BY <2>3, EndsWell, GoesWell
       DEF RemoveMember, UpdateMemberRole, SetDefaultGroup, CreateInvitation, Stores, Marks
  <2>4. QED
    BY <1>5, <2>1, <2>2, <2>3 DEF MemberRequest
<1>6. QED
  BY <1>1, <1>2, <1>3, <1>4, <1>5 DEF MembershipsNext

LEMMA BasketsKeepRequests ==
    RequestsOK /\ InvitationsKept /\ BasketNext => RequestsOK'
<1> SUFFICES ASSUME RequestsOK, InvitationsKept, NEW h \in Handlers,
                    \/ SaveVote(h) \/ SaveAssignment(h) \/ SaveConfig(h)
                    \/ \E m, u, g, d, x :
                          \/ SetVote(h, m, u, g, d, x) \/ ClearVote(h, m, u, g, d)
                          \/ SetAssignment(h, m, g, d, u) \/ ClearAssignment(h, m, g, d)
                          \/ UpsertConfig(h, m, g, x)
             PROVE  RequestsOK'
  BY DEF BasketNext
<1>1. CASE SaveVote(h) \/ SaveAssignment(h) \/ SaveConfig(h)
  BY <1>1, EndsWell DEF SaveVote, SaveAssignment, SaveConfig
<1>2. ASSUME NEW m, NEW u, NEW g, NEW d, NEW x,
             SetVote(h, m, u, g, d, x) \/ SetAssignment(h, m, g, d, u) \/ UpsertConfig(h, m, g, x)
      PROVE  RequestsOK'
  BY <1>2, GoesWell DEF SetVote, SetAssignment, UpsertConfig, Stores, Marks
<1>3. ASSUME NEW m, NEW u, NEW g, NEW d, ClearVote(h, m, u, g, d) \/ ClearAssignment(h, m, g, d)
      PROVE  RequestsOK'
  BY <1>3, EndsWell DEF ClearVote, ClearAssignment
<1>4. QED
  BY <1>1, <1>2, <1>3

\* Invitations change by MarkUsed and CreateInvitation only.
LEMMA MembershipsKeepInvitations ==
    RequestsOK /\ InvitationsOK /\ MembershipsNext => InvitationsOK' /\ InvitationsKept
<1> SUFFICES ASSUME RequestsOK, InvitationsOK, MembershipsNext
             PROVE  InvitationsOK' /\ InvitationsKept
  OBVIOUS
<1>1. ASSUME UNCHANGED invitation PROVE InvitationsOK' /\ InvitationsKept
  BY <1>1 DEF InvitationsOK, InvitationsKept
<1>2. ASSUME NEW h \in Handlers, MarkUsed(h) PROVE InvitationsOK' /\ InvitationsKept
  <2> DEFINE i == request[h].invitation
  <2>1. i \in DOMAIN invitation /\ invitation[i] \in InvitationRow
    BY <1>2 DEF MarkUsed, At, RequestsOK, Marks, InvitationsOK
  <2>2. invitation' = [invitation EXCEPT ![i].isUsed = TRUE]
    BY <1>2 DEF MarkUsed
  <2> DEFINE row == [invitation[i] EXCEPT !.isUsed = TRUE]
  <2>3. row \in InvitationRow /\ row.expires = invitation[i].expires
    BY <2>1 DEF InvitationRow
  <2>4. DOMAIN invitation' = DOMAIN invitation /\ invitation'[i] = row
    BY <2>1, <2>2
  <2>5. \A x \in DOMAIN invitation \ {i} : invitation'[x] = invitation[x]
    BY <2>2
  <2> HIDE DEF row
  <2>6. QED
    BY <2>3, <2>4, <2>5 DEF InvitationsOK, InvitationsKept
<1>3. ASSUME NEW h \in Handlers, NEW m, NEW i, NEW row \in InvitationRow,
             CreateInvitation(h, m, i, row)
      PROVE  InvitationsOK' /\ InvitationsKept
  BY <1>3 DEF CreateInvitation, Put, InvitationsOK, InvitationsKept
<1>4. ASSUME NEW h \in Handlers, GroupRequest(h) PROVE InvitationsOK' /\ InvitationsKept
  BY <1>1, <1>4 DEF GroupRequest, Create, Update, UpdateStatus, Delete, membershipVars
<1>5. ASSUME NEW h \in Handlers, MemberRequest(h) PROVE InvitationsOK' /\ InvitationsKept
  BY <1>1, <1>3, <1>5 DEF MemberRequest, JoinGroup, UseInvitation, AddMember, RemoveMember,
     UpdateMemberRole, SetDefaultGroup, membershipVars
<1>6. QED
  BY <1>1, <1>2, <1>4, <1>5 DEF MembershipsNext, InsertGroup, InsertManager, SaveGroup,
     InsertMember, ClearDefaults, SaveMember, Expire

LEMMA OthersKeepInvitations ==
    InvitationsOK /\ UNCHANGED invitation => InvitationsOK' /\ InvitationsKept
BY DEF InvitationsOK, InvitationsKept

LEMMA RequestsInvariant == Spec => [](RequestsOK /\ InvitationsOK)
<1>1. Init => RequestsOK /\ InvitationsOK
  <2> SUFFICES ASSUME Init PROVE RequestsOK /\ InvitationsOK
    OBVIOUS
  <2>1. RequestsOK
    BY DEF Init, RequestsOK, Stores, Marks, Idle
  <2>2. InvitationsOK
    BY CommunityAssumption DEF Init, InvitationsOK, IsTable
  <2>3. QED
    BY <2>1, <2>2
<1>2. RequestsOK /\ InvitationsOK /\ [Next]_vars => (RequestsOK /\ InvitationsOK)'
  <2> SUFFICES ASSUME RequestsOK, InvitationsOK, [Next]_vars
               PROVE  RequestsOK' /\ InvitationsOK'
    OBVIOUS
  <2>1. CASE AccountsNext(Referred) /\ CascadeUsers
    BY <2>1, AccountsKeepRequests, OthersKeepInvitations DEF CascadeUsers
  <2>2. CASE MembershipsNext
    BY <2>2, MembershipsKeepRequests, MembershipsKeepInvitations
  <2>3. CASE BasketNext /\ UNCHANGED membershipVars
    BY <2>3, BasketsKeepRequests, OthersKeepInvitations DEF membershipVars
  <2>4. CASE Restart
    BY <2>4, OthersKeepInvitations DEF Restart, RequestsOK, Stores, Marks, Idle, membershipVars
  <2>5. CASE UNCHANGED vars
    BY <2>5, OthersKeepInvitations, NobodyGoes DEF vars, tables
  <2>6. QED
    BY <2>1, <2>2, <2>3, <2>4, <2>5 DEF Next, Step
<1>3. QED
  BY <1>1, <1>2, PTL DEF Spec

-----------------------------------------------------------------------------
(* References *)

SessionsRefer == \A k \in DOMAIN token : k[1] \in DOMAIN user

MembersRefer == \A k \in DOMAIN member : Refers(k)

LEMMA ReferenceParts ==
    ReferencesHold <=> SessionsRefer /\ MembersRefer /\ SchedulesHaveGroups
BY DEF ReferencesHold, MembersExist, SessionsRefer, MembersRefer

\* A session is stored only while its user is there, and goes with it.
LEMMA AccountsKeepSessions ==
    ASSUME NEW referred
    PROVE  RequestsOK /\ SessionsRefer /\ AccountsNext(referred) => SessionsRefer'
<1> SUFFICES ASSUME RequestsOK, SessionsRefer, AccountsNext(referred) PROVE SessionsRefer'
  OBVIOUS
<1>1. ASSUME UNCHANGED <<user, token>> PROVE SessionsRefer'
  BY <1>1 DEF SessionsRefer
<1>2. CASE UpdateConfig \/ Tick
  BY <1>1, <1>2 DEF UpdateConfig, Tick
<1>3. ASSUME NEW h \in Handlers, InsertUser(h) PROVE SessionsRefer'
  BY <1>3 DEF InsertUser, SessionsRefer, Put
<1>4. ASSUME NEW h \in Handlers, StoreRefreshToken(h) PROVE SessionsRefer'
  BY <1>4 DEF StoreRefreshToken, SessionsRefer, Put, At, RequestsOK, Stores
<1>5. ASSUME NEW h \in Handlers, RevokeRefreshToken(h) \/ RevokeAllUserTokens(h)
      PROVE  SessionsRefer'
  BY <1>5 DEF RevokeRefreshToken, RevokeAllUserTokens, SessionsRefer
<1>6. ASSUME NEW h \in Handlers, SaveUser(h, referred) PROVE SessionsRefer'
  BY <1>6 DEF SaveUser, Without, Put, SessionsRefer, TokensOf
<1>7. ASSUME NEW h \in Handlers, AccountRequest(h) PROVE SessionsRefer'
  <2>1. ASSUME NEW u \in Users, DeleteUser(h, u) PROVE SessionsRefer'
    BY <2>1 DEF DeleteUser, Without, TokensOf, SessionsRefer
  <2>2. QED
    BY <1>1, <1>7, <2>1 DEF AccountRequest, Register, Login, RefreshToken, Logout,
       ResetPassword, UpdateUser, accountVars
<1>8. QED
  BY <1>2, <1>3, <1>4, <1>5, <1>6, <1>7 DEF AccountsNext

LEMMA AccountsKeepReferences ==
    RequestsOK /\ ReferencesHold /\ AccountsNext(Referred) /\ CascadeUsers => ReferencesHold'
<1> SUFFICES ASSUME RequestsOK, ReferencesHold, AccountsNext(Referred), CascadeUsers
             PROVE  ReferencesHold'
  OBVIOUS
<1>1. SessionsRefer'
  BY AccountsKeepSessions, ReferenceParts
<1>2. MembersRefer'
  BY ReferenceParts DEF CascadeUsers, MembersRefer, Refers
<1>3. SchedulesHaveGroups'
  BY ReferenceParts DEF CascadeUsers, basketVars, SchedulesHaveGroups
<1>4. QED
  BY <1>1, <1>2, <1>3 DEF ReferencesHold, MembersExist, SessionsRefer, MembersRefer

\* A member is inserted or saved only while its user and its group are there, and goes with
\* each of them.
LEMMA MembershipsKeepMembers ==
    MembersRefer /\ MembershipsNext /\ UNCHANGED user => MembersRefer'
<1> SUFFICES ASSUME MembersRefer, MembershipsNext, UNCHANGED user PROVE MembersRefer'
  OBVIOUS
<1>1. ASSUME UNCHANGED member, DOMAIN group \subseteq DOMAIN group' PROVE MembersRefer'
  BY <1>1 DEF MembersRefer, Refers
<1>2. ASSUME UNCHANGED <<group, member>> PROVE MembersRefer'
  BY <1>1, <1>2
<1>3. CASE Expire
  BY <1>2, <1>3 DEF Expire
<1>4. ASSUME NEW h \in Handlers, InsertGroup(h) \/ SaveGroup(h) PROVE MembersRefer'
  BY <1>1, <1>4 DEF InsertGroup, SaveGroup, Put
<1>5. ASSUME NEW h \in Handlers, InsertManager(h) PROVE MembersRefer'
  BY <1>5 DEF InsertManager, Inserted, Put, MembersRefer, Refers
<1>6. ASSUME NEW h \in Handlers, InsertMember(h) PROVE MembersRefer'
  BY <1>6 DEF InsertMember, Inserted, Put, MembersRefer, Refers
<1>7. ASSUME NEW h \in Handlers, ClearDefaults(h) PROVE MembersRefer'
  BY <1>7 DEF ClearDefaults, MembersRefer, Refers
<1>8. ASSUME NEW h \in Handlers, SaveMember(h) PROVE MembersRefer'
  BY <1>8 DEF SaveMember, Saved, Put, MembersRefer, Refers
<1>9. ASSUME NEW h \in Handlers, MarkUsed(h) PROVE MembersRefer'
  BY <1>2, <1>9 DEF MarkUsed
<1>10. ASSUME NEW h \in Handlers, GroupRequest(h) PROVE MembersRefer'
  <2>1. ASSUME NEW u, NEW g, Delete(h, u, g) PROVE MembersRefer'
    BY <2>1 DEF Delete, Without, MembersRefer, Refers
  <2>2. QED
    BY <1>2, <1>10, <2>1 DEF GroupRequest, Create, Update, UpdateStatus, membershipVars
<1>11. ASSUME NEW h \in Handlers, MemberRequest(h) PROVE MembersRefer'
  <2>1. ASSUME NEW m, NEW u, NEW g, RemoveMember(h, m, u, g) PROVE MembersRefer'
    BY <2>1 DEF RemoveMember, Without, MembersRefer, Refers
  <2>2. ASSUME NEW m, NEW i, NEW row, CreateInvitation(h, m, i, row) PROVE MembersRefer'
    BY <1>2, <2>2 DEF CreateInvitation
  <2>3. QED
    BY <1>2, <1>11, <2>1, <2>2 DEF MemberRequest, JoinGroup, UseInvitation, AddMember,
       UpdateMemberRole, SetDefaultGroup, membershipVars
<1>12. QED
  BY <1>3, <1>4, <1>5, <1>6, <1>7, <1>8, <1>9, <1>10, <1>11 DEF MembershipsNext

LEMMA MembershipsKeepReferences ==
    ReferencesHold /\ MembershipsNext /\ CascadeGroups => ReferencesHold'
<1> SUFFICES ASSUME ReferencesHold, MembershipsNext, CascadeGroups PROVE ReferencesHold'
  OBVIOUS
<1>1. UNCHANGED <<user, token>>
  BY DEF CascadeGroups, accountVars
<1>2. SessionsRefer'
  BY <1>1, ReferenceParts DEF SessionsRefer
<1>3. MembersRefer'
  BY <1>1, MembershipsKeepMembers, ReferenceParts
<1>4. SchedulesHaveGroups'
  BY DEF CascadeGroups, SchedulesHaveGroups
<1>5. QED
  BY <1>2, <1>3, <1>4 DEF ReferencesHold, MembersExist, SessionsRefer, MembersRefer

LEMMA BasketsKeepReferences ==
    ReferencesHold /\ BasketNext /\ UNCHANGED <<accountVars, membershipVars>> => ReferencesHold'
<1> SUFFICES ASSUME ReferencesHold, BasketNext, UNCHANGED <<accountVars, membershipVars>>
             PROVE  ReferencesHold'
  OBVIOUS
<1>1. UNCHANGED <<user, token, group, member>>
  BY DEF accountVars, membershipVars
<1>2. MembersExist'
  BY <1>1 DEF ReferencesHold, MembersExist, Refers
<1>3. ASSUME UNCHANGED basketVars PROVE SchedulesHaveGroups'
  BY <1>1, <1>3 DEF basketVars, ReferencesHold, SchedulesHaveGroups
<1>4. ASSUME NEW h \in Handlers, SaveVote(h) PROVE SchedulesHaveGroups'
  <2>1. UNCHANGED <<turn, config>>
    BY <1>4 DEF SaveVote
  <2>2. CASE request[h].key[1] \notin DOMAIN group
    BY <1>3, <1>4, <2>1, <2>2 DEF SaveVote, basketVars
  <2>3. CASE request[h].key[1] \in DOMAIN group
    <3>1. DOMAIN vote' \subseteq DOMAIN vote \cup {request[h].key}
      BY <1>4, <2>3 DEF SaveVote, Saved, Inserted, Put
    <3>2. QED
      BY <1>1, <2>1, <2>3, <3>1 DEF ReferencesHold, SchedulesHaveGroups
  <2>4. QED
    BY <2>2, <2>3
<1>5. ASSUME NEW h \in Handlers, SaveAssignment(h) PROVE SchedulesHaveGroups'
  <2>1. UNCHANGED <<vote, config>>
    BY <1>5 DEF SaveAssignment
  <2>2. CASE request[h].key[1] \notin DOMAIN group
    BY <1>3, <1>5, <2>1, <2>2 DEF SaveAssignment, basketVars
  <2>3. CASE request[h].key[1] \in DOMAIN group
    <3>1. DOMAIN turn' \subseteq DOMAIN turn \cup {request[h].key}
      BY <1>5, <2>3 DEF SaveAssignment, Saved, Inserted, Put
    <3>2. QED
      BY <1>1, <2>1, <2>3, <3>1 DEF ReferencesHold, SchedulesHaveGroups
  <2>4. QED
    BY <2>2, <2>3
<1>6. ASSUME NEW h \in Handlers, SaveConfig(h) PROVE SchedulesHaveGroups'
  BY <1>1, <1>6 DEF SaveConfig, Put, ReferencesHold, SchedulesHaveGroups
<1>7. ASSUME NEW h \in Handlers, NEW m, NEW u, NEW g, NEW d,
             ClearVote(h, m, u, g, d) \/ ClearAssignment(h, m, g, d)
      PROVE  SchedulesHaveGroups'
  BY <1>1, <1>7 DEF ClearVote, ClearAssignment, Without, ReferencesHold, SchedulesHaveGroups
<1>8. ASSUME NEW h \in Handlers, NEW m, NEW u, NEW g, NEW d, NEW x,
             SetVote(h, m, u, g, d, x) \/ SetAssignment(h, m, g, d, u) \/ UpsertConfig(h, m, g, x)
      PROVE  SchedulesHaveGroups'
  BY <1>3, <1>8 DEF SetVote, SetAssignment, UpsertConfig
<1>9. SchedulesHaveGroups'
  BY <1>4, <1>5, <1>6, <1>7, <1>8 DEF BasketNext
<1>10. QED
  BY <1>2, <1>9 DEF ReferencesHold

\* For every value of the constants, ReferencesHold holds in every reachable state: the
\* deletions of users and groups leave no session, member, vote, assignment or schedule
\* behind, and no request that was under way brings one back.
THEOREM ReferencesAlwaysHold == Spec => []ReferencesHold
<1>1. Init => ReferencesHold
  <2> SUFFICES ASSUME Init PROVE ReferencesHold
    OBVIOUS
  <2>1. PICK s \in Scenes : user = s.user /\ group = s.group /\ member = s.member
    BY DEF Init
  <2>2. \A k \in DOMAIN member : Refers(k)
    BY <2>1, CommunityAssumption DEF Refers, IsTable
  <2>3. token = <<>> /\ vote = <<>> /\ turn = <<>> /\ config = <<>>
    BY DEF Init
  <2>4. QED
    BY <2>2, <2>3 DEF ReferencesHold, MembersExist, SchedulesHaveGroups
<1>2. RequestsOK /\ ReferencesHold /\ [Next]_vars => ReferencesHold'
  <2> SUFFICES ASSUME RequestsOK, ReferencesHold, [Next]_vars PROVE ReferencesHold'
    OBVIOUS
  <2>1. ASSUME UNCHANGED <<user, token, group, member, vote, turn, config>>
        PROVE  ReferencesHold'
    BY <2>1 DEF ReferencesHold, MembersExist, SchedulesHaveGroups, Refers
  <2>2. CASE Restart
    BY <2>1, <2>2 DEF Restart, accountVars, membershipVars, basketVars
  <2>3. CASE UNCHANGED vars
    BY <2>1, <2>3 DEF vars, tables
  <2>4. QED
    BY <2>2, <2>3, AccountsKeepReferences, MembershipsKeepReferences, BasketsKeepReferences
       DEF Next, Step
<1>3. QED
  BY <1>1, <1>2, RequestsInvariant, PTL DEF Spec

-----------------------------------------------------------------------------
(* Invitations *)

\* For every value of the constants, UsedUpInvitations holds in every reachable state: an
\* invitation that expires and whose use was answered admits nobody again.
THEOREM UsedUpForGood == Spec => []UsedUpInvitations
<1>1. Init => UsedUpInvitations
  BY DEF Init, UsedUpInvitations
<1>2. RequestsOK /\ InvitationsOK /\ UsedUpInvitations /\ [Next]_vars => UsedUpInvitations'
  <2> SUFFICES ASSUME RequestsOK, InvitationsOK, UsedUpInvitations, [Next]_vars
               PROVE  UsedUpInvitations'
    OBVIOUS
  <2>1. ASSUME UNCHANGED <<invitation, late, spent>> PROVE UsedUpInvitations'
    BY <2>1 DEF UsedUpInvitations, IsValid
  <2>2. ASSUME NEW h \in Handlers, MarkUsed(h) PROVE UsedUpInvitations'
    <3> DEFINE i == request[h].invitation
    <3>1. i \in DOMAIN invitation /\ invitation[i] \in InvitationRow /\ invitation[i].expires
      BY <2>2 DEF MarkUsed, At, RequestsOK, Marks, InvitationsOK
    <3>2. /\ invitation' = [invitation EXCEPT ![i].isUsed = TRUE]
          /\ late' = late /\ spent' = spent \cup {i}
      BY <2>2 DEF MarkUsed
    <3> DEFINE row == [invitation[i] EXCEPT !.isUsed = TRUE]
    <3>3. row.expires /\ row.isUsed
      BY <3>1 DEF InvitationRow
    <3>4. DOMAIN invitation' = DOMAIN invitation /\ invitation'[i] = row
      BY <3>1, <3>2
    <3>5. \A x \in DOMAIN invitation \ {i} : invitation'[x] = invitation[x]
      BY <3>2
    <3> HIDE DEF row, i
    <3>6. QED
      BY <3>1, <3>2, <3>3, <3>4, <3>5 DEF UsedUpInvitations, IsValid
  <2>3. ASSUME NEW h \in Handlers, NEW m, NEW i, NEW row, CreateInvitation(h, m, i, row)
        PROVE  UsedUpInvitations'
    BY <2>3 DEF CreateInvitation, Put, UsedUpInvitations, IsValid
  <2>4. CASE Expire
    BY <2>4 DEF Expire, UsedUpInvitations, IsValid
  <2>5. ASSUME NEW h \in Handlers, GroupRequest(h) PROVE UsedUpInvitations'
    BY <2>1, <2>5 DEF GroupRequest, Create, Update, UpdateStatus, Delete, membershipVars
  <2>6. ASSUME NEW h \in Handlers, MemberRequest(h) PROVE UsedUpInvitations'
    BY <2>1, <2>3, <2>6 DEF MemberRequest, JoinGroup, UseInvitation, AddMember, RemoveMember,
       UpdateMemberRole, SetDefaultGroup, membershipVars
  <2>7. CASE MembershipsNext
    BY <2>1, <2>2, <2>4, <2>5, <2>6, <2>7 DEF MembershipsNext, InsertGroup, InsertManager,
       SaveGroup, InsertMember, ClearDefaults, SaveMember
  <2>8. QED
    BY <2>1, <2>7 DEF Next, Step, CascadeUsers, Restart, membershipVars, vars, tables
<1>3. QED
  BY <1>1, <1>2, RequestsInvariant, PTL DEF Spec

-----------------------------------------------------------------------------
(* Tables *)

LEMMA PutTable ==
    ASSUME NEW f, NEW K, NEW R, IsTable(f, K, R), NEW k \in K, NEW r \in R
    PROVE  IsTable(Put(f, k, r), K, R)
BY DEF IsTable, Put

LEMMA WithoutTable ==
    ASSUME NEW f, NEW K, NEW R, IsTable(f, K, R), NEW D
    PROVE  IsTable(Without(f, D), K, R)
BY DEF IsTable, Without

LEMMA SavedTable ==
    ASSUME NEW f, NEW K, NEW R, IsTable(f, K, R), NEW k \in K, NEW r \in R
    PROVE  IsTable(Saved(f, k, r), K, R)
BY PutTable DEF Saved

LEMMA InsertedTable ==
    ASSUME NEW f, NEW K, NEW R, IsTable(f, K, R), NEW k \in K, NEW r \in R
    PROVE  IsTable(Inserted(f, k, r), K, R)
BY PutTable DEF Inserted

LEMMA TwoAlike ==
    ASSUME NEW S, NEW T, NEW f \in [S -> T], IsFiniteSet(S), IsFiniteSet(T),
           Cardinality(T) < Cardinality(S)
    PROVE  \E x, y \in S : x # y /\ f[x] = f[y]
BY FS_PigeonHole

\* A relation that gives each of n elements one of fewer gives two of them the same.
LEMMA TwoShare ==
    ASSUME NEW S, NEW T, IsFiniteSet(S), IsFiniteSet(T), Cardinality(T) < Cardinality(S),
           NEW R, \A x \in S : \E y \in T : <<x, y>> \in R
    PROVE  \E x, z \in S, y \in T : x # z /\ <<x, y>> \in R /\ <<z, y>> \in R
<1> DEFINE f == [x \in S |-> CHOOSE y \in T : <<x, y>> \in R]
<1>1. f \in [S -> T] /\ \A x \in S : <<x, f[x]>> \in R
  OBVIOUS
<1> HIDE DEF f
<1>2. PICK x, z \in S : x # z /\ f[x] = f[z]
  BY <1>1, TwoAlike
<1>3. QED
  BY <1>1, <1>2

\* A request that remembers no row finds an id that no other remembers: there are at least
\* as many ids as requests.
LEMMA FreshIds ==
    ASSUME NEW h \in Handlers, "row" \notin DOMAIN request[h], NEW key
    PROVE  FreshId(key) \in 1..Copies
<1> DEFINE Holds(n, x) == "row" \in DOMAIN request[x] /\ request[x].row.id = n
           S == 1..Copies
           T == Handlers \ {h}
           R == {p \in S \X T : Holds(p[1], p[2])}
<1>1. IsFiniteSet(S) /\ Cardinality(S) = Copies
  BY FS_Interval, RequestsAssumption
<1>2. IsFiniteSet(T) /\ Cardinality(T) = Cardinality(Handlers) - 1
  BY FS_RemoveElement, RequestsAssumption
<1>3. Cardinality(T) < Cardinality(S)
  BY <1>1, <1>2, FS_CardinalityType, RequestsAssumption
<1>4. \A m, n \in S, x \in T : <<m, x>> \in R /\ <<n, x>> \in R => m = n
  OBVIOUS
<1>5. \A n \in S : (\A x \in T : <<n, x>> \notin R) => \A x \in T : ~Holds(n, x)
  OBVIOUS
<1>6. \E n \in S : \A x \in T : <<n, x>> \notin R
  <2> HIDE DEF S, T, R
  <2>1. QED
    BY <1>1, <1>2, <1>3, <1>4, TwoShare
<1>7. \E n \in 1..Copies : \A x \in Handlers :
          "row" \in DOMAIN request[x] /\ request[x].key = key => request[x].row.id # n
  BY <1>5, <1>6
<1>8. QED
  BY <1>7 DEF FreshId

-----------------------------------------------------------------------------
(* Types *)

\* What a request has read and will write is of the table's types.
AccountTyped(r) ==
    /\ r.at = "insertUser" =>
          r.who \in Users /\ r.password \in Passwords /\ r.admin \in BOOLEAN
    /\ r.at = "store" => r.new \in TokenIds
    /\ r.at \in {"store", "revoke"} => r.who \in Users
    /\ r.at \in {"saveUser", "revokeAll"} => r.who \in Users /\ r.row \in UserRow
    /\ r.at = "saveUser" => r.to \in Users

GroupTyped(r) ==
    /\ r.at = "insertGroup" => r.who \in Users /\ r.email \in GroupEmails
    /\ r.at = "insertManager" => r.key \in Users \X Groups
    /\ r.at = "saveGroup" => r.id \in Groups /\ r.group \in GroupRow
    /\ r.at = "insertMember" =>
          r.key \in Users \X Groups /\ r.role \in Roles /\ r.isDefault \in BOOLEAN
    /\ r.at \in {"clear", "saveMember"} => r.key \in Users \X Groups /\ r.row \in MemberRow

BasketTyped(r) ==
    /\ r.at = "saveVote" =>
          /\ r.key \in Groups \X Users \X Dates /\ r.status \in Statuses
          /\ "row" \in DOMAIN r => r.row \in VoteRow
    /\ r.at = "saveTurn" =>
          /\ r.key \in Groups \X Dates /\ r.user \in Users
          /\ "row" \in DOMAIN r => r.row \in TurnRow
    /\ r.at = "saveConfig" =>
          r.id \in Groups /\ IsTable(r.sent, ConfigColumns, Settings \cup {Unset})

Typed(r) ==
    /\ AccountTyped(r) /\ GroupTyped(r) /\ BasketTyped(r)
    /\ r.at \in {"insertUser", "insertManager", "insertMember"} => "row" \notin DOMAIN r
    /\ r.at = "idle" => r = Idle

\* The requests under way are typed as well as the tables, or CommunityTypeOK is lost.
RequestsTyped == DOMAIN request = Handlers /\ \A h \in Handlers : Typed(request[h])

LEMMA IdleTyped == Typed(Idle)
BY DEF Typed, AccountTyped, GroupTyped, BasketTyped, Idle

LEMMA GoesTyped ==
    ASSUME RequestsTyped, NEW h \in Handlers, NEW r, Goes(h, r), Typed(r)
    PROVE  RequestsTyped'
BY OneGoes DEF RequestsTyped

LEMMA EndsTyped ==
    ASSUME RequestsTyped, NEW h \in Handlers, Ends(h)
    PROVE  RequestsTyped'
BY GoesTyped, IdleTyped DEF Ends

AccountsTyped ==
    /\ IsTable(user, Users, UserRow) /\ IsTable(token, TokenIds, BOOLEAN)
    /\ \A u, x \in DOMAIN user : user[u].id = user[x].id => u = x
    /\ ended \subseteq TokenIds /\ loginEnabled \in BOOLEAN /\ now \in Times

MembershipsTyped ==
    /\ IsTable(group, Groups, GroupRow) /\ IsTable(member, Users \X Groups, MemberRow)
    /\ \A g, x \in DOMAIN group : group[g].email = group[x].email => g = x
    /\ IsTable(invitation, Invitations, InvitationRow)
    /\ late \in BOOLEAN /\ spent \subseteq Invitations

BasketsTyped ==
    /\ IsTable(vote, Groups \X Users \X Dates, VoteRow)
    /\ IsTable(turn, Groups \X Dates, TurnRow)
    /\ IsTable(config, Groups, [ConfigColumns -> Settings \cup {Unset}])

LEMMA TypesParts ==
    CommunityTypeOK <=> AccountsTyped /\ MembershipsTyped /\ BasketsTyped
BY DEF CommunityTypeOK, AccountsTyped, MembershipsTyped, BasketsTyped

\* Accounts.
LEMMA AccountsKeepTypes ==
    ASSUME NEW referred
    PROVE  RequestsTyped /\ AccountsTyped /\ AccountsNext(referred)
               => RequestsTyped' /\ AccountsTyped'
<1> SUFFICES ASSUME RequestsTyped, AccountsTyped, AccountsNext(referred)
             PROVE  RequestsTyped' /\ AccountsTyped'
  OBVIOUS
<1> DEFINE r(h) == request[h]
<1>1. ASSUME UNCHANGED accountVars PROVE AccountsTyped'
  BY <1>1 DEF AccountsTyped, accountVars
<1>2. CASE UpdateConfig \/ Tick
  BY <1>2 DEF UpdateConfig, Tick, RequestsTyped, AccountsTyped
<1>3. ASSUME NEW h \in Handlers, InsertUser(h) PROVE RequestsTyped' /\ AccountsTyped'
  <2>1. r(h).who \in Users /\ r(h).password \in Passwords /\ r(h).admin \in BOOLEAN
    BY <1>3 DEF InsertUser, At, RequestsTyped, Typed, AccountTyped
  <2>2. /\ IsTable(user', Users, UserRow)
        /\ \A u, x \in DOMAIN user' : user'[u].id = user'[x].id => u = x
    <3> DEFINE n == CHOOSE x \in FreshUserIds : TRUE
               row == [id |-> n, password |-> r(h).password, admin |-> r(h).admin]
    <3>1. CASE UNCHANGED user
      BY <3>1 DEF AccountsTyped
    <3>2. CASE FreshUserIds # {} /\ user' = Put(user, r(h).who, row)
      <4>1. n \in UserIds /\ \A u \in DOMAIN user : user[u].id # n
        BY <3>2 DEF FreshUserIds
      <4>2. row \in UserRow /\ row.id = n
        BY <2>1, <4>1 DEF UserRow
      <4> HIDE DEF row, n
      <4>3. IsTable(user', Users, UserRow)
        BY <2>1, <3>2, <4>2, PutTable DEF AccountsTyped
      <4>4. QED
        BY <3>2, <4>1, <4>2, <4>3 DEF AccountsTyped, Put
    <3>3. QED
      BY <1>3, <3>1, <3>2 DEF InsertUser
  <2>3. AccountsTyped'
    BY <1>3, <2>2 DEF InsertUser, AccountsTyped
  <2>4. CASE Ends(h)
    BY <2>3, <2>4, EndsTyped
  <2>5. ASSUME NEW q, Goes(h, q), q.at = "store", q.who = r(h).who, q.new = <<r(h).who, now>>
        PROVE  RequestsTyped'
    <3>1. Typed(q)
      BY <2>1, <2>5 DEF Typed, AccountTyped, GroupTyped, BasketTyped, TokenIds, AccountsTyped
    <3>2. QED
      BY <2>5, <3>1, GoesTyped
  <2>6. QED
    BY <1>3, <2>3, <2>4, <2>5 DEF InsertUser
<1>4. ASSUME NEW h \in Handlers, StoreRefreshToken(h) PROVE RequestsTyped' /\ AccountsTyped'
  <2>1. r(h).new \in TokenIds
    BY <1>4 DEF StoreRefreshToken, At, RequestsTyped, Typed, AccountTyped
  <2>2. token' = token \/ token' = Put(token, r(h).new, FALSE)
    BY <1>4 DEF StoreRefreshToken
  <2>3. IsTable(token', TokenIds, BOOLEAN)
    BY <2>1, <2>2, PutTable DEF AccountsTyped
  <2>4. QED
    BY <1>4, <2>3, EndsTyped DEF StoreRefreshToken, AccountsTyped
<1>5. ASSUME NEW h \in Handlers, RevokeRefreshToken(h) PROVE RequestsTyped' /\ AccountsTyped'
  <2>1. r(h).who \in Users
    BY <1>5 DEF RevokeRefreshToken, At, RequestsTyped, Typed, AccountTyped
  <2>2. AccountsTyped'
    BY <1>5 DEF RevokeRefreshToken, AccountsTyped, IsTable
  <2>3. CASE Ends(h)
    BY <2>2, <2>3, EndsTyped
  <2>4. ASSUME NEW q, Goes(h, q), q.at = "store", q.who = r(h).who, q.new = <<r(h).who, now>>
        PROVE  RequestsTyped'
    <3>1. Typed(q)
      BY <2>1, <2>4 DEF Typed, AccountTyped, GroupTyped, BasketTyped, TokenIds, AccountsTyped
    <3>2. QED
      BY <2>4, <3>1, GoesTyped
  <2>5. QED
    BY <1>5, <2>2, <2>3, <2>4 DEF RevokeRefreshToken
<1>6. ASSUME NEW h \in Handlers, SaveUser(h, referred) PROVE RequestsTyped' /\ AccountsTyped'
  <2>1. r(h).who \in Users /\ r(h).to \in Users /\ r(h).row \in UserRow
    BY <1>6 DEF SaveUser, At, RequestsTyped, Typed, AccountTyped
  <2> DEFINE there == {u \in DOMAIN user : user[u].id = r(h).row.id}
             others == Without(user, there)
  <2>2. /\ user' = user \/ user' = Put(others, r(h).to, r(h).row)
        /\ UNCHANGED <<token, loginEnabled, now, ended>>
    BY <1>6 DEF SaveUser
  <2>3. AccountsTyped'
    <3>1. CASE UNCHANGED user
      BY <2>2, <3>1 DEF AccountsTyped
    <3>2. CASE user' = Put(others, r(h).to, r(h).row)
      <4>1. /\ IsTable(others, Users, UserRow)
            /\ \A u, x \in DOMAIN others : others[u].id = others[x].id => u = x
            /\ \A u \in DOMAIN others : others[u].id # r(h).row.id
        BY WithoutTable DEF AccountsTyped, Without
      <4> HIDE DEF others
      <4>2. IsTable(user', Users, UserRow)
        BY <2>1, <3>2, <4>1, PutTable
      <4>3. \A u, x \in DOMAIN user' : user'[u].id = user'[x].id => u = x
        BY <3>2, <4>1 DEF Put
      <4>4. QED
        BY <2>2, <4>2, <4>3 DEF AccountsTyped
    <3>3. QED
      BY <2>2, <3>1, <3>2
  <2>4. CASE Ends(h)
    BY <2>3, <2>4, EndsTyped
  <2>5. ASSUME NEW q, Goes(h, q), q.at = "revokeAll", q.who = r(h).who, q.row = r(h).row
        PROVE  RequestsTyped'
    BY <2>1, <2>5, GoesTyped DEF Typed, AccountTyped, GroupTyped, BasketTyped
  <2>6. QED
    BY <1>6, <2>3, <2>4, <2>5 DEF SaveUser
<1>7. ASSUME NEW h \in Handlers, RevokeAllUserTokens(h) PROVE RequestsTyped' /\ AccountsTyped'
  BY <1>7, EndsTyped DEF RevokeAllUserTokens, AccountsTyped, IsTable, TokensOf
<1>8. ASSUME NEW h \in Handlers, AccountRequest(h) PROVE RequestsTyped' /\ AccountsTyped'
  <2>1. ASSUME NEW u \in Users, NEW p \in Passwords, NEW admin \in BOOLEAN, NEW kind,
               Register(h, u, p, admin, kind)
        PROVE  RequestsTyped' /\ AccountsTyped'
    BY <1>1, <2>1, GoesTyped DEF Register, Typed, AccountTyped, GroupTyped, BasketTyped
  <2>2. ASSUME NEW u \in Users, NEW p \in Passwords, Login(h, u, p)
        PROVE  RequestsTyped' /\ AccountsTyped'
    <3> DEFINE q == [at |-> "store", kind |-> "login", who |-> u, new |-> <<u, now>>]
    <3>1. Typed(q)
      BY DEF Typed, AccountTyped, GroupTyped, BasketTyped, TokenIds, AccountsTyped
    <3>2. Goes(h, q) /\ UNCHANGED accountVars
      BY <2>2 DEF Login
    <3> HIDE DEF q
    <3>3. QED
      BY <1>1, <3>1, <3>2, GoesTyped
  <2>3. ASSUME NEW k \in DOMAIN token, RefreshToken(h, k) \/ Logout(h, k)
        PROVE  RequestsTyped' /\ AccountsTyped'
    <3>1. k[1] \in Users
      BY DEF AccountsTyped, IsTable, TokenIds
    <3>2. QED
      BY <1>1, <2>3, <3>1, GoesTyped
         DEF RefreshToken, Logout, Typed, AccountTyped, GroupTyped, BasketTyped
  <2>4. ASSUME NEW u \in Users, NEW to \in Users, NEW p \in Passwords \cup {Rehashed},
               NEW admin \in BOOLEAN, ResetPassword(h, u, p) \/ UpdateUser(h, u, to, p, admin)
        PROVE  RequestsTyped' /\ AccountsTyped'
    <3>1. u \in DOMAIN user /\ user[u] \in UserRow
      BY <2>4 DEF ResetPassword, UpdateUser, AccountsTyped, IsTable
    <3>2. /\ [user[u] EXCEPT !.password = p] \in UserRow
          /\ [user[u] EXCEPT !.password = p, !.admin = admin] \in UserRow
      BY <3>1 DEF UserRow
    <3>3. PICK q : /\ Goes(h, q) /\ q.at = "saveUser" /\ q.who = u /\ q.to \in Users
                   /\ q.row \in UserRow
      BY <2>4, <3>2 DEF ResetPassword, UpdateUser
    <3>4. UNCHANGED accountVars
      BY <2>4 DEF ResetPassword, UpdateUser
    <3>5. Typed(q)
      BY <3>3 DEF Typed, AccountTyped, GroupTyped, BasketTyped
    <3>6. QED
      BY <1>1, <3>3, <3>4, <3>5, GoesTyped
  <2>5. ASSUME NEW u \in Users, DeleteUser(h, u) PROVE RequestsTyped' /\ AccountsTyped'
    <3>1. IsTable(user', Users, UserRow) /\ IsTable(token', TokenIds, BOOLEAN)
      BY <2>5, WithoutTable DEF DeleteUser, AccountsTyped
    <3>2. \A v, x \in DOMAIN user' : user'[v].id = user'[x].id => v = x
      BY <2>5 DEF DeleteUser, AccountsTyped, Without
    <3>3. QED
      BY <2>5, <3>1, <3>2, EndsTyped DEF DeleteUser, AccountsTyped
  <2>6. \A u \in DOMAIN user : u \in Users /\ user[u].admin \in BOOLEAN
    BY DEF AccountsTyped, IsTable, UserRow
  <2>7. QED
    BY <1>8, <2>1, <2>2, <2>3, <2>4, <2>5, <2>6 DEF AccountRequest
<1>9. QED
  BY <1>2, <1>3, <1>4, <1>5, <1>6, <1>7, <1>8 DEF AccountsNext

\* Groups and members.
LEMMA GroupSaved ==
    ASSUME MembershipsTyped, NEW g \in Groups, NEW row \in GroupRow, ~Taken(row.email, g),
           group' = Put(group, g, row), UNCHANGED <<member, invitation, late, spent>>
    PROVE  MembershipsTyped'
<1>1. IsTable(group', Groups, GroupRow)
  BY PutTable DEF MembershipsTyped
<1>2. \A y, x \in DOMAIN group' : group'[y].email = group'[x].email => y = x
  BY DEF MembershipsTyped, Put, Taken
<1>3. QED
  BY <1>1, <1>2 DEF MembershipsTyped

LEMMA MemberKept ==
    ASSUME MembershipsTyped, IsTable(member', Users \X Groups, MemberRow),
           UNCHANGED <<group, invitation, late, spent>>
    PROVE  MembershipsTyped'
BY DEF MembershipsTyped

LEMMA MemberUpdated ==
    ASSUME NEW row \in MemberRow
    PROVE  /\ \A role \in Roles : [row EXCEPT !.role = role] \in MemberRow
           /\ \A b \in BOOLEAN : [row EXCEPT !.isDefault = b] \in MemberRow
BY DEF MemberRow

\* An invitation that a request may still mark is one of the table.
LEMMA MembershipsKeepTypes ==
    RequestsOK /\ AccountsTyped /\ RequestsTyped /\ MembershipsTyped /\ MembershipsNext
        => RequestsTyped' /\ MembershipsTyped'
<1> SUFFICES ASSUME RequestsOK, AccountsTyped, RequestsTyped, MembershipsTyped, MembershipsNext
             PROVE  RequestsTyped' /\ MembershipsTyped'
  OBVIOUS
<1> DEFINE r(h) == request[h]
<1>1. ASSUME UNCHANGED membershipVars PROVE MembershipsTyped'
  BY <1>1 DEF MembershipsTyped, membershipVars
<1>2. CASE Expire
  BY <1>2 DEF Expire, RequestsTyped, MembershipsTyped
<1>3. ASSUME NEW h \in Handlers, InsertGroup(h) PROVE RequestsTyped' /\ MembershipsTyped'
  <2>1. r(h).who \in Users /\ r(h).email \in GroupEmails
    BY <1>3 DEF InsertGroup, At, RequestsTyped, Typed, GroupTyped
  <2>2. CASE Ends(h) /\ UNCHANGED group
    BY <1>1, <1>3, <2>2, EndsTyped DEF InsertGroup, membershipVars
  <2>3. ASSUME NEW g \in Groups, ~\E x \in DOMAIN group : group[x].email = r(h).email,
               group' = Put(group, g, [email |-> r(h).email, isActive |-> TRUE]),
               Goes(h, [at |-> "insertManager", kind |-> "create", who |-> r(h).who,
                        email |-> r(h).email, id |-> g, key |-> <<r(h).who, g>>])
        PROVE  RequestsTyped' /\ MembershipsTyped'
    <3> DEFINE q == [at |-> "insertManager", kind |-> "create", who |-> r(h).who,
                     email |-> r(h).email, id |-> g, key |-> <<r(h).who, g>>]
               row == [email |-> r(h).email, isActive |-> TRUE]
    <3>1. Typed(q)
      BY <2>1 DEF Typed, AccountTyped, GroupTyped, BasketTyped
    <3>2. row \in GroupRow /\ ~Taken(row.email, g)
      BY <2>1, <2>3 DEF GroupRow, Taken
    <3>3. UNCHANGED <<member, invitation, late, spent>>
      BY <1>3 DEF InsertGroup
    <3>4. group' = Put(group, g, row) /\ Goes(h, q)
      BY <2>3
    <3> HIDE DEF q, row
    <3>5. QED
      BY <3>1, <3>2, <3>3, <3>4, GoesTyped, GroupSaved
  <2>4. QED
    BY <1>3, <2>2, <2>3 DEF InsertGroup
<1>4. ASSUME NEW h \in Handlers, InsertManager(h) PROVE RequestsTyped' /\ MembershipsTyped'
  <2> DEFINE row == [id |-> FreshId(r(h).key), role |-> "manager", isDefault |-> TRUE]
  <2>1. r(h).key \in Users \X Groups /\ FreshId(r(h).key) \in 1..Copies
    BY <1>4, FreshIds DEF InsertManager, At, RequestsTyped, Typed, GroupTyped
  <2>2. row \in MemberRow
    BY <2>1, MembershipsAssumption DEF MemberRow
  <2>3. member' = member \/ member' = Inserted(member, r(h).key, row)
    BY <1>4 DEF InsertManager
  <2>4. Ends(h) /\ UNCHANGED <<group, invitation, late, spent>>
    BY <1>4 DEF InsertManager
  <2> HIDE DEF row
  <2>5. IsTable(member', Users \X Groups, MemberRow)
    BY <2>1, <2>2, <2>3, InsertedTable DEF MembershipsTyped
  <2>6. QED
    BY <2>4, <2>5, MemberKept, EndsTyped
<1>5. ASSUME NEW h \in Handlers, SaveGroup(h) PROVE RequestsTyped' /\ MembershipsTyped'
  <2>1. r(h).id \in Groups /\ r(h).group \in GroupRow
    BY <1>5 DEF SaveGroup, At, RequestsTyped, Typed, GroupTyped
  <2>2. CASE UNCHANGED group
    BY <1>1, <1>5, <2>2, EndsTyped DEF SaveGroup, membershipVars
  <2>3. CASE ~Taken(r(h).group.email, r(h).id)
    BY <1>5, <2>1, <2>3, EndsTyped, GroupSaved DEF SaveGroup
  <2>4. QED
    BY <1>5, <2>2, <2>3 DEF SaveGroup
<1>6. ASSUME NEW h \in Handlers, InsertMember(h) PROVE RequestsTyped' /\ MembershipsTyped'
  <2> DEFINE row == [id |-> FreshId(r(h).key), role |-> r(h).role, isDefault |-> r(h).isDefault]
  <2>1. /\ r(h).key \in Users \X Groups /\ r(h).role \in Roles /\ r(h).isDefault \in BOOLEAN
        /\ FreshId(r(h).key) \in 1..Copies
    BY <1>6, FreshIds DEF InsertMember, At, RequestsTyped, Typed, GroupTyped
  <2>2. row \in MemberRow
    BY <2>1 DEF MemberRow
  <2>3. member' = member \/ member' = Inserted(member, r(h).key, row)
    BY <1>6 DEF InsertMember
  <2>4. UNCHANGED <<group, invitation, late, spent>>
    BY <1>6 DEF InsertMember
  <2> HIDE DEF row
  <2>5. IsTable(member', Users \X Groups, MemberRow)
    BY <2>1, <2>2, <2>3, InsertedTable DEF MembershipsTyped
  <2>6. RequestsTyped'
    BY <1>6, GoesTyped, EndsTyped
       DEF InsertMember, Typed, AccountTyped, GroupTyped, BasketTyped
  <2>7. QED
    BY <2>4, <2>5, <2>6, MemberKept
<1>7. ASSUME NEW h \in Handlers, ClearDefaults(h) PROVE RequestsTyped' /\ MembershipsTyped'
  <2>1. r(h).key \in Users \X Groups /\ r(h).row \in MemberRow
    BY <1>7 DEF ClearDefaults, At, RequestsTyped, Typed, GroupTyped
  <2>2. \A k \in DOMAIN member : /\ member[k] \in MemberRow
                                 /\ [member[k] EXCEPT !.isDefault = FALSE] \in MemberRow
    BY MemberUpdated DEF MembershipsTyped, IsTable
  <2>3. IsTable(member', Users \X Groups, MemberRow)
    BY <1>7, <2>2 DEF ClearDefaults, MembershipsTyped, IsTable
  <2>4. RequestsTyped'
    BY <1>7, <2>1, GoesTyped DEF ClearDefaults, Typed, AccountTyped, GroupTyped, BasketTyped
  <2>5. QED
    BY <1>7, <2>3, <2>4, MemberKept DEF ClearDefaults
<1>8. ASSUME NEW h \in Handlers, SaveMember(h) PROVE RequestsTyped' /\ MembershipsTyped'
  <2>1. r(h).key \in Users \X Groups /\ r(h).row \in MemberRow
    BY <1>8 DEF SaveMember, At, RequestsTyped, Typed, GroupTyped
  <2>2. member' = member \/ member' = Saved(member, r(h).key, r(h).row)
    BY <1>8 DEF SaveMember
  <2>3. IsTable(member', Users \X Groups, MemberRow)
    BY <2>1, <2>2, SavedTable DEF MembershipsTyped
  <2>4. QED
    BY <1>8, <2>3, MemberKept, EndsTyped DEF SaveMember
<1>9. ASSUME NEW h \in Handlers, MarkUsed(h) PROVE RequestsTyped' /\ MembershipsTyped'
  <2> DEFINE i == r(h).invitation
             row == [invitation[i] EXCEPT !.isUsed = TRUE]
  <2>1. i \in DOMAIN invitation /\ invitation[i] \in InvitationRow /\ i \in Invitations
    BY <1>9 DEF MarkUsed, At, RequestsOK, Marks, MembershipsTyped, IsTable
  <2>2. row \in InvitationRow
    BY <2>1 DEF InvitationRow
  <2>3. invitation' = [invitation EXCEPT ![i] = row]
    BY <1>9 DEF MarkUsed
  <2>4. Ends(h) /\ spent' = spent \cup {i} /\ UNCHANGED <<group, member, late>>
    BY <1>9 DEF MarkUsed
  <2> HIDE DEF row, i
  <2>5. QED
    BY <2>1, <2>2, <2>3, <2>4, EndsTyped DEF MembershipsTyped, IsTable
<1>10. ASSUME NEW h \in Handlers, GroupRequest(h) PROVE RequestsTyped' /\ MembershipsTyped'
  <2>1. ASSUME NEW u \in Users, NEW x \in GroupEmails, Create(h, u, x)
        PROVE  RequestsTyped' /\ MembershipsTyped'
    BY <1>1, <2>1, GoesTyped DEF Create, Typed, AccountTyped, GroupTyped, BasketTyped
  <2>2. ASSUME NEW g \in DOMAIN group, NEW row \in GroupRow, UNCHANGED membershipVars,
               Goes(h, [at |-> "saveGroup", kind |-> "group", id |-> g, group |-> row])
        PROVE  RequestsTyped' /\ MembershipsTyped'
    <3>1. g \in Groups
      BY DEF MembershipsTyped, IsTable
    <3>2. QED
      BY <1>1, <2>2, <3>1, GoesTyped DEF Typed, AccountTyped, GroupTyped, BasketTyped
  <2>3. ASSUME NEW g \in DOMAIN group
        PROVE  /\ \A x \in GroupEmails : [group[g] EXCEPT !.email = x] \in GroupRow
               /\ \A b \in BOOLEAN : [group[g] EXCEPT !.isActive = b] \in GroupRow
    BY DEF MembershipsTyped, IsTable, GroupRow
  <2>4. ASSUME NEW g \in DOMAIN group, NEW u, NEW x \in GroupEmails, Update(h, u, g, x)
        PROVE  RequestsTyped' /\ MembershipsTyped'
    BY <2>2, <2>3, <2>4 DEF Update
  <2>5. ASSUME NEW g \in DOMAIN group, NEW b \in BOOLEAN, UpdateStatus(h, g, b)
        PROVE  RequestsTyped' /\ MembershipsTyped'
    BY <2>2, <2>3, <2>5 DEF UpdateStatus
  <2>6. ASSUME NEW g \in DOMAIN group, NEW u, Delete(h, u, g)
        PROVE  RequestsTyped' /\ MembershipsTyped'
    <3>1. IsTable(group', Groups, GroupRow) /\ IsTable(member', Users \X Groups, MemberRow)
      BY <2>6, WithoutTable DEF Delete, MembershipsTyped
    <3>2. \A y, x \in DOMAIN group' : group'[y].email = group'[x].email => y = x
      BY <2>6 DEF Delete, MembershipsTyped, Without
    <3>3. QED
      BY <2>6, <3>1, <3>2, EndsTyped DEF Delete, MembershipsTyped
  <2>7. QED
    BY <1>10, <2>1, <2>4, <2>5, <2>6 DEF GroupRequest
<1>11. ASSUME NEW h \in Handlers, MemberRequest(h) PROVE RequestsTyped' /\ MembershipsTyped'
  <2>1. ASSUME NEW q, AddMember(h, q), q.at = "insertMember", q.key \in Users \X Groups,
               q.role \in Roles, "row" \notin DOMAIN q, {"at", "isDefault"} \subseteq DOMAIN q
        PROVE  RequestsTyped' /\ MembershipsTyped'
    <3> DEFINE p == [q EXCEPT !.isDefault = GroupsOf(q.key[1]) = {}]
    <3>1. Goes(h, p) /\ UNCHANGED membershipVars
      BY <2>1 DEF AddMember
    <3>2. /\ p.at = "insertMember" /\ p.key = q.key /\ p.role = q.role
          /\ p.isDefault \in BOOLEAN /\ DOMAIN p = DOMAIN q
      BY <2>1
    <3> HIDE DEF p
    <3>3. Typed(p)
      BY <2>1, <3>2 DEF Typed, AccountTyped, GroupTyped, BasketTyped
    <3>4. QED
      BY <1>1, <3>1, <3>3, GoesTyped
  <2>2. ASSUME NEW m, NEW u \in Users, NEW g \in DOMAIN group, NEW role \in {"client", "manager"},
               JoinGroup(h, m, u, g, role)
        PROVE  RequestsTyped' /\ MembershipsTyped'
    <3> DEFINE q == [at |-> "insertMember", kind |-> "join", key |-> <<u, g>>, role |-> role,
                     isDefault |-> FALSE, expires |-> FALSE]
    <3>1. AddMember(h, q)
      BY <2>2 DEF JoinGroup
    <3>2. g \in Groups /\ role \in Roles
      BY MembershipsAssumption DEF MembershipsTyped, IsTable
    <3>3. /\ q.at = "insertMember" /\ q.key \in Users \X Groups /\ q.role \in Roles
          /\ "row" \notin DOMAIN q /\ {"at", "isDefault"} \subseteq DOMAIN q
      BY <3>2
    <3> HIDE DEF q
    <3>4. QED
      BY <2>1, <3>1, <3>3
  <2>3. ASSUME NEW u \in DOMAIN user, NEW i \in DOMAIN invitation, UseInvitation(h, u, i)
        PROVE  RequestsTyped' /\ MembershipsTyped'
    <3> DEFINE q == [at |-> "insertMember", kind |-> "use", key |-> <<u, invitation[i].group>>,
                     role |-> invitation[i].role, isDefault |-> FALSE,
                     expires |-> invitation[i].expires, invitation |-> i]
    <3>1. AddMember(h, q)
      BY <2>3 DEF UseInvitation
    <3>2. u \in Users /\ invitation[i].group \in Groups /\ invitation[i].role \in Roles
      BY DEF AccountsTyped, MembershipsTyped, IsTable, InvitationRow
    <3>3. /\ q.at = "insertMember" /\ q.key \in Users \X Groups /\ q.role \in Roles
          /\ "row" \notin DOMAIN q /\ {"at", "isDefault"} \subseteq DOMAIN q
      BY <3>2
    <3> HIDE DEF q
    <3>4. QED
      BY <2>1, <3>1, <3>3
  <2>4. ASSUME NEW m, NEW u, NEW g, RemoveMember(h, m, u, g)
        PROVE  RequestsTyped' /\ MembershipsTyped'
    BY <2>4, WithoutTable, MemberKept, EndsTyped DEF RemoveMember, MembershipsTyped
  <2>5. ASSUME NEW k \in DOMAIN member, NEW row \in MemberRow, NEW q, Goes(h, q),
               q.at \in {"clear", "saveMember"}, q.key = <<k[1], k[2]>>, q.row = row,
               UNCHANGED membershipVars
        PROVE  RequestsTyped' /\ MembershipsTyped'
    <3>1. <<k[1], k[2]>> \in Users \X Groups
      BY DEF MembershipsTyped, IsTable
    <3>2. Typed(q)
      BY <2>5, <3>1 DEF Typed, AccountTyped, GroupTyped, BasketTyped
    <3>3. QED
      BY <1>1, <2>5, <3>2, GoesTyped
  <2>6. ASSUME NEW k \in DOMAIN member
        PROVE  <<k[1], k[2]>> = k /\ member[k] \in MemberRow
    BY DEF MembershipsTyped, IsTable
  <2>7. ASSUME NEW m, NEW k \in DOMAIN member, NEW role \in Roles,
               UpdateMemberRole(h, m, k[1], k[2], role)
        PROVE  RequestsTyped' /\ MembershipsTyped'
    <3> DEFINE row == [member[k] EXCEPT !.role = role]
    <3>1. row \in MemberRow
      BY <2>6, MemberUpdated
    <3>2. PICK q : /\ Goes(h, q) /\ q.at = "saveMember" /\ q.key = <<k[1], k[2]>> /\ q.row = row
                   /\ UNCHANGED membershipVars
      BY <2>6, <2>7 DEF UpdateMemberRole
    <3>3. QED
      BY <2>5, <3>1, <3>2
  <2>8. ASSUME NEW k \in DOMAIN member, SetDefaultGroup(h, k[1], k[2])
        PROVE  RequestsTyped' /\ MembershipsTyped'
    <3> DEFINE row == [member[k] EXCEPT !.isDefault = TRUE]
    <3>1. row \in MemberRow
      BY <2>6, MemberUpdated
    <3>2. PICK q : /\ Goes(h, q) /\ q.at = "clear" /\ q.key = <<k[1], k[2]>> /\ q.row = row
                   /\ UNCHANGED membershipVars
      BY <2>6, <2>8 DEF SetDefaultGroup
    <3>3. QED
      BY <2>5, <3>1, <3>2
  <2>9. ASSUME NEW m, NEW i \in Invitations, NEW row \in InvitationRow,
               CreateInvitation(h, m, i, row)
        PROVE  RequestsTyped' /\ MembershipsTyped'
    BY <2>9, PutTable, EndsTyped DEF CreateInvitation, MembershipsTyped
  <2>10. QED
    BY <1>11, <2>2, <2>3, <2>4, <2>7, <2>8, <2>9 DEF MemberRequest
<1>12. QED
  BY <1>2, <1>3, <1>4, <1>5, <1>6, <1>7, <1>8, <1>9, <1>10, <1>11 DEF MembershipsNext

\* Basket schedules.
LEMMA BasketsKeepTypes ==
    RequestsTyped /\ MembershipsTyped /\ BasketsTyped /\ BasketNext
        => RequestsTyped' /\ BasketsTyped'
<1> SUFFICES ASSUME RequestsTyped, MembershipsTyped, BasketsTyped, BasketNext
             PROVE  RequestsTyped' /\ BasketsTyped'
  OBVIOUS
<1> DEFINE r(h) == request[h]
<1>1. ASSUME UNCHANGED basketVars PROVE BasketsTyped'
  BY <1>1 DEF BasketsTyped, basketVars
<1>2. ASSUME NEW h \in Handlers, SaveVote(h) PROVE RequestsTyped' /\ BasketsTyped'
  <2>1. /\ r(h).key \in Groups \X Users \X Dates /\ r(h).status \in Statuses
        /\ "row" \in DOMAIN r(h) => r(h).row \in VoteRow
    BY <1>2 DEF SaveVote, At, RequestsTyped, Typed, BasketTyped
  <2>2. CASE UNCHANGED vote
    BY <1>1, <1>2, <2>2, EndsTyped DEF SaveVote, basketVars
  <2>3. CASE "row" \in DOMAIN r(h) /\ vote' = Saved(vote, r(h).key, r(h).row)
    BY <1>2, <2>1, <2>3, SavedTable, EndsTyped DEF SaveVote, BasketsTyped
  <2>4. CASE /\ "row" \notin DOMAIN r(h)
             /\ vote' = Inserted(vote, r(h).key, [id |-> FreshId(r(h).key), status |-> r(h).status])
    <3> DEFINE row == [id |-> FreshId(r(h).key), status |-> r(h).status]
    <3>1. row \in VoteRow
      BY <2>1, <2>4, FreshIds DEF VoteRow
    <3>2. vote' = Inserted(vote, r(h).key, row)
      BY <2>4
    <3> HIDE DEF row
    <3>3. IsTable(vote', Groups \X Users \X Dates, VoteRow)
      BY <2>1, <3>1, <3>2, InsertedTable DEF BasketsTyped
    <3>4. QED
      BY <1>2, <3>3, EndsTyped DEF SaveVote, BasketsTyped
  <2>5. QED
    BY <1>2, <2>2, <2>3, <2>4 DEF SaveVote
<1>3. ASSUME NEW h \in Handlers, SaveAssignment(h) PROVE RequestsTyped' /\ BasketsTyped'
  <2>1. /\ r(h).key \in Groups \X Dates /\ r(h).user \in Users
        /\ "row" \in DOMAIN r(h) => r(h).row \in TurnRow
    BY <1>3 DEF SaveAssignment, At, RequestsTyped, Typed, BasketTyped
  <2>2. CASE UNCHANGED turn
    BY <1>1, <1>3, <2>2, EndsTyped DEF SaveAssignment, basketVars
  <2>3. CASE "row" \in DOMAIN r(h) /\ turn' = Saved(turn, r(h).key, r(h).row)
    BY <1>3, <2>1, <2>3, SavedTable, EndsTyped DEF SaveAssignment, BasketsTyped
  <2>4. CASE /\ "row" \notin DOMAIN r(h)
             /\ turn' = Inserted(turn, r(h).key, [id |-> FreshId(r(h).key), user |-> r(h).user])
    <3> DEFINE row == [id |-> FreshId(r(h).key), user |-> r(h).user]
    <3>1. row \in TurnRow
      BY <2>1, <2>4, FreshIds DEF TurnRow
    <3>2. turn' = Inserted(turn, r(h).key, row)
      BY <2>4
    <3> HIDE DEF row
    <3>3. IsTable(turn', Groups \X Dates, TurnRow)
      BY <2>1, <3>1, <3>2, InsertedTable DEF BasketsTyped
    <3>4. QED
      BY <1>3, <3>3, EndsTyped DEF SaveAssignment, BasketsTyped
  <2>5. QED
    BY <1>3, <2>2, <2>3, <2>4 DEF SaveAssignment
<1>4. ASSUME NEW h \in Handlers, SaveConfig(h) PROVE RequestsTyped' /\ BasketsTyped'
  <2> DEFINE old == IF r(h).id \in DOMAIN config THEN config[r(h).id]
                    ELSE [c \in ConfigColumns |-> Unset]
             row == Over(r(h).sent, old)
  <2>1. r(h).id \in Groups /\ IsTable(r(h).sent, ConfigColumns, Settings \cup {Unset})
    BY <1>4 DEF SaveConfig, At, RequestsTyped, Typed, BasketTyped
  <2>2. old \in [ConfigColumns -> Settings \cup {Unset}]
    BY DEF BasketsTyped, IsTable
  <2>3. config' = IF r(h).id \in DOMAIN group THEN Put(config, r(h).id, row) ELSE config
    BY <1>4 DEF SaveConfig
  <2>4. Ends(h) /\ UNCHANGED <<vote, turn>>
    BY <1>4 DEF SaveConfig
  <2> HIDE DEF old
  <2>5. row \in [ConfigColumns -> Settings \cup {Unset}]
    BY <2>1, <2>2 DEF Over, IsTable
  <2> HIDE DEF row
  <2>6. IsTable(config', Groups, [ConfigColumns -> Settings \cup {Unset}])
    BY <2>1, <2>3, <2>5, PutTable DEF BasketsTyped
  <2>7. QED
    BY <2>4, <2>6, EndsTyped DEF BasketsTyped
<1>5. DOMAIN group \subseteq Groups
  BY DEF MembershipsTyped, IsTable
<1>6. ASSUME NEW h \in Handlers, NEW m, NEW u \in Users, NEW g \in Groups, NEW d \in Dates,
             NEW status \in Statuses, SetVote(h, m, u, g, d, status)
      PROVE  RequestsTyped' /\ BasketsTyped'
  <2> DEFINE k == <<g, u, d>>
  <2>1. CASE Goes(h, [at |-> "saveVote", kind |-> "vote", key |-> k, status |-> status])
    BY <1>1, <1>6, <2>1, GoesTyped
       DEF SetVote, Typed, AccountTyped, GroupTyped, BasketTyped
  <2>2. CASE k \in DOMAIN vote
    <3> DEFINE row == [vote[k] EXCEPT !.status = status]
               q == [at |-> "saveVote", kind |-> "vote", key |-> k, status |-> status, row |-> row]
    <3>1. row \in VoteRow
      BY <2>2 DEF BasketsTyped, IsTable, VoteRow
    <3> HIDE DEF row
    <3>2. Typed(q)
      BY <3>1 DEF Typed, AccountTyped, GroupTyped, BasketTyped
    <3>3. Goes(h, q) /\ UNCHANGED basketVars
      BY <1>6, <2>2 DEF SetVote, row
    <3> HIDE DEF q
    <3>4. QED
      BY <1>1, <3>2, <3>3, GoesTyped
  <2>3. QED
    BY <1>6, <2>1, <2>2 DEF SetVote
<1>7. ASSUME NEW h \in Handlers, NEW m, NEW g \in Groups, NEW d \in Dates, NEW u \in Users,
             SetAssignment(h, m, g, d, u)
      PROVE  RequestsTyped' /\ BasketsTyped'
  <2> DEFINE k == <<g, d>>
  <2>1. CASE Goes(h, [at |-> "saveTurn", kind |-> "turn", key |-> k, user |-> u])
    BY <1>1, <1>7, <2>1, GoesTyped
       DEF SetAssignment, Typed, AccountTyped, GroupTyped, BasketTyped
  <2>2. CASE k \in DOMAIN turn
    <3> DEFINE row == [turn[k] EXCEPT !.user = u]
               q == [at |-> "saveTurn", kind |-> "turn", key |-> k, user |-> u, row |-> row]
    <3>1. row \in TurnRow
      BY <2>2 DEF BasketsTyped, IsTable, TurnRow
    <3> HIDE DEF row
    <3>2. Typed(q)
      BY <3>1 DEF Typed, AccountTyped, GroupTyped, BasketTyped
    <3>3. Goes(h, q) /\ UNCHANGED basketVars
      BY <1>7, <2>2 DEF SetAssignment, row
    <3> HIDE DEF q
    <3>4. QED
      BY <1>1, <3>2, <3>3, GoesTyped
  <2>3. QED
    BY <1>7, <2>1, <2>2 DEF SetAssignment
<1>8. ASSUME NEW h \in Handlers, NEW m, NEW g \in Groups, NEW dto \in ConfigDto,
             UpsertConfig(h, m, g, dto)
      PROVE  RequestsTyped' /\ BasketsTyped'
  <2> DEFINE sent == IF g \in DOMAIN config THEN Over(dto, config[g]) ELSE dto
             q == [at |-> "saveConfig", kind |-> "config", id |-> g, sent |-> sent]
  <2>1. IsTable(dto, ConfigColumns, Settings \cup {Unset})
    BY DEF ConfigDto, IsTable
  <2>2. IsTable(sent, ConfigColumns, Settings \cup {Unset})
    BY <2>1 DEF BasketsTyped, IsTable, Over
  <2> HIDE DEF sent
  <2>3. Typed(q)
    BY <2>2 DEF Typed, AccountTyped, GroupTyped, BasketTyped
  <2>4. Goes(h, q) /\ UNCHANGED basketVars
    BY <1>8 DEF UpsertConfig, sent
  <2> HIDE DEF q
  <2>5. QED
    BY <1>1, <2>3, <2>4, GoesTyped
<1>9. ASSUME NEW h \in Handlers, NEW m, NEW u, NEW g, NEW d,
             ClearVote(h, m, u, g, d) \/ ClearAssignment(h, m, g, d)
      PROVE  RequestsTyped' /\ BasketsTyped'
  BY <1>9, WithoutTable, EndsTyped DEF ClearVote, ClearAssignment, BasketsTyped
<1>10. QED
  BY <1>2, <1>3, <1>4, <1>5, <1>6, <1>7, <1>8, <1>9 DEF BasketNext

\* What a deletion carries on keeps the types of the rows that stay.
LEMMA CascadesKeepTypes ==
    /\ MembershipsTyped /\ BasketsTyped /\ CascadeUsers => MembershipsTyped' /\ BasketsTyped'
    /\ AccountsTyped /\ BasketsTyped /\ CascadeGroups => AccountsTyped' /\ BasketsTyped'
<1>1. ASSUME MembershipsTyped, BasketsTyped, CascadeUsers PROVE MembershipsTyped' /\ BasketsTyped'
  BY <1>1 DEF CascadeUsers, MembershipsTyped, BasketsTyped, IsTable, basketVars
<1>2. ASSUME AccountsTyped, BasketsTyped, CascadeGroups PROVE AccountsTyped' /\ BasketsTyped'
  BY <1>2 DEF CascadeGroups, AccountsTyped, BasketsTyped, IsTable, accountVars
<1>3. QED
  BY <1>1, <1>2

LEMMA TypesInvariant == Spec => [](RequestsTyped /\ CommunityTypeOK)
<1>1. Init => RequestsTyped /\ CommunityTypeOK
  <2> SUFFICES ASSUME Init PROVE RequestsTyped /\ CommunityTypeOK
    OBVIOUS
  <2>1. RequestsTyped
    BY IdleTyped DEF Init, RequestsTyped
  <2>2. PICK s \in Scenes :
            user = s.user /\ group = s.group /\ member = s.member /\ invitation = s.invitation
    BY DEF Init
  <2>3. /\ IsTable(user, Users, UserRow) /\ IsTable(group, Groups, GroupRow)
        /\ \A u, x \in DOMAIN user : user[u].id = user[x].id => u = x
    BY <2>2, CommunityAssumption
  <2>4. IsTable(member, Users \X Groups, MemberRow)
    BY <2>2, CommunityAssumption DEF IsTable
  <2>5. /\ IsTable(invitation, Invitations, InvitationRow)
        /\ \A g, x \in DOMAIN group : group[g].email = group[x].email => g = x
    BY <2>2, CommunityAssumption
  <2>6. AccountsTyped
    BY <2>3, AccountsAssumption DEF Init, AccountsTyped, IsTable
  <2>7. MembershipsTyped
    BY <2>3, <2>4, <2>5 DEF Init, MembershipsTyped
  <2>8. BasketsTyped
    BY DEF Init, BasketsTyped, IsTable
  <2>9. QED
    BY <2>1, <2>6, <2>7, <2>8, TypesParts
<1>2. RequestsOK /\ RequestsTyped /\ CommunityTypeOK /\ [Next]_vars
          => RequestsTyped' /\ CommunityTypeOK'
  <2> SUFFICES ASSUME RequestsOK, RequestsTyped, CommunityTypeOK, [Next]_vars
               PROVE  RequestsTyped' /\ CommunityTypeOK'
    OBVIOUS
  <2>1. AccountsTyped /\ MembershipsTyped /\ BasketsTyped
    BY TypesParts
  <2>2. SUFFICES RequestsTyped' /\ AccountsTyped' /\ MembershipsTyped' /\ BasketsTyped'
    BY DEF CommunityTypeOK, AccountsTyped, MembershipsTyped, BasketsTyped
  <2>3. CASE AccountsNext(Referred) /\ CascadeUsers
    BY <2>1, <2>3, AccountsKeepTypes, CascadesKeepTypes
  <2>4. CASE MembershipsNext /\ CascadeGroups
    BY <2>1, <2>4, MembershipsKeepTypes, CascadesKeepTypes
  <2>5. ASSUME UNCHANGED <<accountVars, membershipVars>> PROVE AccountsTyped' /\ MembershipsTyped'
    BY <2>1, <2>5 DEF AccountsTyped, MembershipsTyped, accountVars, membershipVars
  <2>6. ASSUME UNCHANGED basketVars PROVE BasketsTyped'
    BY <2>1, <2>6 DEF BasketsTyped, basketVars
  <2>7. CASE BasketNext /\ UNCHANGED <<accountVars, membershipVars>>
    BY <2>1, <2>5, <2>7, BasketsKeepTypes
  <2>8. CASE Restart
    BY <2>5, <2>6, <2>8, IdleTyped DEF Restart, RequestsTyped
  <2>9. CASE UNCHANGED vars
    BY <2>5, <2>6, <2>9 DEF vars, tables, accountVars, membershipVars, basketVars, RequestsTyped
  <2>10. QED
    BY <2>3, <2>4, <2>7, <2>8, <2>9 DEF Next, Step
<1>3. QED
  BY <1>1, <1>2, RequestsInvariant, PTL DEF Spec

\* For every value of the constants, CommunityTypeOK holds in every reachable state: rows
\* that requests read before others wrote are saved with their types, and no two groups ever
\* have the same e-mail, although create and update check it before they write.
THEOREM CommunityTypesHold == Spec => []CommunityTypeOK
BY TypesInvariant, PTL

-----------------------------------------------------------------------------
(* Requests that nobody disturbs *)

Rows ==
    [user |-> user, token |-> token, group |-> group, member |-> member,
     invitation |-> invitation, vote |-> vote, turn |-> turn, config |-> config]

\* Tables, of rows s.
View(s) ==
    [user |-> Profiles(s.user), token |-> s.token, group |-> s.group,
     role |-> Plain(s.member, "role"), isDefault |-> Plain(s.member, "isDefault"),
     isUsed |-> Plain(s.invitation, "isUsed"),
     vote |-> Plain(s.vote, "status"), turn |-> Plain(s.turn, "user"), config |-> s.config]

\* How far a request r has come from tables t, to rows s, if nobody else has changed them;
\* and what it has read is still so.
AccountHalfway(r, t, s) ==
    /\ r.at = "insertUser" =>
          /\ r.kind \in {"register", "createUser"} /\ r.who \notin DOMAIN s.user
          /\ View(s) = t
    /\ r.at = "revoke" =>
          /\ r.kind \in {"refresh", "logout"} /\ r.old \in DOMAIN s.token /\ r.who = r.old[1]
          /\ View(s) = t
    /\ r.at = "store" =>
          /\ r.who \in DOMAIN s.user
          /\ \/ /\ r.kind = "register"
                /\ View(s) = [t EXCEPT !.user = Put(t.user, r.who, Says(r))]
             \/ r.kind = "login" /\ View(s) = t
             \/ /\ r.kind = "refresh"
                /\ View(s) = [t EXCEPT !.token = [t.token EXCEPT ![r.old] = TRUE]]
    /\ r.at = "saveUser" =>
          /\ r.kind \in {"reset", "profile"}
          /\ r.who \in DOMAIN s.user /\ s.user[r.who].id = r.row.id
          /\ r.kind = "reset" => r.to = r.who
          /\ View(s) = t
    /\ r.at = "revokeAll" =>
          /\ r.kind = "reset"
          /\ View(s) = [t EXCEPT !.user = [t.user EXCEPT ![r.who] = Says(r.row)]]

GroupHalfway(r, t, s) ==
    /\ r.at = "insertGroup" =>
          /\ r.kind = "create" /\ \A g \in DOMAIN s.group : s.group[g].email # r.email
          /\ View(s) = t
    /\ r.at = "insertManager" =>
          /\ r.kind = "create" /\ r.key = <<r.who, r.id>>
          /\ r.id \in DOMAIN s.group /\ r.key \notin DOMAIN s.member
          /\ View(s) = [t EXCEPT !.group =
                           Put(t.group, r.id, [email |-> r.email, isActive |-> TRUE])]
    /\ r.at = "saveGroup" =>
          /\ r.kind = "group" /\ r.id \in DOMAIN s.group
          /\ \A g \in DOMAIN s.group \ {r.id} : s.group[g].email # r.group.email
          /\ View(s) = t

MemberHalfway(r, t, s) ==
    /\ r.at = "insertMember" =>
          /\ r.kind \in {"join", "use"}
          /\ r.key[1] \in DOMAIN s.user /\ r.key[2] \in DOMAIN s.group
          /\ r.key \notin DOMAIN s.member
          /\ r.isDefault = \A k \in DOMAIN s.member : k[1] # r.key[1]
          /\ View(s) = t
    /\ r.at = "mark" =>
          /\ r.kind = "use" /\ r.expires
          /\ View(s) = [t EXCEPT !.role = Put(t.role, r.key, r.role),
                                 !.isDefault = Put(t.isDefault, r.key,
                                                   \A k \in DOMAIN t.role : k[1] # r.key[1])]
    /\ r.at = "clear" =>
          /\ r.kind = "default" /\ r.key \in DOMAIN s.member
          /\ r.row = [s.member[r.key] EXCEPT !.isDefault = TRUE]
          /\ View(s) = t
    /\ r.at = "saveMember" =>
          /\ r.key \in DOMAIN s.member /\ s.member[r.key].id = r.row.id
          /\ \/ /\ r.kind = "role" /\ s.member[r.key].isDefault = r.row.isDefault
                /\ View(s) = t
             \/ /\ r.kind = "default" /\ s.member[r.key].role = r.row.role /\ r.row.isDefault
                /\ t.isDefault \in [DOMAIN t.role -> BOOLEAN]
                /\ View(s) = [t EXCEPT !.isDefault =
                                 [k \in DOMAIN t.role |-> k[1] # r.key[1] /\ t.isDefault[k]]]

BasketHalfway(r, t, s) ==
    /\ r.at = "saveVote" =>
          /\ r.kind = "vote" /\ r.key[1] \in DOMAIN s.group
          /\ "row" \in DOMAIN r <=> r.key \in DOMAIN s.vote
          /\ "row" \in DOMAIN r => r.row = [s.vote[r.key] EXCEPT !.status = r.status]
          /\ View(s) = t
    /\ r.at = "saveTurn" =>
          /\ r.kind = "turn" /\ r.key[1] \in DOMAIN s.group
          /\ "row" \in DOMAIN r <=> r.key \in DOMAIN s.turn
          /\ "row" \in DOMAIN r => r.row = [s.turn[r.key] EXCEPT !.user = r.user]
          /\ View(s) = t
    /\ r.at = "saveConfig" =>
          /\ r.kind = "config" /\ r.id \in DOMAIN s.group
          /\ View(s) = t

IsView(t) ==
    t = [user |-> t.user, token |-> t.token, group |-> t.group, role |-> t.role,
         isDefault |-> t.isDefault, isUsed |-> t.isUsed, vote |-> t.vote, turn |-> t.turn,
         config |-> t.config]

Halfway(r, t, s) ==
    /\ IsView(t)
    /\ AccountHalfway(r, t, s) /\ GroupHalfway(r, t, s)
    /\ MemberHalfway(r, t, s) /\ BasketHalfway(r, t, s)

Undisturbed ==
    \A h \in Handlers : \A t \in was[h] : request[h] # Idle /\ Halfway(request[h], t, Rows)

\* A step of a request that is under way: it ends with what was promised, or gets on.
Progresses(h) ==
    \E q : /\ Goes(h, q)
           /\ \A t : Halfway(request[h], t, Rows)
                        => IF q = Idle
                           THEN Promises(request[h], t) => Tables' = Promised(request[h], t)
                           ELSE q # request[h] /\ Halfway(q, t, Rows')

\* A request that begins, and may end at once.
Starts(h) == \E q : Goes(h, q) /\ (q # Idle => Halfway(q, Tables, Rows'))

LEMMA TablesView == Tables = View(Rows) /\ Tables' = View(Rows')
BY DEF Tables, View, Rows

LEMMA TablesIsView == IsView(Tables)
BY DEF Tables, IsView

LEMMA RowsFields ==
    /\ /\ Rows.user = user /\ Rows.token = token /\ Rows.group = group /\ Rows.member = member
       /\ Rows.invitation = invitation /\ Rows.vote = vote /\ Rows.turn = turn
       /\ Rows.config = config
    /\ /\ Rows'.user = user' /\ Rows'.token = token' /\ Rows'.group = group'
       /\ Rows'.member = member' /\ Rows'.invitation = invitation' /\ Rows'.vote = vote'
       /\ Rows'.turn = turn' /\ Rows'.config = config'
BY DEF Rows

LEMMA TablesFields ==
    /\ Tables.user = Profiles(user) /\ Tables.token = token /\ Tables.group = group
    /\ Tables.role = Plain(member, "role") /\ Tables.isDefault = Plain(member, "isDefault")
    /\ Tables.isUsed = Plain(invitation, "isUsed") /\ Tables.vote = Plain(vote, "status")
    /\ Tables.turn = Plain(turn, "user") /\ Tables.config = config
BY DEF Tables

LEMMA ProfilesPut ==
    ASSUME NEW f, NEW u, NEW row
    PROVE  Profiles(Put(f, u, row)) = Put(Profiles(f), u, Says(row))
BY DEF Profiles, Put

LEMMA ProfilesWithout ==
    ASSUME NEW f, NEW D
    PROVE  Profiles(Without(f, D)) = Without(Profiles(f), D)
BY DEF Profiles, Without

LEMMA ProfilesFunction ==
    ASSUME NEW f
    PROVE  /\ DOMAIN Profiles(f) = DOMAIN f
           /\ Profiles(f) = [u \in DOMAIN Profiles(f) |-> Profiles(f)[u]]
BY DEF Profiles

LEMMA PlainPut ==
    ASSUME NEW f, NEW k, NEW row, NEW c
    PROVE  Plain(Put(f, k, row), c) = Put(Plain(f, c), k, row[c])
BY DEF Plain, Put

LEMMA PutAgain ==
    ASSUME NEW f, f = [x \in DOMAIN f |-> f[x]], NEW k \in DOMAIN f, NEW v
    PROVE  Put(Without(f, {k}), k, v) = [f EXCEPT ![k] = v]
<1>1. (DOMAIN f \ {k}) \cup {k} = DOMAIN f
  OBVIOUS
<1>2. Put(Without(f, {k}), k, v) = [x \in DOMAIN f |-> IF x = k THEN v ELSE f[x]]
  BY <1>1 DEF Put, Without
<1>3. QED
  BY <1>2

LEMMA PutThere ==
    ASSUME NEW f, f = [x \in DOMAIN f |-> f[x]], NEW k \in DOMAIN f, NEW v
    PROVE  Put(f, k, v) = [f EXCEPT ![k] = v]
<1>1. DOMAIN f \cup {k} = DOMAIN f
  OBVIOUS
<1>2. Put(f, k, v) = [x \in DOMAIN f |-> IF x = k THEN v ELSE f[x]]
  BY <1>1 DEF Put
<1>3. QED
  BY <1>2

LEMMA PlainFunction ==
    ASSUME NEW f, NEW c
    PROVE  /\ DOMAIN Plain(f, c) = DOMAIN f /\ \A k \in DOMAIN f : Plain(f, c)[k] = f[k][c]
           /\ Plain(f, c) = [x \in DOMAIN Plain(f, c) |-> Plain(f, c)[x]]
BY DEF Plain

\* Steps that change one table.
LEMMA OnlyUser ==
    ASSUME NEW f, Profiles(user') = f,
           UNCHANGED <<token, group, member, invitation, vote, turn, config>>
    PROVE  Tables' = [Tables EXCEPT !.user = f]
BY DEF Tables

LEMMA OnlyToken ==
    ASSUME UNCHANGED <<user, group, member, invitation, vote, turn, config>>
    PROVE  Tables' = [Tables EXCEPT !.token = token']
BY DEF Tables

LEMMA OnlyGroup ==
    ASSUME UNCHANGED <<user, token, member, invitation, vote, turn, config>>
    PROVE  Tables' = [Tables EXCEPT !.group = group']
BY DEF Tables

LEMMA OnlyMember ==
    ASSUME NEW f, NEW b, Plain(member', "role") = f, Plain(member', "isDefault") = b,
           UNCHANGED <<user, token, group, invitation, vote, turn, config>>
    PROVE  Tables' = [Tables EXCEPT !.role = f, !.isDefault = b]
<1> DEFINE t == [Tables EXCEPT !.role = f]
<1>1. t = [user |-> Profiles(user), token |-> token, group |-> group, role |-> f,
           isDefault |-> Plain(member, "isDefault"), isUsed |-> Plain(invitation, "isUsed"),
           vote |-> Plain(vote, "status"), turn |-> Plain(turn, "user"), config |-> config]
  BY DEF Tables
<1>2. [Tables EXCEPT !.role = f, !.isDefault = b] = [t EXCEPT !.isDefault = b]
  OBVIOUS
<1> HIDE DEF t
<1>3. Tables' = [t EXCEPT !.isDefault = b]
  BY <1>1 DEF Tables
<1>4. QED
  BY <1>2, <1>3

LEMMA OnlyInvitation ==
    ASSUME NEW f, Plain(invitation', "isUsed") = f,
           UNCHANGED <<user, token, group, member, vote, turn, config>>
    PROVE  Tables' = [Tables EXCEPT !.isUsed = f]
BY DEF Tables

LEMMA OnlyVote ==
    ASSUME NEW f, Plain(vote', "status") = f,
           UNCHANGED <<user, token, group, member, invitation, turn, config>>
    PROVE  Tables' = [Tables EXCEPT !.vote = f]
BY DEF Tables

LEMMA OnlyTurn ==
    ASSUME NEW f, Plain(turn', "user") = f,
           UNCHANGED <<user, token, group, member, invitation, vote, config>>
    PROVE  Tables' = [Tables EXCEPT !.turn = f]
BY DEF Tables

LEMMA OnlyConfig ==
    ASSUME UNCHANGED <<user, token, group, member, invitation, vote, turn>>
    PROVE  Tables' = [Tables EXCEPT !.config = config']
BY DEF Tables

LEMMA SameTables ==
    ASSUME UNCHANGED <<user, token, group, member, invitation, vote, turn, config>>
    PROVE  Tables' = Tables /\ Rows' = Rows
BY DEF Tables, Rows

\* A change of users that leaves those who are members carries nothing on.
LEMMA MembersStay ==
    ASSUME MembershipsTyped, CascadeUsers, \A k \in DOMAIN member : k[1] \in DOMAIN user'
    PROVE  UNCHANGED <<group, member, invitation, vote, turn, config>>
<1>1. {x \in DOMAIN member : x[1] \in DOMAIN user'} = DOMAIN member
  OBVIOUS
<1>2. member = [k \in DOMAIN member |-> member[k]]
  BY DEF MembershipsTyped, IsTable
<1>3. QED
  BY <1>1, <1>2 DEF CascadeUsers, basketVars

\* Deletions that a step does not make carry nothing on.
LEMMA NothingCarried ==
    /\ MembershipsTyped /\ MembersRefer /\ DOMAIN user \subseteq DOMAIN user' /\ CascadeUsers
          => UNCHANGED <<group, member, invitation, vote, turn, config>>
    /\ BasketsTyped /\ SchedulesHaveGroups /\ DOMAIN group \subseteq DOMAIN group' /\ CascadeGroups
          => UNCHANGED <<user, token, vote, turn, config>>
<1>1. ASSUME MembershipsTyped, MembersRefer, DOMAIN user \subseteq DOMAIN user', CascadeUsers
      PROVE  UNCHANGED <<group, member, invitation, vote, turn, config>>
  <2>1. {x \in DOMAIN member : x[1] \in DOMAIN user'} = DOMAIN member
    BY <1>1 DEF MembersRefer, Refers
  <2>2. member = [k \in DOMAIN member |-> member[k]]
    BY <1>1 DEF MembershipsTyped, IsTable
  <2>3. QED
    BY <1>1, <2>1, <2>2 DEF CascadeUsers, basketVars
<1>2. ASSUME BasketsTyped, SchedulesHaveGroups, DOMAIN group \subseteq DOMAIN group', CascadeGroups
      PROVE  UNCHANGED <<user, token, vote, turn, config>>
  <2>1. /\ {x \in DOMAIN vote : x[1] \in DOMAIN group'} = DOMAIN vote
        /\ {x \in DOMAIN turn : x[1] \in DOMAIN group'} = DOMAIN turn
        /\ DOMAIN config \cap DOMAIN group' = DOMAIN config
    BY <1>2 DEF SchedulesHaveGroups
  <2>2. /\ vote = [k \in DOMAIN vote |-> vote[k]] /\ turn = [k \in DOMAIN turn |-> turn[k]]
        /\ config = [k \in DOMAIN config |-> config[k]]
    BY <1>2 DEF BasketsTyped, IsTable
  <2>3. QED
    BY <1>2, <2>1, <2>2 DEF CascadeGroups, accountVars
<1>3. QED
  BY <1>1, <1>2

LEMMA InsertUserProgresses ==
    ASSUME AccountsTyped, MembershipsTyped, MembersRefer, CascadeUsers,
           NEW h \in Handlers, InsertUser(h)
    PROVE  Progresses(h)
<1> DEFINE r == request[h]
           row == [id |-> CHOOSE n \in FreshUserIds : TRUE, password |-> r.password,
                   admin |-> r.admin]
<1>1. r.at = "insertUser"
  BY DEF InsertUser, At
<1>2. CASE r.who \in DOMAIN user
  BY <1>1, <1>2, RowsFields DEF InsertUser, Progresses, Ends, Halfway, AccountHalfway
<1>3. CASE r.who \notin DOMAIN user
  <2>1. user' = Put(user, r.who, row) /\ UNCHANGED token
    BY <1>3 DEF InsertUser
  <2>2. UNCHANGED <<group, member, invitation, vote, turn, config>>
    BY <2>1, NothingCarried DEF Put
  <2>3. Profiles(user') = Put(Profiles(user), r.who, Says(r))
    <3>1. Says(row) = Says(r)
      BY DEF Says
    <3>2. QED
      BY <2>1, <3>1, ProfilesPut
  <2>4. Tables' = [Tables EXCEPT !.user = Put(Profiles(user), r.who, Says(r))]
    BY <2>1, <2>2, <2>3, OnlyUser
  <2>5. ASSUME NEW t, Halfway(r, t, Rows)
        PROVE  /\ r.kind \in {"register", "createUser"} /\ IsView(t)
               /\ Tables' = [t EXCEPT !.user = Put(t.user, r.who, Says(r))]
    <3>1. Tables = t /\ r.kind \in {"register", "createUser"} /\ IsView(t)
      BY <1>1, <2>5, TablesView DEF Halfway, AccountHalfway
    <3>2. QED
      BY <2>4, <3>1, TablesFields
  <2>6. CASE r.kind = "register"
    <3> DEFINE q == [at |-> "store", kind |-> "register", who |-> r.who,
                     password |-> r.password, admin |-> r.admin, new |-> <<r.who, now>>]
    <3>1. Goes(h, q)
      BY <1>3, <2>6 DEF InsertUser
    <3>2. /\ q.at = "store" /\ q.kind = "register" /\ q.who = r.who /\ Says(q) = Says(r)
          /\ q # Idle
      BY DEF Idle, Says
    <3> HIDE DEF q
    <3>3. ASSUME NEW t, Halfway(r, t, Rows) PROVE q # r /\ Halfway(q, t, Rows')
      <4>1. r.who \in DOMAIN user'
        BY <2>1 DEF Put
      <4>2. View(Rows') = [t EXCEPT !.user = Put(t.user, r.who, Says(r))] /\ IsView(t)
        BY <2>5, <3>3, TablesView
      <4> HIDE DEF r
      <4>3. AccountHalfway(q, t, Rows')
        BY <3>2, <4>1, <4>2, RowsFields DEF AccountHalfway
      <4>4. GroupHalfway(q, t, Rows') /\ MemberHalfway(q, t, Rows') /\ BasketHalfway(q, t, Rows')
        BY <3>2 DEF GroupHalfway, MemberHalfway, BasketHalfway
      <4>5. q # r
        BY <1>1, <3>2
      <4>6. QED
        BY <4>2, <4>3, <4>4, <4>5 DEF Halfway
    <3>4. QED
      BY <3>1, <3>2, <3>3 DEF Progresses
  <2>7. CASE r.kind # "register"
    <3>1. Goes(h, Idle)
      BY <1>3, <2>7 DEF InsertUser, Ends
    <3>2. ASSUME NEW t, Halfway(r, t, Rows) PROVE Tables' = Promised(r, t)
      BY <2>5, <2>7, <3>2 DEF Promised
    <3>3. QED
      BY <3>1, <3>2 DEF Progresses
  <2>8. QED
    BY <2>6, <2>7
<1>4. QED
  BY <1>2, <1>3

LEMMA StoreProgresses ==
    ASSUME MembershipsTyped, MembersRefer, CascadeUsers,
           NEW h \in Handlers, StoreRefreshToken(h)
    PROVE  Progresses(h)
<1> DEFINE r == request[h]
<1>1. r.at = "store" /\ Goes(h, Idle) /\ UNCHANGED user
  BY DEF StoreRefreshToken, At, Ends
<1>2. UNCHANGED <<group, member, invitation, vote, turn, config>>
  BY <1>1, NothingCarried
<1>3. ASSUME NEW t, Halfway(r, t, Rows) PROVE Tables' = Promised(r, t)
  <2>1. /\ r.who \in DOMAIN user /\ IsView(t)
        /\ \/ /\ r.kind = "register"
              /\ Tables = [t EXCEPT !.user = Put(t.user, r.who, Says(r))]
           \/ r.kind = "login" /\ Tables = t
           \/ r.kind = "refresh" /\ Tables = [t EXCEPT !.token = [t.token EXCEPT ![r.old] = TRUE]]
    BY <1>1, <1>3, RowsFields, TablesView DEF Halfway, AccountHalfway
  <2>2. token' = WithSession(token, r.new)
    BY <2>1 DEF StoreRefreshToken, WithSession, Inserted
  <2>3. Tables' = [Tables EXCEPT !.token = WithSession(Tables.token, r.new)]
    BY <1>1, <1>2, <2>2, OnlyToken, TablesFields
  <2> HIDE DEF r
  <2>4. CASE r.kind = "register"
    <3> DEFINE s == [t EXCEPT !.user = Put(t.user, r.who, Says(r))]
    <3>1. s.token = t.token
      BY <2>1 DEF IsView
    <3>2. Promised(r, t) = [s EXCEPT !.token = WithSession(t.token, r.new)]
      BY <2>4 DEF Promised
    <3>3. Tables = s
      BY <2>1, <2>4
    <3> HIDE DEF s
    <3>4. QED
      BY <2>3, <3>1, <3>2, <3>3
  <2>5. CASE r.kind = "login"
    BY <2>1, <2>3, <2>5 DEF Promised
  <2>6. CASE r.kind = "refresh"
    <3> DEFINE s == [t EXCEPT !.token = [t.token EXCEPT ![r.old] = TRUE]]
    <3>1. s.token = [t.token EXCEPT ![r.old] = TRUE]
      BY <2>1 DEF IsView
    <3>2. Promised(r, t) = [t EXCEPT !.token = WithSession(s.token, r.new)]
      BY <2>6, <3>1 DEF Promised
    <3>3. \A x : [s EXCEPT !.token = x] = [t EXCEPT !.token = x]
      BY <2>1 DEF IsView
    <3>4. Tables = s
      BY <2>1, <2>6
    <3> HIDE DEF s
    <3>5. QED
      BY <2>3, <3>2, <3>3, <3>4
  <2>7. QED
    BY <2>1, <2>4, <2>5, <2>6
<1>4. QED
  BY <1>1, <1>3 DEF Progresses

LEMMA RevokeProgresses ==
    ASSUME AccountsTyped, MembershipsTyped, SessionsRefer, MembersRefer, CascadeUsers,
           NEW h \in Handlers, RevokeRefreshToken(h)
    PROVE  Progresses(h)
<1> DEFINE r == request[h]
<1>1. /\ r.at = "revoke" /\ UNCHANGED user
      /\ token' = [k \in DOMAIN token |-> token[k] \/ k = r.old]
  BY DEF RevokeRefreshToken, At
<1>2. UNCHANGED <<group, member, invitation, vote, turn, config>>
  BY <1>1, NothingCarried
<1>3. ASSUME NEW t, Halfway(r, t, Rows)
      PROVE  /\ r.kind \in {"refresh", "logout"} /\ r.who \in DOMAIN user /\ IsView(t)
             /\ Tables' = [t EXCEPT !.token = [t.token EXCEPT ![r.old] = TRUE]]
  <2>1. /\ r.kind \in {"refresh", "logout"} /\ r.old \in DOMAIN token /\ r.who = r.old[1]
        /\ Tables = t /\ IsView(t)
    BY <1>1, <1>3, RowsFields, TablesView DEF Halfway, AccountHalfway
  <2>2. token \in [DOMAIN token -> BOOLEAN]
    BY DEF AccountsTyped, IsTable
  <2> HIDE DEF r
  <2>3. token' = [token EXCEPT ![r.old] = TRUE]
    BY <1>1, <2>1, <2>2
  <2>4. Tables' = [Tables EXCEPT !.token = [token EXCEPT ![r.old] = TRUE]]
    BY <1>1, <1>2, <2>3, OnlyToken
  <2>5. QED
    BY <2>1, <2>4, TablesFields DEF SessionsRefer
<1>4. CASE r.kind = "logout"
  <2>1. Goes(h, Idle)
    BY <1>4 DEF RevokeRefreshToken, Ends
  <2>2. ASSUME NEW t, Halfway(r, t, Rows) PROVE Tables' = Promised(r, t)
    BY <1>3, <1>4, <2>2 DEF Promised
  <2>3. QED
    BY <2>1, <2>2 DEF Progresses
<1>5. CASE r.kind # "logout"
  <2> DEFINE q == [at |-> "store", kind |-> "refresh", who |-> r.who, old |-> r.old,
                   new |-> <<r.who, now>>]
  <2>1. Goes(h, q)
    BY <1>5 DEF RevokeRefreshToken
  <2>2. q.at = "store" /\ q.kind = "refresh" /\ q.who = r.who /\ q.old = r.old /\ q # Idle
    BY DEF Idle
  <2> HIDE DEF q
  <2>3. ASSUME NEW t, Halfway(r, t, Rows) PROVE q # r /\ Halfway(q, t, Rows')
    <3>1. /\ View(Rows') = [t EXCEPT !.token = [t.token EXCEPT ![r.old] = TRUE]] /\ IsView(t)
          /\ r.who \in DOMAIN user'
      BY <1>1, <1>3, <2>3, TablesView
    <3> HIDE DEF r
    <3>2. AccountHalfway(q, t, Rows')
      BY <2>2, <3>1, RowsFields DEF AccountHalfway
    <3>3. GroupHalfway(q, t, Rows') /\ MemberHalfway(q, t, Rows') /\ BasketHalfway(q, t, Rows')
      BY <2>2 DEF GroupHalfway, MemberHalfway, BasketHalfway
    <3>4. QED
      BY <1>1, <2>2, <3>1, <3>2, <3>3 DEF Halfway
  <2>4. QED
    BY <2>1, <2>2, <2>3 DEF Progresses
<1>6. QED
  BY <1>4, <1>5

\* Of the four parts of Halfway, only the one of the stage says something.
LEMMA OnePart ==
    ASSUME NEW q, NEW t, NEW s, IsView(t)
    PROVE  /\ q.at \in {"insertUser", "revoke", "store", "saveUser", "revokeAll"}
                 => (AccountHalfway(q, t, s) => Halfway(q, t, s))
           /\ q.at \in {"insertGroup", "insertManager", "saveGroup"}
                 => (GroupHalfway(q, t, s) => Halfway(q, t, s))
           /\ q.at \in {"insertMember", "mark", "clear", "saveMember"}
                 => (MemberHalfway(q, t, s) => Halfway(q, t, s))
           /\ q.at \in {"saveVote", "saveTurn", "saveConfig"}
                 => (BasketHalfway(q, t, s) => Halfway(q, t, s))
<1>1. ASSUME q.at \in {"insertUser", "revoke", "store", "saveUser", "revokeAll"}
      PROVE  GroupHalfway(q, t, s) /\ MemberHalfway(q, t, s) /\ BasketHalfway(q, t, s)
  BY <1>1 DEF GroupHalfway, MemberHalfway, BasketHalfway
<1>2. ASSUME q.at \in {"insertGroup", "insertManager", "saveGroup"}
      PROVE  AccountHalfway(q, t, s) /\ MemberHalfway(q, t, s) /\ BasketHalfway(q, t, s)
  BY <1>2 DEF AccountHalfway, MemberHalfway, BasketHalfway
<1>3. ASSUME q.at \in {"insertMember", "mark", "clear", "saveMember"}
      PROVE  AccountHalfway(q, t, s) /\ GroupHalfway(q, t, s) /\ BasketHalfway(q, t, s)
  BY <1>3 DEF AccountHalfway, GroupHalfway, BasketHalfway
<1>4. ASSUME q.at \in {"saveVote", "saveTurn", "saveConfig"}
      PROVE  AccountHalfway(q, t, s) /\ GroupHalfway(q, t, s) /\ MemberHalfway(q, t, s)
  BY <1>4 DEF AccountHalfway, GroupHalfway, MemberHalfway
<1>5. QED
  BY <1>1, <1>2, <1>3, <1>4 DEF Halfway


LEMMA SaveUserProgresses ==
    ASSUME AccountsTyped, MembershipsTyped, MembersRefer, CascadeUsers,
           NEW h \in Handlers, SaveUser(h, Referred)
    PROVE  Progresses(h)
<1> DEFINE r == request[h]
           there == {u \in DOMAIN user : user[u].id = r.row.id}
           refused == \/ r.to \in DOMAIN user \ there
                      \/ \E u \in there \ {r.to} : TokensOf(u) # {} \/ u \in Referred
           saved == Put(Without(user, there), r.to, r.row)
           q == [at |-> "revokeAll", kind |-> "reset", key |-> r.key, who |-> r.who, row |-> r.row]
<1>1. /\ r.at = "saveUser" /\ UNCHANGED token
      /\ user' = IF refused THEN user ELSE saved
      /\ Goes(h, IF r.kind = "reset" /\ ~refused THEN q ELSE Idle)
  BY DEF SaveUser, At, Ends
<1>2. UNCHANGED <<group, member, invitation, vote, turn, config>>
  <2>1. \A k \in DOMAIN member : k[1] \in DOMAIN user'
    BY <1>1 DEF MembersRefer, Refers, Referred, Put, Without
  <2>2. QED
    BY <2>1, MembersStay
<1>3. /\ q.at = "revokeAll" /\ q.kind = "reset" /\ q.who = r.who /\ q.row = r.row /\ q # Idle
  BY DEF Idle
<1> HIDE DEF q
<1>4. ASSUME NEW t, Halfway(r, t, Rows)
      PROVE  /\ r.kind \in {"reset", "profile"} /\ r.who \in DOMAIN user /\ there = {r.who}
             /\ Tables = t /\ IsView(t)
             /\ r.kind = "reset" => r.to = r.who
  <2>1. /\ r.kind \in {"reset", "profile"} /\ r.who \in DOMAIN user
        /\ user[r.who].id = r.row.id /\ Tables = t /\ IsView(t)
        /\ r.kind = "reset" => r.to = r.who
    BY <1>1, <1>4, RowsFields, TablesView DEF Halfway, AccountHalfway
  <2>2. there = {r.who}
    BY <2>1 DEF AccountsTyped
  <2>3. QED
    BY <2>1, <2>2
<1>5. ASSUME ~refused
      PROVE  Tables' = [Tables EXCEPT
                            !.user = Put(Without(Profiles(user), there), r.to, Says(r.row))]
  <2>1. Profiles(user') = Put(Without(Profiles(user), there), r.to, Says(r.row))
    BY <1>1, <1>5, ProfilesPut, ProfilesWithout
  <2>2. QED
    BY <1>1, <1>2, <2>1, OnlyUser
<1>6. CASE r.kind = "reset" /\ ~refused
  <2>1. Goes(h, q)
    BY <1>1, <1>6
  <2>2. ASSUME NEW t, Halfway(r, t, Rows) PROVE q # r /\ Halfway(q, t, Rows')
    <3>1. /\ r.who \in DOMAIN user /\ there = {r.who} /\ Tables = t /\ IsView(t) /\ r.to = r.who
      BY <1>4, <1>6, <2>2
    <3>2. Put(Without(Profiles(user), {r.who}), r.who, Says(r.row))
              = [Profiles(user) EXCEPT ![r.who] = Says(r.row)]
      BY <3>1, ProfilesFunction, PutAgain
    <3> HIDE DEF r, there, refused
    <3>3. View(Rows') = [t EXCEPT !.user = [t.user EXCEPT ![r.who] = Says(r.row)]]
      BY <1>5, <1>6, <3>1, <3>2, TablesView, TablesFields
    <3>4. AccountHalfway(q, t, Rows')
      BY <1>3, <3>3 DEF AccountHalfway
    <3>5. q # r
      BY <1>1, <1>3
    <3>6. QED
      BY <1>3, <3>1, <3>4, <3>5, OnePart
  <2>3. QED
    BY <1>3, <2>1, <2>2 DEF Progresses
<1>7. CASE ~(r.kind = "reset" /\ ~refused)
  <2>1. Goes(h, Idle)
    BY <1>1, <1>7
  <2>2. ASSUME NEW t, Halfway(r, t, Rows) PROVE Tables' = Promised(r, t)
    <3>1. /\ r.kind \in {"reset", "profile"} /\ r.who \in DOMAIN user /\ there = {r.who}
          /\ Tables = t /\ IsView(t)
          /\ r.kind = "reset" => r.to = r.who
      BY <1>4, <2>2
    <3>2. t.user = Profiles(user) /\ t.token = token /\ t.role = Plain(member, "role")
      BY <3>1, TablesFields
    <3>3. DOMAIN t.user = DOMAIN user /\ DOMAIN t.role = DOMAIN member
      BY <3>2, ProfilesFunction DEF Plain
    <3>4. refused <=> CannotMove(r, t)
      <4>1. refused <=> /\ r.to # r.who
                        /\ \/ r.to \in DOMAIN user \/ TokensOf(r.who) # {}
                           \/ r.who \in Referred
        BY <3>1
      <4>2. TokensOf(r.who) # {} \/ r.who \in Referred
                <=> \E k \in DOMAIN token \cup DOMAIN member : k[1] = r.who
        BY DEF TokensOf, Referred
      <4>3. QED
        BY <3>2, <3>3, <4>1, <4>2 DEF CannotMove
    <3>5. r.kind = "profile"
      <4>1. r.to = r.who => ~refused
        BY <3>1
      <4> HIDE DEF refused, r, there
      <4>2. QED
        BY <1>7, <3>1, <4>1
    <3> HIDE DEF refused
    <3>6. Promised(r, t) = IF CannotMove(r, t) THEN t
                           ELSE [t EXCEPT !.user = Put(Without(t.user, {r.who}), r.to, Says(r.row))]
      BY <3>5 DEF Promised
    <3>7. CASE refused
      <4>1. UNCHANGED <<user, token, group, member, invitation, vote, turn, config>>
        BY <1>1, <1>2, <3>7
      <4>2. QED
        BY <3>1, <3>4, <3>6, <3>7, <4>1, SameTables
    <3>8. CASE ~refused
      <4> HIDE DEF r, there
      <4>1. Tables' = [t EXCEPT !.user = Put(Without(t.user, {r.who}), r.to, Says(r.row))]
        BY <1>5, <3>1, <3>2, <3>8
      <4>2. QED
        BY <3>4, <3>6, <3>8, <4>1
    <3>9. QED
      BY <3>7, <3>8
  <2>3. QED
    BY <2>1, <2>2 DEF Progresses
<1>8. QED
  BY <1>6, <1>7

LEMMA RevokeAllProgresses ==
    ASSUME MembershipsTyped, AccountsTyped, MembersRefer, CascadeUsers,
           NEW h \in Handlers, RevokeAllUserTokens(h)
    PROVE  Progresses(h)
<1> DEFINE r == request[h]
<1>1. /\ r.at = "revokeAll" /\ Goes(h, Idle) /\ UNCHANGED user
      /\ token' = [k \in DOMAIN token |-> token[k] \/ k[1] = r.who]
  BY DEF RevokeAllUserTokens, At, Ends
<1>2. UNCHANGED <<group, member, invitation, vote, turn, config>>
  BY <1>1, NothingCarried
<1>3. ASSUME NEW t, Halfway(r, t, Rows) PROVE Tables' = Promised(r, t)
  <2> DEFINE s == [t EXCEPT !.user = [t.user EXCEPT ![r.who] = Says(r.row)]]
  <2>1. r.kind = "reset" /\ IsView(t) /\ Tables = s
    BY <1>1, <1>3, TablesView DEF Halfway, AccountHalfway
  <2> HIDE DEF r
  <2>2. s.token = t.token
    BY <2>1 DEF IsView
  <2>3. Promised(r, t) =
            [s EXCEPT !.token = [k \in DOMAIN t.token |-> k[1] = r.who \/ t.token[k]]]
    BY <2>1 DEF Promised
  <2> HIDE DEF s
  <2>4. token \in [DOMAIN token -> BOOLEAN] /\ token = t.token
    BY <2>1, <2>2, TablesFields DEF AccountsTyped, IsTable
  <2>5. token' = [k \in DOMAIN t.token |-> k[1] = r.who \/ t.token[k]]
    BY <1>1, <2>4
  <2>6. QED
    BY <1>1, <1>2, <2>1, <2>3, <2>5, OnlyToken
<1>4. QED
  BY <1>1, <1>3 DEF Progresses

LEMMA EndsStarts ==
    ASSUME NEW h \in Handlers, Ends(h) PROVE Starts(h)
BY DEF Ends, Starts

LEMMA AccountRequestStarts ==
    ASSUME AccountsTyped, MembershipsTyped, MembersRefer, CascadeUsers,
           NEW h \in Handlers, AccountRequest(h)
    PROVE  Starts(h)
<1> DEFINE Stages == {"insertUser", "revoke", "store", "saveUser", "revokeAll"}
<1>1. ASSUME UNCHANGED accountVars, NEW q, Goes(h, q), q.at \in Stages,
             AccountHalfway(q, Tables, Rows)
      PROVE  Starts(h)
  <2>1. UNCHANGED <<user, token>>
    BY <1>1 DEF accountVars
  <2>2. Rows' = Rows
    BY <2>1, NothingCarried, SameTables
  <2>3. Halfway(q, Tables, Rows)
    BY <1>1, OnePart, TablesIsView
  <2>4. QED
    BY <1>1, <2>2, <2>3 DEF Starts
<1>2. ASSUME NEW u, NEW p, NEW admin, NEW kind \in {"register", "createUser"},
             Register(h, u, p, admin, kind)
      PROVE  Starts(h)
  <2> DEFINE q == [at |-> "insertUser", kind |-> kind, who |-> u, password |-> p,
                   admin |-> admin]
  <2>1. u \notin DOMAIN user /\ Goes(h, q) /\ UNCHANGED accountVars
    BY <1>2 DEF Register
  <2>2. q.at = "insertUser" /\ q.kind = kind /\ q.who = u
    OBVIOUS
  <2> HIDE DEF q
  <2>3. AccountHalfway(q, Tables, Rows)
    BY <2>1, <2>2, TablesView, RowsFields DEF AccountHalfway
  <2>4. QED
    BY <1>1, <2>1, <2>2, <2>3
<1>3. ASSUME NEW u, NEW p, Login(h, u, p) PROVE Starts(h)
  <2> DEFINE q == [at |-> "store", kind |-> "login", who |-> u, new |-> <<u, now>>]
  <2>1. u \in DOMAIN user /\ Goes(h, q) /\ UNCHANGED accountVars
    BY <1>3 DEF Login
  <2>2. q.at = "store" /\ q.kind = "login" /\ q.who = u
    OBVIOUS
  <2> HIDE DEF q
  <2>3. AccountHalfway(q, Tables, Rows)
    BY <2>1, <2>2, TablesView, RowsFields DEF AccountHalfway
  <2>4. QED
    BY <1>1, <2>1, <2>2, <2>3
<1>4. ASSUME NEW k \in DOMAIN token, NEW kind \in {"refresh", "logout"},
             Goes(h, [at |-> "revoke", kind |-> kind, who |-> k[1], old |-> k]),
             UNCHANGED accountVars
      PROVE  Starts(h)
  <2> DEFINE q == [at |-> "revoke", kind |-> kind, who |-> k[1], old |-> k]
  <2>1. q.at = "revoke" /\ q.kind = kind /\ q.who = k[1] /\ q.old = k
    OBVIOUS
  <2>2. Goes(h, q)
    BY <1>4
  <2> HIDE DEF q
  <2>3. AccountHalfway(q, Tables, Rows)
    BY <2>1, TablesView, RowsFields DEF AccountHalfway
  <2>4. QED
    BY <1>1, <1>4, <2>1, <2>2, <2>3
<1>5. ASSUME NEW u \in DOMAIN user, NEW q, Goes(h, q), q.at = "saveUser", q.who = u,
             q.kind = "profile" \/ (q.kind = "reset" /\ q.to = u), q.row.id = user[u].id,
             UNCHANGED accountVars
      PROVE  Starts(h)
  <2>1. AccountHalfway(q, Tables, Rows)
    BY <1>5, TablesView, RowsFields DEF AccountHalfway
  <2>2. QED
    BY <1>1, <1>5, <2>1
<1>6. ASSUME NEW k \in DOMAIN token, RefreshToken(h, k) \/ Logout(h, k) PROVE Starts(h)
  BY <1>4, <1>6 DEF RefreshToken, Logout
<1>7. ASSUME NEW u, NEW to, NEW p, NEW admin,
             ResetPassword(h, u, p) \/ UpdateUser(h, u, to, p, admin)
      PROVE  Starts(h)
  <2>1. u \in DOMAIN user /\ UNCHANGED accountVars
    BY <1>7 DEF ResetPassword, UpdateUser
  <2>2. /\ [user[u] EXCEPT !.password = p].id = user[u].id
        /\ [user[u] EXCEPT !.password = p, !.admin = admin].id = user[u].id
    BY <2>1 DEF AccountsTyped, IsTable, UserRow
  <2>3. CASE ResetPassword(h, u, p)
    <3> DEFINE q == [at |-> "saveUser", kind |-> "reset", key |-> <<u>>, who |-> u, to |-> u,
                     row |-> [user[u] EXCEPT !.password = p]]
    <3>1. q.at = "saveUser" /\ q.who = u /\ q.kind = "reset" /\ q.to = u
          /\ q.row.id = user[u].id
      BY <2>2
    <3>2. Goes(h, q)
      BY <2>3 DEF ResetPassword
    <3> HIDE DEF q
    <3>3. QED
      BY <1>5, <2>1, <3>1, <3>2
  <2>4. CASE UpdateUser(h, u, to, p, admin)
    <3> DEFINE q == [at |-> "saveUser", kind |-> "profile", key |-> <<u>>, who |-> u, to |-> to,
                     row |-> [user[u] EXCEPT !.password = p, !.admin = admin]]
    <3>1. q.at = "saveUser" /\ q.who = u /\ q.kind = "profile" /\ q.row.id = user[u].id
      BY <2>2
    <3>2. Goes(h, q)
      BY <2>4 DEF UpdateUser
    <3> HIDE DEF q
    <3>3. QED
      BY <1>5, <2>1, <3>1, <3>2
  <2>5. QED
    BY <1>7, <2>3, <2>4
<1>8. ASSUME NEW u, DeleteUser(h, u) PROVE Starts(h)
  BY <1>8, EndsStarts DEF DeleteUser
<1>9. QED
  BY <1>2, <1>3, <1>6, <1>7, <1>8 DEF AccountRequest

LEMMA InsertGroupProgresses ==
    ASSUME BasketsTyped, MembersRefer, SchedulesHaveGroups, CascadeGroups,
           NEW h \in Handlers, InsertGroup(h)
    PROVE  Progresses(h)
<1> DEFINE r == request[h]
<1>1. r.at = "insertGroup" /\ UNCHANGED <<member, invitation>>
  BY DEF InsertGroup, At
<1>2. CASE \E g \in DOMAIN group : group[g].email = r.email
  BY <1>1, <1>2, RowsFields DEF InsertGroup, Ends, Progresses, Halfway, GroupHalfway
<1>3. ASSUME NEW g, g \notin DOMAIN group,
             group' = Put(group, g, [email |-> r.email, isActive |-> TRUE]),
             Goes(h, [at |-> "insertManager", kind |-> "create", who |-> r.who,
                      email |-> r.email, id |-> g, key |-> <<r.who, g>>])
      PROVE  Progresses(h)
  <2> DEFINE q == [at |-> "insertManager", kind |-> "create", who |-> r.who,
                   email |-> r.email, id |-> g, key |-> <<r.who, g>>]
  <2>1. UNCHANGED <<user, token, vote, turn, config>>
    BY <1>3, NothingCarried DEF Put
  <2>2. Tables' = [Tables EXCEPT !.group = group']
    BY <1>1, <2>1, OnlyGroup
  <2>3. /\ Goes(h, q) /\ q.at = "insertManager" /\ q.kind = "create" /\ q.who = r.who
        /\ q.email = r.email /\ q.id = g /\ q.key = <<r.who, g>> /\ q # Idle
    BY <1>3 DEF Idle
  <2> HIDE DEF q
  <2>4. q.key \notin DOMAIN member'
    BY <1>1, <1>3, <2>3 DEF MembersRefer, Refers
  <2>5. g \in DOMAIN group'
    BY <1>3 DEF Put
  <2>6. ASSUME NEW t, Halfway(r, t, Rows) PROVE q # r /\ Halfway(q, t, Rows')
    <3>1. Tables = t /\ IsView(t)
      BY <1>1, <2>6, TablesView DEF Halfway, GroupHalfway
    <3>2. View(Rows') = [t EXCEPT !.group = Put(t.group, g, [email |-> q.email, isActive |-> TRUE])]
      BY <1>3, <2>2, <2>3, <3>1, TablesView, TablesFields
    <3>3. GroupHalfway(q, t, Rows')
      BY <2>3, <2>4, <2>5, <3>2, RowsFields DEF GroupHalfway
    <3>4. QED
      BY <1>1, <2>3, <3>1, <3>3, OnePart
  <2>7. QED
    BY <2>3, <2>6 DEF Progresses
<1>4. QED
  BY <1>2, <1>3 DEF InsertGroup

LEMMA InsertManagerProgresses ==
    ASSUME BasketsTyped, SchedulesHaveGroups, CascadeGroups,
           NEW h \in Handlers, InsertManager(h)
    PROVE  Progresses(h)
<1> DEFINE r == request[h]
           row == [id |-> FreshId(r.key), role |-> "manager", isDefault |-> TRUE]
<1>1. /\ r.at = "insertManager" /\ Goes(h, Idle) /\ UNCHANGED <<group, invitation>>
      /\ member' = IF Refers(r.key) THEN Inserted(member, r.key, row) ELSE member
  BY DEF InsertManager, At, Ends
<1>2. UNCHANGED <<user, token, vote, turn, config>>
  BY <1>1, NothingCarried
<1>3. ASSUME NEW t, Halfway(r, t, Rows), Promises(r, t) PROVE Tables' = Promised(r, t)
  <2> DEFINE s == [t EXCEPT !.group = Put(t.group, r.id, [email |-> r.email, isActive |-> TRUE])]
  <2>1. /\ r.kind = "create" /\ r.key = <<r.who, r.id>> /\ r.id \in DOMAIN group
        /\ r.key \notin DOMAIN member /\ Tables = s /\ IsView(t)
    BY <1>1, <1>3, RowsFields, TablesView DEF Halfway, GroupHalfway
  <2> HIDE DEF r
  <2>2. s.user = t.user /\ s.role = t.role /\ s.isDefault = t.isDefault
    BY <2>1 DEF IsView
  <2>3. /\ Promised(r, t) = [s EXCEPT !.role = Put(t.role, r.key, "manager"),
                                     !.isDefault = Put(t.isDefault, r.key, TRUE)]
        /\ r.who \in DOMAIN t.user
    BY <1>3, <2>1 DEF Promised, Promises
  <2> HIDE DEF s
  <2>4. r.who \in DOMAIN user
    BY <2>1, <2>2, <2>3, TablesFields, ProfilesFunction
  <2>5. member' = Put(member, r.key, row)
    BY <1>1, <2>1, <2>4 DEF Refers, Inserted
  <2>6. /\ Plain(member', "role") = Put(Plain(member, "role"), r.key, "manager")
        /\ Plain(member', "isDefault") = Put(Plain(member, "isDefault"), r.key, TRUE)
    <3>1. row.role = "manager" /\ row.isDefault = TRUE
      OBVIOUS
    <3> HIDE DEF row
    <3>2. \A c : Plain(member', c) = Put(Plain(member, c), r.key, row[c])
      BY <2>5, PlainPut
    <3>3. QED
      BY <3>1, <3>2
  <2>7. Tables' = [Tables EXCEPT !.role = Put(Plain(member, "role"), r.key, "manager"),
                                 !.isDefault = Put(Plain(member, "isDefault"), r.key, TRUE)]
    BY <1>1, <1>2, <2>6, OnlyMember
  <2>8. QED
    BY <2>1, <2>2, <2>3, <2>7, TablesFields
<1>4. QED
  BY <1>1, <1>3 DEF Progresses

LEMMA SaveGroupProgresses ==
    ASSUME BasketsTyped, MembershipsTyped, SchedulesHaveGroups, CascadeGroups,
           NEW h \in Handlers, SaveGroup(h)
    PROVE  Progresses(h)
<1> DEFINE r == request[h]
<1>1. /\ r.at = "saveGroup" /\ Goes(h, Idle) /\ UNCHANGED <<member, invitation>>
      /\ group' = IF Taken(r.group.email, r.id) THEN group ELSE Put(group, r.id, r.group)
  BY DEF SaveGroup, At, Ends
<1>2. UNCHANGED <<user, token, vote, turn, config>>
  BY <1>1, NothingCarried DEF Put
<1>3. ASSUME NEW t, Halfway(r, t, Rows) PROVE Tables' = Promised(r, t)
  <2>1. /\ r.kind = "group" /\ r.id \in DOMAIN group /\ ~Taken(r.group.email, r.id)
        /\ Tables = t /\ IsView(t)
    BY <1>1, <1>3, RowsFields, TablesView DEF Halfway, GroupHalfway, Taken
  <2> HIDE DEF r
  <2>2. group' = [group EXCEPT ![r.id] = r.group]
    BY <1>1, <2>1, PutThere DEF MembershipsTyped, IsTable
  <2>3. Tables' = [Tables EXCEPT !.group = group']
    BY <1>1, <1>2, OnlyGroup
  <2>4. Promised(r, t) = [t EXCEPT !.group[r.id] = r.group]
    BY <2>1 DEF Promised
  <2>5. QED
    BY <2>1, <2>2, <2>3, <2>4, TablesFields
<1>4. QED
  BY <1>1, <1>3 DEF Progresses

LEMMA InsertMemberProgresses ==
    ASSUME BasketsTyped, SchedulesHaveGroups, CascadeGroups,
           NEW h \in Handlers, InsertMember(h)
    PROVE  Progresses(h)
<1> DEFINE r == request[h]
           row == [id |-> FreshId(r.key), role |-> r.role, isDefault |-> r.isDefault]
           joins == Refers(r.key) /\ r.key \notin DOMAIN member
           q == [at |-> "mark", kind |-> "use", key |-> r.key, role |-> r.role,
                 expires |-> TRUE, invitation |-> r.invitation]
<1>1. /\ r.at = "insertMember" /\ UNCHANGED <<group, invitation>>
      /\ member' = IF joins THEN Inserted(member, r.key, row) ELSE member
      /\ Goes(h, IF joins /\ r.expires THEN q ELSE Idle)
  BY DEF InsertMember, At, Ends
<1>2. UNCHANGED <<user, token, vote, turn, config>>
  BY <1>1, NothingCarried
<1>3. ASSUME NEW t, Halfway(r, t, Rows)
      PROVE  /\ joins /\ IsView(t) /\ r.kind \in {"join", "use"}
             /\ Tables' = [t EXCEPT !.role = Put(t.role, r.key, r.role),
                                    !.isDefault = Put(t.isDefault, r.key,
                                                      \A k \in DOMAIN t.role : k[1] # r.key[1])]
  <2>1. /\ joins /\ IsView(t) /\ r.kind \in {"join", "use"} /\ Tables = t
        /\ r.isDefault = \A k \in DOMAIN member : k[1] # r.key[1]
    BY <1>1, <1>3, RowsFields, TablesView DEF Halfway, MemberHalfway, Refers
  <2>2. member' = Put(member, r.key, row)
    BY <1>1, <2>1 DEF Inserted
  <2>3. /\ Plain(member', "role") = Put(Plain(member, "role"), r.key, r.role)
        /\ Plain(member', "isDefault") = Put(Plain(member, "isDefault"), r.key, r.isDefault)
    BY <2>2, PlainPut
  <2>4. Tables' = [Tables EXCEPT !.role = Put(Plain(member, "role"), r.key, r.role),
                                 !.isDefault = Put(Plain(member, "isDefault"), r.key, r.isDefault)]
    BY <1>1, <1>2, <2>3, OnlyMember
  <2>5. r.isDefault = \A k \in DOMAIN t.role : k[1] # r.key[1]
    BY <2>1, TablesFields, PlainFunction
  <2> HIDE DEF r, joins
  <2>6. QED
    BY <2>1, <2>4, <2>5, TablesFields
<1>4. CASE joins /\ r.expires
  <2>1. Goes(h, q)
    BY <1>1, <1>4
  <2>2. /\ q.at = "mark" /\ q.kind = "use" /\ q.key = r.key /\ q.role = r.role /\ q.expires
        /\ q # Idle
    BY DEF Idle
  <2> HIDE DEF q
  <2>3. ASSUME NEW t, Halfway(r, t, Rows) PROVE q # r /\ Halfway(q, t, Rows')
    <3>1. /\ View(Rows') = [t EXCEPT !.role = Put(t.role, r.key, r.role),
                                     !.isDefault = Put(t.isDefault, r.key,
                                                       \A k \in DOMAIN t.role : k[1] # r.key[1])]
          /\ IsView(t)
      BY <1>3, <2>3, TablesView
    <3>2. MemberHalfway(q, t, Rows')
      BY <2>2, <3>1 DEF MemberHalfway
    <3>3. QED
      BY <1>1, <2>2, <3>1, <3>2, OnePart
  <2>4. QED
    BY <2>1, <2>2, <2>3 DEF Progresses
<1>5. CASE ~(joins /\ r.expires)
  <2>1. Goes(h, Idle)
    BY <1>1, <1>5
  <2>2. ASSUME NEW t, Halfway(r, t, Rows) PROVE Tables' = Promised(r, t)
    <3>1. /\ ~r.expires /\ IsView(t) /\ r.kind \in {"join", "use"}
          /\ Tables' = [t EXCEPT !.role = Put(t.role, r.key, r.role),
                                 !.isDefault = Put(t.isDefault, r.key,
                                                   \A k \in DOMAIN t.role : k[1] # r.key[1])]
      BY <1>3, <1>5, <2>2
    <3> DEFINE role == Put(t.role, r.key, r.role)
               isDefault == Put(t.isDefault, r.key, \A k \in DOMAIN t.role : k[1] # r.key[1])
    <3>2. Promised(r, t) = [t EXCEPT !.role = role, !.isDefault = isDefault, !.isUsed = t.isUsed]
      BY <3>1 DEF Promised
    <3>3. Tables' = [t EXCEPT !.role = role, !.isDefault = isDefault]
      BY <3>1
    <3> HIDE DEF role, isDefault
    <3>4. [t EXCEPT !.role = role, !.isDefault = isDefault, !.isUsed = t.isUsed]
              = [t EXCEPT !.role = role, !.isDefault = isDefault]
      BY <3>1 DEF IsView
    <3>5. QED
      BY <3>2, <3>3, <3>4
  <2>3. QED
    BY <2>1, <2>2 DEF Progresses
<1>6. QED
  BY <1>4, <1>5

LEMMA ClearDefaultsProgresses ==
    ASSUME BasketsTyped, MembershipsTyped, SchedulesHaveGroups, CascadeGroups,
           NEW h \in Handlers, ClearDefaults(h)
    PROVE  Progresses(h)
<1> DEFINE r == request[h]
           cleared(k) == [member[k] EXCEPT !.isDefault = FALSE]
           q == [at |-> "saveMember", kind |-> "default", key |-> r.key, row |-> r.row]
<1>1. /\ r.at = "clear" /\ Goes(h, q) /\ UNCHANGED <<group, invitation>>
      /\ member' = [k \in DOMAIN member |-> IF k[1] = r.key[1] THEN cleared(k) ELSE member[k]]
  BY DEF ClearDefaults, At
<1>2. UNCHANGED <<user, token, vote, turn, config>>
  BY <1>1, NothingCarried
<1>3. q.at = "saveMember" /\ q.kind = "default" /\ q.key = r.key /\ q.row = r.row /\ q # Idle
  BY DEF Idle
<1>4. ASSUME NEW k \in DOMAIN member
      PROVE  /\ cleared(k).role = member[k].role /\ cleared(k).id = member[k].id
             /\ cleared(k).isDefault = FALSE /\ member[k].isDefault \in BOOLEAN
  BY DEF MembershipsTyped, IsTable, MemberRow
<1> HIDE DEF cleared
<1>5. DOMAIN member' = DOMAIN member /\ \A k \in DOMAIN member :
          /\ member'[k].id = member[k].id /\ member'[k].role = member[k].role
          /\ member'[k].isDefault = (k[1] # r.key[1] /\ member[k].isDefault)
  BY <1>1, <1>4
<1>6. Plain(member', "role") = Plain(member, "role")
  BY <1>5 DEF Plain
<1>7. Plain(member', "isDefault") =
          [k \in DOMAIN member |-> k[1] # r.key[1] /\ Plain(member, "isDefault")[k]]
  BY <1>5 DEF Plain
<1> DEFINE D == [k \in DOMAIN member |-> k[1] # r.key[1] /\ Plain(member, "isDefault")[k]]
<1>8. Tables' = [Tables EXCEPT !.role = Plain(member, "role"), !.isDefault = D]
  BY <1>1, <1>2, <1>6, <1>7, OnlyMember
<1> HIDE DEF q
<1>9. ASSUME NEW t, Halfway(r, t, Rows) PROVE q # r /\ Halfway(q, t, Rows')
  <2>1. /\ r.key \in DOMAIN member /\ r.row = [member[r.key] EXCEPT !.isDefault = TRUE]
        /\ Tables = t /\ IsView(t)
    BY <1>1, <1>9, RowsFields, TablesView DEF Halfway, MemberHalfway
  <2>2. /\ q.key \in DOMAIN member' /\ member'[q.key].id = q.row.id
        /\ member'[q.key].role = q.row.role /\ q.row.isDefault
    <3>1. /\ r.row.id = member[r.key].id /\ r.row.role = member[r.key].role
          /\ r.row.isDefault = TRUE
      BY <2>1 DEF MembershipsTyped, IsTable, MemberRow
    <3>2. QED
      BY <1>3, <1>5, <2>1, <3>1
  <2>3. View(Rows') = [t EXCEPT !.isDefault =
                           [k \in DOMAIN t.role |-> k[1] # q.key[1] /\ t.isDefault[k]]]
    <3>1. /\ t.role = Plain(member, "role") /\ t.isDefault = Plain(member, "isDefault")
          /\ DOMAIN t.role = DOMAIN member
      BY <2>1, TablesFields, PlainFunction
    <3>2. D = [k \in DOMAIN t.role |-> k[1] # q.key[1] /\ t.isDefault[k]]
      BY <1>3, <3>1
    <3> HIDE DEF D
    <3>3. [t EXCEPT !.role = t.role, !.isDefault = D] = [t EXCEPT !.isDefault = D]
      BY <2>1 DEF IsView
    <3>4. QED
      BY <1>8, <2>1, <3>1, <3>2, <3>3, TablesView
  <2>4. t.isDefault \in [DOMAIN t.role -> BOOLEAN]
    BY <1>4, <2>1, TablesFields DEF Plain
  <2>5. MemberHalfway(q, t, Rows')
    BY <1>3, <2>2, <2>3, <2>4, RowsFields DEF MemberHalfway
  <2>6. QED
    BY <1>1, <1>3, <2>1, <2>5, OnePart
<1>10. QED
  BY <1>1, <1>3, <1>9 DEF Progresses

LEMMA SaveMemberProgresses ==
    ASSUME RequestsTyped, BasketsTyped, MembershipsTyped, MembersRefer, SchedulesHaveGroups,
           CascadeGroups, NEW h \in Handlers, SaveMember(h)
    PROVE  Progresses(h)
<1> DEFINE r == request[h]
<1>1. /\ r.at = "saveMember" /\ Goes(h, Idle) /\ UNCHANGED <<group, invitation>>
      /\ member' = IF Refers(r.key) THEN Saved(member, r.key, r.row) ELSE member
  BY DEF SaveMember, At, Ends
<1>2. UNCHANGED <<user, token, vote, turn, config>>
  BY <1>1, NothingCarried
<1>3. ASSUME NEW t, Halfway(r, t, Rows) PROVE Tables' = Promised(r, t)
  <2> DEFINE D == [k \in DOMAIN t.role |-> k[1] # r.key[1] /\ t.isDefault[k]]
             s == [t EXCEPT !.isDefault = D]
  <2>1. /\ r.key \in DOMAIN member /\ member[r.key].id = r.row.id /\ IsView(t)
        /\ \/ r.kind = "role" /\ member[r.key].isDefault = r.row.isDefault /\ Tables = t
           \/ /\ r.kind = "default" /\ member[r.key].role = r.row.role /\ r.row.isDefault
              /\ t.isDefault \in [DOMAIN t.role -> BOOLEAN] /\ Tables = s
    BY <1>1, <1>3, RowsFields, TablesView DEF Halfway, MemberHalfway
  <2>2. member' = Put(member, r.key, r.row)
    BY <1>1, <2>1 DEF MembersRefer, Saved
  <2> HIDE DEF r
  <2>3. ASSUME NEW c
        PROVE  Plain(member', c) = [Plain(member, c) EXCEPT ![r.key] = r.row[c]]
    BY <2>1, <2>2, PlainPut, PutThere, PlainFunction
  <2>4. Tables' = [Tables EXCEPT !.role = [Plain(member, "role") EXCEPT ![r.key] = r.row.role],
                                 !.isDefault =
                                     [Plain(member, "isDefault") EXCEPT ![r.key] = r.row.isDefault]]
    BY <1>1, <1>2, <2>3, OnlyMember
  <2>5. DOMAIN Tables.role = DOMAIN member
    BY TablesFields, PlainFunction
  <2>6. CASE r.kind = "role"
    <3> DEFINE role == [t.role EXCEPT ![r.key] = r.row.role]
    <3>1. Tables = t /\ member[r.key].isDefault = r.row.isDefault
      BY <2>1, <2>6
    <3>2. [Plain(member, "isDefault") EXCEPT ![r.key] = r.row.isDefault] = t.isDefault
      BY <2>1, <3>1, TablesFields DEF Plain
    <3>3. Tables' = [t EXCEPT !.role = role, !.isDefault = t.isDefault]
      BY <2>4, <3>1, <3>2, TablesFields
    <3>4. Promised(r, t) = [t EXCEPT !.role = role]
      BY <2>6 DEF Promised
    <3> HIDE DEF role
    <3>5. [t EXCEPT !.role = role, !.isDefault = t.isDefault] = [t EXCEPT !.role = role]
      BY <2>1 DEF IsView
    <3>6. QED
      BY <3>3, <3>4, <3>5
  <2>7. CASE r.kind = "default"
    <3> DEFINE E == [k \in DOMAIN t.role |->
                        IF k[1] = r.key[1] THEN k = r.key ELSE t.isDefault[k]]
    <3>1. Tables = s /\ member[r.key].role = r.row.role /\ r.row.isDefault
      BY <2>1, <2>7
    <3>2. s.role = t.role /\ s.isDefault = D
      BY <2>1 DEF IsView
    <3> HIDE DEF s
    <3>3. Plain(member, "role") = t.role /\ Plain(member, "isDefault") = D
      BY <3>1, <3>2, TablesFields
    <3>4. [Plain(member, "role") EXCEPT ![r.key] = r.row.role] = t.role
      BY <2>1, <3>1, <3>3 DEF Plain
    <3>5. r.key \in DOMAIN t.role
      BY <2>1, <2>5, <3>1, <3>2
    <3>6. r.row.isDefault = TRUE /\ \A k \in DOMAIN t.role : t.isDefault[k] \in BOOLEAN
      <4>1. r.row.isDefault \in BOOLEAN
        BY <1>1 DEF r, RequestsTyped, Typed, GroupTyped, MemberRow
      <4>2. QED
        BY <2>1, <2>7, <3>1, <4>1
    <3>7. [D EXCEPT ![r.key] = r.row.isDefault] = E
      BY <3>5, <3>6
    <3>8. Promised(r, t) = [t EXCEPT !.isDefault = E]
      BY <2>7 DEF Promised
    <3> HIDE DEF D, E
    <3>9. Tables' = [s EXCEPT !.role = t.role, !.isDefault = E]
      BY <2>4, <3>1, <3>3, <3>4, <3>7
    <3>10. [s EXCEPT !.role = t.role, !.isDefault = E] = [t EXCEPT !.isDefault = E]
      BY <2>1 DEF IsView, s
    <3>11. QED
      BY <3>8, <3>9, <3>10
  <2>8. QED
    BY <2>1, <2>6, <2>7
<1>4. QED
  BY <1>1, <1>3 DEF Progresses

LEMMA MarkUsedProgresses ==
    ASSUME RequestsOK, BasketsTyped, MembershipsTyped, SchedulesHaveGroups, CascadeGroups,
           NEW h \in Handlers, MarkUsed(h)
    PROVE  Progresses(h)
<1> DEFINE r == request[h]
           i == r.invitation
           row == [invitation[i] EXCEPT !.isUsed = TRUE]
<1>1. /\ r.at = "mark" /\ Goes(h, Idle) /\ UNCHANGED <<group, member>>
      /\ invitation' = [invitation EXCEPT ![i] = row]
  BY DEF MarkUsed, At, Ends
<1>2. UNCHANGED <<user, token, vote, turn, config>>
  BY <1>1, NothingCarried
<1>3. i \in DOMAIN invitation
  BY <1>1 DEF RequestsOK, Marks
<1>4. row.isUsed = TRUE
  BY <1>3 DEF MembershipsTyped, IsTable, InvitationRow
<1> HIDE DEF row
<1>5. Plain(invitation', "isUsed") = [Plain(invitation, "isUsed") EXCEPT ![i] = TRUE]
  BY <1>1, <1>3, <1>4 DEF Plain
<1>6. Tables' = [Tables EXCEPT !.isUsed = [Plain(invitation, "isUsed") EXCEPT ![i] = TRUE]]
  BY <1>1, <1>2, <1>5, OnlyInvitation
<1>7. ASSUME NEW t, Halfway(r, t, Rows) PROVE Tables' = Promised(r, t)
  <2> DEFINE role == Put(t.role, r.key, r.role)
             isDefault == Put(t.isDefault, r.key, \A k \in DOMAIN t.role : k[1] # r.key[1])
             s == [t EXCEPT !.role = role, !.isDefault = isDefault]
  <2>1. r.kind = "use" /\ r.expires /\ IsView(t) /\ Tables = s
    BY <1>1, <1>7, TablesView DEF Halfway, MemberHalfway
  <2> HIDE DEF r
  <2>2. Promised(r, t) = [t EXCEPT !.role = role, !.isDefault = isDefault,
                                   !.isUsed = [t.isUsed EXCEPT ![i] = TRUE]]
    BY <2>1 DEF Promised
  <2>3. [t EXCEPT !.role = role, !.isDefault = isDefault,
                  !.isUsed = [t.isUsed EXCEPT ![i] = TRUE]]
            = [s EXCEPT !.isUsed = [t.isUsed EXCEPT ![i] = TRUE]]
    OBVIOUS
  <2>4. s.isUsed = t.isUsed
    <3> HIDE DEF role, isDefault
    <3>1. QED
      BY <2>1 DEF IsView
  <2> HIDE DEF s, role, isDefault
  <2>5. QED
    BY <1>6, <2>1, <2>2, <2>3, <2>4, TablesFields
<1>8. QED
  BY <1>1, <1>7 DEF Progresses

\* Requests that begin change no table of groups, unless they end at once.
LEMMA MembershipStarts ==
    ASSUME BasketsTyped, SchedulesHaveGroups, CascadeGroups, UNCHANGED membershipVars,
           NEW h \in Handlers, NEW q, Goes(h, q),
           \/ q.at \in {"insertGroup", "saveGroup"} /\ GroupHalfway(q, Tables, Rows)
           \/ q.at \in {"insertMember", "clear", "saveMember"} /\ MemberHalfway(q, Tables, Rows)
    PROVE  Starts(h)
<1>1. UNCHANGED <<group, member, invitation>>
  BY DEF membershipVars
<1>2. Rows' = Rows
  BY <1>1, NothingCarried, SameTables
<1>3. Halfway(q, Tables, Rows)
  BY OnePart, TablesIsView
<1>4. QED
  BY <1>2, <1>3 DEF Starts

LEMMA GroupRequestStarts ==
    ASSUME BasketsTyped, MembershipsTyped, SchedulesHaveGroups, CascadeGroups,
           NEW h \in Handlers, GroupRequest(h)
    PROVE  Starts(h)
<1>1. ASSUME NEW u, NEW x, Create(h, u, x) PROVE Starts(h)
  <2> DEFINE q == [at |-> "insertGroup", kind |-> "create", who |-> u, email |-> x]
  <2>1. /\ \A g \in DOMAIN group : group[g].email # x
        /\ Goes(h, q) /\ UNCHANGED membershipVars
    BY <1>1 DEF Create
  <2>2. q.at = "insertGroup" /\ q.kind = "create" /\ q.email = x
    OBVIOUS
  <2> HIDE DEF q
  <2>3. GroupHalfway(q, Tables, Rows)
    BY <2>1, <2>2, TablesView, RowsFields DEF GroupHalfway
  <2>4. QED
    BY <2>1, <2>2, <2>3, MembershipStarts
<1>2. ASSUME NEW g \in DOMAIN group, NEW row, ~Taken(row.email, g), UNCHANGED membershipVars,
             Goes(h, [at |-> "saveGroup", kind |-> "group", id |-> g, group |-> row])
      PROVE  Starts(h)
  <2> DEFINE q == [at |-> "saveGroup", kind |-> "group", id |-> g, group |-> row]
  <2>1. q.at = "saveGroup" /\ q.kind = "group" /\ q.id = g /\ q.group = row
    OBVIOUS
  <2>2. Goes(h, q)
    BY <1>2
  <2> HIDE DEF q
  <2>3. GroupHalfway(q, Tables, Rows)
    BY <1>2, <2>1, TablesView, RowsFields DEF GroupHalfway, Taken
  <2>4. QED
    BY <1>2, <2>1, <2>2, <2>3, MembershipStarts
<1>3. ASSUME NEW g \in DOMAIN group
      PROVE  /\ \A x : [group[g] EXCEPT !.email = x].email = x
             /\ \A b : [group[g] EXCEPT !.isActive = b].email = group[g].email
             /\ ~Taken(group[g].email, g)
  BY DEF MembershipsTyped, IsTable, GroupRow, Taken
<1>4. ASSUME NEW g \in DOMAIN group, NEW u, NEW x, Update(h, u, g, x) PROVE Starts(h)
  <2> DEFINE row == [group[g] EXCEPT !.email = x]
  <2>1. /\ UNCHANGED membershipVars /\ ~Taken(x, g) /\ row.email = x
        /\ Goes(h, [at |-> "saveGroup", kind |-> "group", id |-> g, group |-> row])
    BY <1>3, <1>4 DEF Update
  <2>2. QED
    BY <1>2, <2>1
<1>5. ASSUME NEW g \in DOMAIN group, NEW b, UpdateStatus(h, g, b) PROVE Starts(h)
  <2> DEFINE row == [group[g] EXCEPT !.isActive = b]
  <2>1. /\ UNCHANGED membershipVars /\ ~Taken(row.email, g)
        /\ Goes(h, [at |-> "saveGroup", kind |-> "group", id |-> g, group |-> row])
    BY <1>3, <1>5 DEF UpdateStatus
  <2>2. QED
    BY <1>2, <2>1
<1>6. ASSUME NEW u, NEW g, Delete(h, u, g) PROVE Starts(h)
  BY <1>6, EndsStarts DEF Delete
<1>7. QED
  BY <1>1, <1>4, <1>5, <1>6 DEF GroupRequest

LEMMA MemberRequestStarts ==
    ASSUME BasketsTyped, MembershipsTyped, SchedulesHaveGroups, CascadeGroups,
           NEW h \in Handlers, MemberRequest(h)
    PROVE  Starts(h)
<1>1. ASSUME NEW q, AddMember(h, q), q.at = "insertMember", q.kind \in {"join", "use"},
             {"at", "kind", "key", "isDefault"} \subseteq DOMAIN q
      PROVE  Starts(h)
  <2> DEFINE p == [q EXCEPT !.isDefault = GroupsOf(q.key[1]) = {}]
  <2>1. /\ Goes(h, p) /\ UNCHANGED membershipVars
        /\ Refers(q.key) /\ q.key \notin DOMAIN member
    BY <1>1 DEF AddMember
  <2>2. /\ p.at = "insertMember" /\ p.key = q.key /\ p.kind = q.kind
        /\ p.isDefault = (GroupsOf(q.key[1]) = {})
    BY <1>1
  <2> HIDE DEF p
  <2>3. p.isDefault = \A k \in DOMAIN member : k[1] # p.key[1]
    BY <2>2 DEF GroupsOf
  <2>4. MemberHalfway(p, Tables, Rows)
    BY <1>1, <2>1, <2>2, <2>3, TablesView, RowsFields DEF MemberHalfway, Refers
  <2>5. QED
    BY <2>1, <2>2, <2>4, MembershipStarts
<1>2. ASSUME NEW m, NEW u, NEW g, NEW role, JoinGroup(h, m, u, g, role) PROVE Starts(h)
  <2> DEFINE q == [at |-> "insertMember", kind |-> "join", key |-> <<u, g>>, role |-> role,
                   isDefault |-> FALSE, expires |-> FALSE]
  <2>1. AddMember(h, q)
    BY <1>2 DEF JoinGroup
  <2>2. /\ q.at = "insertMember" /\ q.kind = "join"
        /\ {"at", "kind", "key", "isDefault"} \subseteq DOMAIN q
    OBVIOUS
  <2> HIDE DEF q
  <2>3. QED
    BY <1>1, <2>1, <2>2
<1>3. ASSUME NEW u, NEW i, UseInvitation(h, u, i) PROVE Starts(h)
  <2> DEFINE q == [at |-> "insertMember", kind |-> "use", key |-> <<u, invitation[i].group>>,
                   role |-> invitation[i].role, isDefault |-> FALSE,
                   expires |-> invitation[i].expires, invitation |-> i]
  <2>1. AddMember(h, q)
    BY <1>3 DEF UseInvitation
  <2>2. /\ q.at = "insertMember" /\ q.kind = "use"
        /\ {"at", "kind", "key", "isDefault"} \subseteq DOMAIN q
    OBVIOUS
  <2> HIDE DEF q
  <2>3. QED
    BY <1>1, <2>1, <2>2
<1>4. ASSUME NEW m, NEW u, NEW g, NEW role, UpdateMemberRole(h, m, u, g, role) PROVE Starts(h)
  <2> DEFINE row == [member[<<u, g>>] EXCEPT !.role = role]
             q == [at |-> "saveMember", kind |-> "role", key |-> <<u, g>>, row |-> row]
  <2>1. <<u, g>> \in DOMAIN member /\ Goes(h, q) /\ UNCHANGED membershipVars
    BY <1>4 DEF UpdateMemberRole, IsMember
  <2>2. row.id = member[<<u, g>>].id /\ row.isDefault = member[<<u, g>>].isDefault
    BY <2>1 DEF MembershipsTyped, IsTable, MemberRow
  <2>3. q.at = "saveMember" /\ q.kind = "role" /\ q.key = <<u, g>> /\ q.row = row
    OBVIOUS
  <2> HIDE DEF q, row
  <2>4. MemberHalfway(q, Tables, Rows)
    BY <2>1, <2>2, <2>3, TablesView, RowsFields DEF MemberHalfway
  <2>5. QED
    BY <2>1, <2>3, <2>4, MembershipStarts
<1>5. ASSUME NEW u, NEW g, SetDefaultGroup(h, u, g) PROVE Starts(h)
  <2> DEFINE q == [at |-> "clear", kind |-> "default", key |-> <<u, g>>,
                   row |-> [member[<<u, g>>] EXCEPT !.isDefault = TRUE]]
  <2>1. <<u, g>> \in DOMAIN member /\ Goes(h, q) /\ UNCHANGED membershipVars
    BY <1>5 DEF SetDefaultGroup, IsMember
  <2>2. /\ q.at = "clear" /\ q.kind = "default" /\ q.key = <<u, g>>
        /\ q.row = [member[q.key] EXCEPT !.isDefault = TRUE]
    OBVIOUS
  <2> HIDE DEF q
  <2>3. MemberHalfway(q, Tables, Rows)
    BY <2>1, <2>2, TablesView, RowsFields DEF MemberHalfway
  <2>4. QED
    BY <2>1, <2>2, <2>3, MembershipStarts
<1>6. ASSUME NEW m, NEW u, NEW g, NEW i, NEW row,
             RemoveMember(h, m, u, g) \/ CreateInvitation(h, m, i, row)
      PROVE  Starts(h)
  BY <1>6, EndsStarts DEF RemoveMember, CreateInvitation
<1>7. QED
  BY <1>2, <1>3, <1>4, <1>5, <1>6 DEF MemberRequest

LEMMA SaveVoteProgresses ==
    ASSUME BasketsTyped, UNCHANGED <<accountVars, membershipVars>>,
           NEW h \in Handlers, SaveVote(h)
    PROVE  Progresses(h)
<1> DEFINE r == request[h]
<1>1. r.at = "saveVote" /\ Goes(h, Idle) /\ UNCHANGED <<turn, config>>
  BY DEF SaveVote, At, Ends
<1>2. UNCHANGED <<user, token, group, member, invitation>>
  BY DEF accountVars, membershipVars
<1>3. ASSUME NEW t, Halfway(r, t, Rows) PROVE Tables' = Promised(r, t)
  <2>1. /\ r.kind = "vote" /\ r.key[1] \in DOMAIN group
        /\ "row" \in DOMAIN r <=> r.key \in DOMAIN vote
        /\ "row" \in DOMAIN r => r.row = [vote[r.key] EXCEPT !.status = r.status]
        /\ Tables = t
    BY <1>1, <1>3, RowsFields, TablesView DEF Halfway, BasketHalfway
  <2>2. Plain(vote', "status") = Put(Plain(vote, "status"), r.key, r.status)
    <3>1. CASE "row" \in DOMAIN r
      <4>1. r.row.id = vote[r.key].id /\ r.row.status = r.status
        BY <2>1, <3>1 DEF BasketsTyped, IsTable, VoteRow
      <4>2. vote' = Put(vote, r.key, r.row)
        BY <2>1, <3>1, <4>1 DEF SaveVote, Saved
      <4>3. QED
        BY <4>1, <4>2, PlainPut
    <3>2. CASE "row" \notin DOMAIN r
      <4> DEFINE row == [id |-> FreshId(r.key), status |-> r.status]
      <4>1. vote' = Put(vote, r.key, row)
        BY <2>1, <3>2 DEF SaveVote, Inserted
      <4>2. row.status = r.status
        OBVIOUS
      <4> HIDE DEF row
      <4>3. QED
        BY <4>1, <4>2, PlainPut
    <3>3. QED
      BY <3>1, <3>2
  <2>3. Tables' = [Tables EXCEPT !.vote = Put(Plain(vote, "status"), r.key, r.status)]
    BY <1>1, <1>2, <2>2, OnlyVote
  <2> HIDE DEF r
  <2>4. Promised(r, t) = [t EXCEPT !.vote = Put(t.vote, r.key, r.status)]
    BY <2>1 DEF Promised
  <2>5. QED
    BY <2>1, <2>3, <2>4, TablesFields
<1>4. QED
  BY <1>1, <1>3 DEF Progresses

LEMMA SaveAssignmentProgresses ==
    ASSUME BasketsTyped, UNCHANGED <<accountVars, membershipVars>>,
           NEW h \in Handlers, SaveAssignment(h)
    PROVE  Progresses(h)
<1> DEFINE r == request[h]
<1>1. r.at = "saveTurn" /\ Goes(h, Idle) /\ UNCHANGED <<vote, config>>
  BY DEF SaveAssignment, At, Ends
<1>2. UNCHANGED <<user, token, group, member, invitation>>
  BY DEF accountVars, membershipVars
<1>3. ASSUME NEW t, Halfway(r, t, Rows) PROVE Tables' = Promised(r, t)
  <2>1. /\ r.kind = "turn" /\ r.key[1] \in DOMAIN group
        /\ "row" \in DOMAIN r <=> r.key \in DOMAIN turn
        /\ "row" \in DOMAIN r => r.row = [turn[r.key] EXCEPT !.user = r.user]
        /\ Tables = t
    BY <1>1, <1>3, RowsFields, TablesView DEF Halfway, BasketHalfway
  <2>2. Plain(turn', "user") = Put(Plain(turn, "user"), r.key, r.user)
    <3>1. CASE "row" \in DOMAIN r
      <4>1. r.row.id = turn[r.key].id /\ r.row.user = r.user
        BY <2>1, <3>1 DEF BasketsTyped, IsTable, TurnRow
      <4>2. turn' = Put(turn, r.key, r.row)
        BY <2>1, <3>1, <4>1 DEF SaveAssignment, Saved
      <4>3. QED
        BY <4>1, <4>2, PlainPut
    <3>2. CASE "row" \notin DOMAIN r
      <4> DEFINE row == [id |-> FreshId(r.key), user |-> r.user]
      <4>1. turn' = Put(turn, r.key, row)
        BY <2>1, <3>2 DEF SaveAssignment, Inserted
      <4>2. row.user = r.user
        OBVIOUS
      <4> HIDE DEF row
      <4>3. QED
        BY <4>1, <4>2, PlainPut
    <3>3. QED
      BY <3>1, <3>2
  <2>3. Tables' = [Tables EXCEPT !.turn = Put(Plain(turn, "user"), r.key, r.user)]
    BY <1>1, <1>2, <2>2, OnlyTurn
  <2> HIDE DEF r
  <2>4. Promised(r, t) = [t EXCEPT !.turn = Put(t.turn, r.key, r.user)]
    BY <2>1 DEF Promised
  <2>5. QED
    BY <2>1, <2>3, <2>4, TablesFields
<1>4. QED
  BY <1>1, <1>3 DEF Progresses

LEMMA SaveConfigProgresses ==
    ASSUME UNCHANGED <<accountVars, membershipVars>>, NEW h \in Handlers, SaveConfig(h)
    PROVE  Progresses(h)
<1> DEFINE r == request[h]
<1>1. r.at = "saveConfig" /\ Goes(h, Idle) /\ UNCHANGED <<vote, turn>>
  BY DEF SaveConfig, At, Ends
<1>2. UNCHANGED <<user, token, group, member, invitation>>
  BY DEF accountVars, membershipVars
<1>3. ASSUME NEW t, Halfway(r, t, Rows) PROVE Tables' = Promised(r, t)
  <2> DEFINE row == IF r.id \in DOMAIN config THEN config[r.id] ELSE [c \in ConfigColumns |-> Unset]
  <2>1. r.kind = "config" /\ r.id \in DOMAIN group /\ Tables = t
    BY <1>1, <1>3, RowsFields, TablesView DEF Halfway, BasketHalfway
  <2>2. config' = Put(config, r.id, Over(r.sent, row))
    BY <2>1 DEF SaveConfig
  <2>3. Tables' = [Tables EXCEPT !.config = config']
    BY <1>1, <1>2, OnlyConfig
  <2>4. config = t.config
    BY <2>1, TablesFields
  <2> HIDE DEF r
  <2>5. Promised(r, t) = [t EXCEPT !.config = Put(config, r.id, Over(r.sent, row))]
    BY <2>1, <2>4 DEF Promised
  <2>6. QED
    BY <2>1, <2>2, <2>3, <2>5
<1>4. QED
  BY <1>1, <1>3 DEF Progresses

LEMMA BasketStarts ==
    ASSUME UNCHANGED <<accountVars, membershipVars>>, UNCHANGED basketVars,
           NEW h \in Handlers, NEW q, Goes(h, q),
           q.at \in {"saveVote", "saveTurn", "saveConfig"}, BasketHalfway(q, Tables, Rows)
    PROVE  Starts(h)
<1>1. UNCHANGED <<user, token, group, member, invitation, vote, turn, config>>
  BY DEF accountVars, membershipVars, basketVars
<1>2. Rows' = Rows
  BY <1>1, SameTables
<1>3. Halfway(q, Tables, Rows)
  BY OnePart, TablesIsView
<1>4. QED
  BY <1>2, <1>3 DEF Starts

LEMMA SchedulersStart ==
    ASSUME MembersRefer, UNCHANGED <<accountVars, membershipVars>>,
           NEW h \in Handlers, NEW m, NEW u, NEW g, NEW d, NEW x,
           \/ SetVote(h, m, u, g, d, x) \/ ClearVote(h, m, u, g, d)
           \/ SetAssignment(h, m, g, d, u) \/ ClearAssignment(h, m, g, d)
           \/ UpsertConfig(h, m, g, x)
    PROVE  Starts(h)
<1>2. CASE SetVote(h, m, u, g, d, x)
  <2> DEFINE k == <<g, u, d>>
  <2>1. PICK q : /\ Goes(h, q) /\ q.at = "saveVote" /\ q.kind = "vote" /\ q.key = k
                 /\ q.status = x
                 /\ "row" \in DOMAIN q <=> k \in DOMAIN vote
                 /\ "row" \in DOMAIN q => q.row = [vote[k] EXCEPT !.status = x]
    BY <1>2 DEF SetVote
  <2>2. g \in DOMAIN group /\ UNCHANGED basketVars
    BY <1>2 DEF SetVote, VotesFor
  <2>3. BasketHalfway(q, Tables, Rows)
    BY <2>1, <2>2, TablesView, RowsFields DEF BasketHalfway
  <2>4. QED
    BY <2>1, <2>2, <2>3, BasketStarts
<1>3. CASE SetAssignment(h, m, g, d, u)
  <2> DEFINE k == <<g, d>>
  <2>1. PICK q : /\ Goes(h, q) /\ q.at = "saveTurn" /\ q.kind = "turn" /\ q.key = k
                 /\ q.user = u
                 /\ "row" \in DOMAIN q <=> k \in DOMAIN turn
                 /\ "row" \in DOMAIN q => q.row = [turn[k] EXCEPT !.user = u]
    BY <1>3 DEF SetAssignment
  <2>2. g \in DOMAIN group /\ UNCHANGED basketVars
    BY <1>3 DEF SetAssignment
  <2>3. BasketHalfway(q, Tables, Rows)
    BY <2>1, <2>2, TablesView, RowsFields DEF BasketHalfway
  <2>4. QED
    BY <2>1, <2>2, <2>3, BasketStarts
<1>4. CASE UpsertConfig(h, m, g, x)
  <2>1. PICK q : Goes(h, q) /\ q.at = "saveConfig" /\ q.kind = "config" /\ q.id = g
    BY <1>4 DEF UpsertConfig
  <2>2. g \in DOMAIN group /\ UNCHANGED basketVars
    BY <1>4 DEF UpsertConfig
  <2>3. BasketHalfway(q, Tables, Rows)
    BY <2>1, <2>2, TablesView, RowsFields DEF BasketHalfway
  <2>4. QED
    BY <2>1, <2>2, <2>3, BasketStarts
<1>5. CASE ClearVote(h, m, u, g, d) \/ ClearAssignment(h, m, g, d)
  BY <1>5, EndsStarts DEF ClearVote, ClearAssignment
<1>6. QED
  BY <1>2, <1>3, <1>4, <1>5

-----------------------------------------------------------------------------
(* Steps of requests, and the requests beside *)

\* What is known of every state when a request takes a step.
StateKnown ==
    /\ RequestsOK /\ RequestsTyped /\ AccountsTyped /\ MembershipsTyped /\ BasketsTyped
    /\ SessionsRefer /\ MembersRefer /\ SchedulesHaveGroups

\* In every step, at most one request gets on or begins.
LEMMA OneRequest ==
    ASSUME StateKnown, Step
    PROVE  \/ UNCHANGED request \/ Restart
           \/ \E h \in Handlers : request[h] = Idle /\ Starts(h)
           \/ \E h \in Handlers : request[h] # Idle /\ Progresses(h)
<1> USE DEF StateKnown
<1>1. ASSUME NEW h \in Handlers PROVE At(h, "idle") <=> request[h] = Idle
  BY DEF At, RequestsTyped, Typed, Idle
<1>2. ASSUME NEW h \in Handlers, NEW at, at # "idle", At(h, at) PROVE request[h] # Idle
  BY <1>2 DEF At, Idle
<1>3. CASE AccountsNext(Referred) /\ CascadeUsers
  <2>1. ASSUME NEW h \in Handlers, AccountRequest(h)
        PROVE  request[h] = Idle /\ Starts(h)
    BY <1>1, <1>3, <2>1, AccountRequestStarts DEF AccountRequest, Begins
  <2>2. ASSUME NEW h \in Handlers,
               \/ InsertUser(h) \/ StoreRefreshToken(h) \/ RevokeRefreshToken(h)
               \/ SaveUser(h, Referred) \/ RevokeAllUserTokens(h)
        PROVE  request[h] # Idle /\ Progresses(h)
    <3>1. request[h] # Idle
      BY <1>2, <2>2 DEF InsertUser, StoreRefreshToken, RevokeRefreshToken, SaveUser,
         RevokeAllUserTokens
    <3>2. QED
      BY <1>3, <2>2, <3>1, InsertUserProgresses, StoreProgresses, RevokeProgresses,
         SaveUserProgresses, RevokeAllProgresses
  <2>3. CASE UpdateConfig \/ Tick
    BY <2>3 DEF UpdateConfig, Tick
  <2>4. QED
    BY <1>3, <2>1, <2>2, <2>3 DEF AccountsNext
<1>4. CASE MembershipsNext /\ CascadeGroups
  <2>1. ASSUME NEW h \in Handlers, GroupRequest(h) \/ MemberRequest(h)
        PROVE  request[h] = Idle /\ Starts(h)
    <3>1. Starts(h)
      BY <1>4, <2>1, GroupRequestStarts, MemberRequestStarts
    <3>2. request[h] = Idle
      BY <1>1, <2>1 DEF GroupRequest, MemberRequest, Begins
    <3>3. QED
      BY <3>1, <3>2
  <2>2. ASSUME NEW h \in Handlers,
               \/ InsertGroup(h) \/ InsertManager(h) \/ SaveGroup(h)
               \/ InsertMember(h) \/ ClearDefaults(h) \/ SaveMember(h) \/ MarkUsed(h)
        PROVE  request[h] # Idle /\ Progresses(h)
    <3>1. request[h] # Idle
      BY <1>2, <2>2 DEF InsertGroup, InsertManager, SaveGroup, InsertMember, ClearDefaults,
         SaveMember, MarkUsed
    <3>2. QED
      BY <1>4, <2>2, <3>1, InsertGroupProgresses, InsertManagerProgresses, SaveGroupProgresses,
         InsertMemberProgresses, ClearDefaultsProgresses, SaveMemberProgresses, MarkUsedProgresses
  <2>3. CASE Expire
    BY <2>3 DEF Expire
  <2>4. QED
    BY <1>4, <2>1, <2>2, <2>3 DEF MembershipsNext
<1>5. CASE BasketNext /\ UNCHANGED <<accountVars, membershipVars>>
  <2>1. ASSUME NEW h \in Handlers, SaveVote(h) \/ SaveAssignment(h) \/ SaveConfig(h)
        PROVE  request[h] # Idle /\ Progresses(h)
    <3>1. request[h] # Idle
      BY <1>2, <2>1 DEF SaveVote, SaveAssignment, SaveConfig
    <3>2. QED
      BY <1>5, <2>1, <3>1, SaveVoteProgresses, SaveAssignmentProgresses, SaveConfigProgresses
  <2>2. ASSUME NEW h \in Handlers, NEW m, NEW u, NEW g, NEW d, NEW x, At(h, "idle"),
               \/ SetVote(h, m, u, g, d, x) \/ ClearVote(h, m, u, g, d)
               \/ SetAssignment(h, m, g, d, u) \/ ClearAssignment(h, m, g, d)
               \/ UpsertConfig(h, m, g, x)
        PROVE  request[h] = Idle /\ Starts(h)
    BY <1>1, <1>5, <2>2, SchedulersStart
  <2>3. QED
    BY <1>5, <2>1, <2>2 DEF BasketNext, Begins
<1>6. QED
  BY <1>3, <1>4, <1>5 DEF Step

\* A request that is not the one which takes the step: if a table changes, it is watched no
\* longer.
LEMMA OthersUndisturbed ==
    ASSUME Undisturbed, Watch, NEW h \in Handlers, UNCHANGED request[h]
    PROVE  \A t \in was'[h] : request'[h] # Idle /\ Halfway(request'[h], t, Rows')
<1>1. CASE request[h] = Idle
  <2>1. was'[h] = {}
    BY <1>1 DEF Watch, Begun
  <2>2. QED
    BY <2>1
<1>2. CASE request[h] # Idle /\ tables' # tables
  <2>1. was'[h] = {}
    BY <1>2 DEF Watch, Begun
  <2>2. QED
    BY <2>1
<1>3. CASE request[h] # Idle /\ tables' = tables
  <2>1. was'[h] = was[h]
    BY <1>3 DEF Watch, Begun
  <2>2. Rows' = Rows
    BY <1>3 DEF tables, Rows
  <2>3. QED
    BY <2>1, <2>2 DEF Undisturbed
<1>4. QED
  BY <1>1, <1>2, <1>3

LEMMA StartsUndisturbed ==
    ASSUME RequestsTyped, Watch, NEW h \in Handlers, request[h] = Idle, Starts(h)
    PROVE  \A t \in was'[h] : request'[h] # Idle /\ Halfway(request'[h], t, Rows')
<1>1. PICK q : Goes(h, q) /\ (q # Idle => Halfway(q, Tables, Rows'))
  BY DEF Starts
<1>2. request'[h] = q
  BY <1>1 DEF Goes, RequestsTyped
<1>3. was'[h] = IF q = Idle THEN {} ELSE {Tables}
  BY <1>2 DEF Watch, Begun
<1>4. QED
  BY <1>1, <1>2, <1>3

LEMMA ProgressUndisturbed ==
    ASSUME RequestsTyped, Undisturbed, Watch,
           NEW h \in Handlers, request[h] # Idle, Progresses(h)
    PROVE  /\ \A t \in was'[h] : request'[h] # Idle /\ Halfway(request'[h], t, Rows')
           /\ request'[h] = Idle => \A t \in was[h] :
                  Promises(request[h], t) => Tables' = Promised(request[h], t)
<1>1. PICK q : /\ Goes(h, q)
               /\ \A t : Halfway(request[h], t, Rows)
                            => IF q = Idle
                               THEN Promises(request[h], t) => Tables' = Promised(request[h], t)
                               ELSE q # request[h] /\ Halfway(q, t, Rows')
  BY DEF Progresses
<1>2. request'[h] = q
  BY <1>1 DEF Goes, RequestsTyped
<1>3. \A t \in was[h] : Halfway(request[h], t, Rows)
  BY DEF Undisturbed
<1>4. CASE q = Idle
  <2>1. was'[h] = {}
    BY <1>2, <1>4 DEF Watch, Begun
  <2>2. QED
    BY <1>1, <1>3, <1>4, <2>1
<1>5. CASE q # Idle
  <2>1. CASE was[h] = {}
    <3>1. was'[h] = {}
      BY <1>2, <1>5, <2>1 DEF Watch, Begun
    <3>2. QED
      BY <1>2, <1>5, <3>1
  <2>2. CASE was[h] # {}
    <3>1. q # request[h]
      BY <1>1, <1>3, <1>5, <2>2
    <3>2. was'[h] = was[h]
      BY <1>2, <1>5, <3>1 DEF Watch, Begun
    <3>3. QED
      BY <1>1, <1>2, <1>3, <1>5, <3>2
  <2>3. QED
    BY <2>1, <2>2
<1>6. QED
  BY <1>4, <1>5

LEMMA OtherRequests ==
    ASSUME RequestsTyped, NEW h \in Handlers, Starts(h) \/ Progresses(h)
    PROVE  kinds' = kinds /\ \A x \in Handlers \ {h} : UNCHANGED request[x]
<1>1. PICK q : Goes(h, q)
  BY DEF Starts, Progresses
<1>2. QED
  BY <1>1 DEF Goes, RequestsTyped

LEMMA StepUndisturbed ==
    ASSUME StateKnown, Undisturbed, Step, Watch
    PROVE  /\ \A h \in Handlers : \A t \in was'[h] :
                  request'[h] # Idle /\ Halfway(request'[h], t, Rows')
           /\ \A h \in Handlers : Answered(h) =>
                  \A t \in was[h] : Promises(request[h], t) => Tables' = Promised(request[h], t)
<1> USE DEF StateKnown
<1>1. CASE UNCHANGED request
  BY <1>1, OthersUndisturbed DEF Answered
<1>2. CASE Restart
  <2>1. \A h \in Handlers : was'[h] = {}
    BY <1>2 DEF Restart, Watch, Begun
  <2>2. \A h \in Handlers : ~Answered(h)
    BY <1>2 DEF Restart, Answered
  <2>3. QED
    BY <2>1, <2>2
<1>3. ASSUME NEW h \in Handlers, request[h] = Idle, Starts(h)
      PROVE  /\ \A x \in Handlers : \A t \in was'[x] :
                    request'[x] # Idle /\ Halfway(request'[x], t, Rows')
             /\ \A x \in Handlers : ~Answered(x)
  BY <1>3, OtherRequests, OthersUndisturbed, StartsUndisturbed DEF Answered
<1>4. ASSUME NEW h \in Handlers, request[h] # Idle, Progresses(h)
      PROVE  /\ \A x \in Handlers : \A t \in was'[x] :
                    request'[x] # Idle /\ Halfway(request'[x], t, Rows')
             /\ \A x \in Handlers : Answered(x) =>
                    \A t \in was[x] : Promises(request[x], t) => Tables' = Promised(request[x], t)
  BY <1>4, OtherRequests, OthersUndisturbed, ProgressUndisturbed DEF Answered
<1>5. QED
  BY <1>1, <1>2, <1>3, <1>4, OneRequest

LEMMA KnownAlways == Spec => [](StateKnown /\ Undisturbed)
<1>1. Init => Undisturbed
  BY DEF Init, Undisturbed
<1>2. StateKnown /\ Undisturbed /\ [Next]_vars => Undisturbed'
  <2> SUFFICES ASSUME StateKnown, Undisturbed, [Next]_vars PROVE Undisturbed'
    OBVIOUS
  <2>1. CASE Next
    <3>1. \A h \in Handlers : \A t \in was'[h] :
              request'[h] # Idle /\ Halfway(request'[h], t, Rows')
      BY <2>1, StepUndisturbed DEF Next
    <3>2. QED
      BY <3>1 DEF Undisturbed
  <2>2. CASE UNCHANGED vars
    <3>1. Rows' = Rows /\ request' = request /\ was' = was
      BY <2>2 DEF vars, tables, Rows
    <3>2. QED
      BY <3>1 DEF Undisturbed
  <2>3. QED
    BY <2>1, <2>2
<1>3. RequestsOK /\ RequestsTyped /\ CommunityTypeOK /\ ReferencesHold => StateKnown
  BY TypesParts, ReferenceParts DEF StateKnown
<1>4. QED
  BY <1>1, <1>2, <1>3, RequestsInvariant, TypesInvariant, ReferencesAlwaysHold, PTL DEF Spec

\* For every value of the constants, RequestsAreAtomic holds of every behaviour: a request of
\* several statements, without a transaction, that nobody disturbs does all that it promised
\* and nothing else; a registration and its session, a password reset and the end of all
\* sessions, a new group and its manager, a use of an invitation and its mark.
THEOREM RequestsActAtomically == Spec => RequestsAreAtomic
<1>1. StateKnown /\ Undisturbed /\ [Next]_vars =>
          [\A h \in Handlers :
              Answered(h) => \A t \in was[h] :
                  Promises(request[h], t) => Tables' = Promised(request[h], t)]_vars
  BY StepUndisturbed DEF Next
<1>2. QED
  BY <1>1, KnownAlways, PTL DEF Spec, RequestsAreAtomic
====
