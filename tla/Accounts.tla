------------------------------ MODULE Accounts ------------------------------
(***************************************************************************)
(* Users, their passwords and their sessions: the tables users,            *)
(* refresh_tokens and system_config.  A refresh token is a JWT of a user   *)
(* and a second, so that two which are made in one second are the same,    *)
(* and its column is unique.  Of a user the e-mail, the password and       *)
(* whether it is a super administrator matter here; an update may change   *)
(* each.  The other columns, which it saves with them, nobody reads.       *)
(* E-mails have one spelling.                                              *)
(***************************************************************************)
EXTENDS Requests

CONSTANTS
    Users,       \* e-mails
    Passwords,
    UserIds,     \* bound: the ids that users may get
    Times,       \* bound: the seconds that are told apart
    Life         \* how long a refresh token lasts

ASSUME AccountsAssumption == Times \subseteq Nat /\ 0 \in Times /\ Life \in Nat

VARIABLES
    user,          \* the rows of users, by e-mail
    token,         \* the rows of refresh_tokens: whether they are revoked
    loginEnabled,  \* the row of system_config
    now,           \* the clock, in seconds
    ended          \* history: tokens whose end has been answered

accountVars == <<user, token, loginEnabled, now, ended>>

TokenIds == Users \X Times

\* What the column password holds after a save that changed something else: the hook
\* @BeforeUpdate hashes it again, the hash of before, and no password matches that.
Rehashed == "hash of a hash"

UserRow == [id : UserIds, password : Passwords \cup {Rehashed}, admin : BOOLEAN]

\* What a row says, without its id.
Says(row) == [password |-> row.password, admin |-> row.admin]

TokensOf(u) == {k \in DOMAIN token : k[1] = u}

\* The ids that no user has, and no request remembers.
FreshUserIds ==
    {n \in UserIds : /\ \A u \in DOMAIN user : user[u].id # n
                     /\ \A h \in Handlers : At(h, "saveUser") => request[h].row.id # n}

-----------------------------------------------------------------------------
(* Registration and login *)

\* register, or create by an administrator with any roles, with an e-mail that nobody has.
Register(h, u, password, admin, kind) ==
    /\ u \notin DOMAIN user
    /\ admin => kind = "createUser"
    /\ Goes(h, [at |-> "insertUser", kind |-> kind, who |-> u, password |-> password,
                admin |-> admin])
    /\ UNCHANGED accountVars

\* The INSERT, or its refusal when the e-mail was registered meanwhile; register then signs
\* the tokens.
InsertUser(h) ==
    LET r == request[h]
    IN  /\ At(h, "insertUser")
        /\ \/ /\ r.who \in DOMAIN user
              /\ Ends(h)
              /\ UNCHANGED user
           \/ /\ r.who \notin DOMAIN user
              /\ FreshUserIds # {}
              /\ user' = Put(user, r.who, [id |-> CHOOSE n \in FreshUserIds : TRUE,
                                           password |-> r.password, admin |-> r.admin])
              /\ IF r.kind = "register"
                 THEN Goes(h, [at |-> "store", kind |-> "register", who |-> r.who,
                               password |-> r.password, admin |-> r.admin,
                               new |-> <<r.who, now>>])
                 ELSE Ends(h)
        /\ UNCHANGED <<token, loginEnabled, now, ended>>

Login(h, u, password) ==
    /\ u \in DOMAIN user
    /\ user[u].password = password
    /\ loginEnabled \/ user[u].admin
    /\ Goes(h, [at |-> "store", kind |-> "login", who |-> u, new |-> <<u, now>>])
    /\ UNCHANGED accountVars

\* A mutant of StoreRefreshToken: a token that is stored already is overwritten.
StoreAnyRefreshToken(h) ==
    LET r == request[h]
    IN  /\ At(h, "store")
        /\ token' = IF r.who \in DOMAIN user THEN Put(token, r.new, FALSE) ELSE token
        /\ Ends(h)
        /\ UNCHANGED <<user, loginEnabled, now, ended>>

\* The INSERT is refused when the same token is there, and when the user is not.
StoreRefreshToken(h) ==
    LET r == request[h]
    IN  /\ At(h, "store")
        /\ token' = IF r.who \in DOMAIN user /\ r.new \notin DOMAIN token
                    THEN Put(token, r.new, FALSE) ELSE token
        /\ Ends(h)
        /\ UNCHANGED <<user, loginEnabled, now, ended>>

-----------------------------------------------------------------------------
(* Sessions *)

\* refreshToken: the token is valid, stored and not revoked.
RefreshToken(h, k) ==
    /\ k \in DOMAIN token /\ ~token[k]
    /\ now < k[2] + Life
    /\ Goes(h, [at |-> "revoke", kind |-> "refresh", who |-> k[1], old |-> k])
    /\ UNCHANGED accountVars

Logout(h, k) ==
    /\ k \in DOMAIN token
    /\ Goes(h, [at |-> "revoke", kind |-> "logout", who |-> k[1], old |-> k])
    /\ UNCHANGED accountVars

\* The token is revoked, if it is still there; a refresh then signs another.
RevokeRefreshToken(h) ==
    LET r == request[h]
        there == {r.old} \cap DOMAIN token
    IN  /\ At(h, "revoke")
        /\ token' = [k \in DOMAIN token |-> token[k] \/ k = r.old]
        /\ ended' = ended \cup there
        /\ UNCHANGED <<user, loginEnabled, now>>
        /\ \/ r.kind = "logout" /\ Ends(h)
           \/ /\ r.kind = "refresh"
              /\ Goes(h, [at |-> "store", kind |-> "refresh", who |-> r.who, old |-> r.old,
                          new |-> <<r.who, now>>])

\* updateConfig of login_enabled.
UpdateConfig ==
    /\ "login" \in kinds
    /\ loginEnabled' = ~loginEnabled
    /\ UNCHANGED <<user, token, now, ended, request, kinds>>

-----------------------------------------------------------------------------
(* Passwords and profiles *)

\* resetPassword of AuthService.
ResetPassword(h, u, password) ==
    /\ u \in DOMAIN user
    /\ Goes(h, [at |-> "saveUser", kind |-> "reset", key |-> <<u>>, who |-> u, to |-> u,
                row |-> [user[u] EXCEPT !.password = password]])
    /\ UNCHANGED accountVars

\* update by the user or an administrator, of any columns, e-mail and roles among them;
\* updateProfileImage, updateRoles and updateStatus, which send no password; and
\* resetPassword of UsersService, which does.  Those of the kind "account" change the e-mail
\* or the roles and send no password with them.
UpdateUser(h, u, to, password, admin) ==
    /\ u \in DOMAIN user
    /\ Goes(h, [at |-> "saveUser", kind |-> "profile", key |-> <<u>>, who |-> u, to |-> to,
                row |-> [user[u] EXCEPT !.password = password, !.admin = admin]])
    /\ UNCHANGED accountVars

\* The user is saved as it was read, with the e-mail of then or the one sent: the row with
\* its id, or a new one.  A refusal ends the request: the e-mail is another's, or that of
\* before is one that rows refer to, tokens or those of other tables.
SaveUser(h, referred) ==
    LET r == request[h]
        there == {u \in DOMAIN user : user[u].id = r.row.id}
        refused == \/ r.to \in DOMAIN user \ there
                   \/ \E u \in there \ {r.to} : TokensOf(u) # {} \/ u \in referred
    IN  /\ At(h, "saveUser")
        /\ user' = IF refused THEN user ELSE Put(Without(user, there), r.to, r.row)
        /\ IF r.kind = "reset" /\ ~refused
           THEN Goes(h, [at |-> "revokeAll", kind |-> "reset", key |-> r.key, who |-> r.who,
                         row |-> r.row])
           ELSE Ends(h)
        /\ UNCHANGED <<token, loginEnabled, now, ended>>

RevokeAllUserTokens(h) ==
    LET r == request[h]
    IN  /\ At(h, "revokeAll")
        /\ token' = [k \in DOMAIN token |-> token[k] \/ k[1] = r.who]
        /\ ended' = ended \cup TokensOf(r.who)
        /\ Ends(h)
        /\ UNCHANGED <<user, loginEnabled, now>>

\* The tokens of a user go by ON DELETE CASCADE.
DeleteUser(h, u) ==
    /\ u \in DOMAIN user
    /\ user' = Without(user, {u})
    /\ token' = Without(token, TokensOf(u))
    /\ ended' = ended \ TokensOf(u)
    /\ Ends(h)
    /\ UNCHANGED <<loginEnabled, now>>

Tick ==
    /\ kinds \cap {"login", "refresh"} # {}
    /\ now + 1 \in Times
    /\ now' = now + 1
    /\ UNCHANGED <<user, token, loginEnabled, ended, request, kinds>>

-----------------------------------------------------------------------------

AccountRequest(h) ==
    \/ \E kind \in {"register", "createUser"} :
          /\ Begins(h, kind)
          /\ \E u \in Users, password \in Passwords, admin \in BOOLEAN :
                Register(h, u, password, admin, kind)
    \/ /\ Begins(h, "login")
       /\ \E u \in Users, password \in Passwords : Login(h, u, password)
    \/ Begins(h, "refresh") /\ \E k \in DOMAIN token : RefreshToken(h, k)
    \/ Begins(h, "logout") /\ \E k \in DOMAIN token : Logout(h, k)
    \/ /\ Begins(h, "reset")
       /\ \E u \in Users, password \in Passwords : ResetPassword(h, u, password)
    \/ /\ Begins(h, "profile")
       /\ \E u \in DOMAIN user, password \in Passwords \cup {Rehashed} :
             UpdateUser(h, u, u, password, user[u].admin)
    \/ /\ Begins(h, "account")
       /\ \E u \in DOMAIN user, to \in Users, admin \in BOOLEAN :
             UpdateUser(h, u, to, Rehashed, admin)
    \/ Begins(h, "deleteUser") /\ \E u \in Users : DeleteUser(h, u)

\* `referred`: the e-mails that rows of other tables refer to.
AccountsNext(referred) ==
    \/ \E h \in Handlers :
          \/ AccountRequest(h)
          \/ InsertUser(h) \/ StoreRefreshToken(h) \/ RevokeRefreshToken(h)
          \/ SaveUser(h, referred) \/ RevokeAllUserTokens(h)
    \/ UpdateConfig \/ Tick

-----------------------------------------------------------------------------
(* Properties *)

\* A token whose logout, renewal or password reset has been answered is refused for ever:
\* it stays revoked as long as its user is there, whatever other requests do with copies
\* they have read, and even if it is signed again in its second.
EndedTokensRefused ==
    ended \subseteq DOMAIN token /\ \A k \in ended : token[k]
=============================================================================
