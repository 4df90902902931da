---------------------------- MODULE MCCommunity ----------------------------
EXTENDS Community, TLC

CONSTANTS ana, ben, pia, i1, i2

\* Ana manages two groups, Ben prepares the baskets of the first, Pia has no group; one
\* invitation is for one use, the other for ever and for Pia.
MCGroup == 1 :> [email |-> "x", isActive |-> TRUE] @@ 2 :> [email |-> "y", isActive |-> TRUE]
MCMember ==
    <<ana, 1>> :> [id |-> 1, role |-> "manager", isDefault |-> TRUE]
    @@ <<ana, 2>> :> [id |-> 1, role |-> "manager", isDefault |-> FALSE]
    @@ <<ben, 1>> :> [id |-> 1, role |-> "preparer", isDefault |-> TRUE]
MCInvitation ==
    i1 :> [group |-> 2, to |-> Anybody, role |-> "client", expires |-> TRUE, isUsed |-> FALSE]
    @@ i2 :> [group |-> 1, to |-> pia, role |-> "preparer", expires |-> FALSE, isUsed |-> FALSE]

MCId == ana :> 1 @@ ben :> 2 @@ pia :> 3

\* The users us and the groups gs of these, with requests of the kinds ks.
Scene(ks, us, gs) ==
    [kinds |-> ks,
     user |-> [u \in us |-> [id |-> MCId[u], password |-> "a", admin |-> u = pia]],
     group |-> [g \in gs |-> MCGroup[g]],
     member |-> [k \in DOMAIN MCMember \cap (us \X gs) |-> MCMember[k]],
     invitation |-> [i \in {x \in {i1, i2} : MCInvitation[x].group \in gs} |-> MCInvitation[i]]]

MCUsers == {ana, ben, pia}
MCInvitations == {i1, i2}

MCScenes ==
    {Scene({"login", "reset", "profile", "restart"}, {ana}, {}),
     Scene({"login", "refresh", "logout"}, {ana}, {}),
     Scene({"login", "logout"}, {ana, pia}, {}),
     Scene({"login", "profile", "deleteUser"}, {ana}, {}),
     Scene({"login", "account"}, {ana}, {}),
     Scene({"account", "reset"}, {ana}, {}),
     Scene({"account", "deleteUser"}, {ana, ben}, {}),
     Scene({"account", "join"}, {ana, ben}, {1}),
     Scene({"account", "leave"}, {ana}, {1}),
     Scene({"register", "deleteUser"}, {ana}, {}),
     Scene({"register", "createUser"}, {ana}, {}),
     Scene({"create", "delete", "group", "restart"}, {ana, pia}, {1}),
     Scene({"create", "deleteUser"}, {ana, ben}, {1}),
     Scene({"join", "leave"}, {ana, pia}, {1, 2}),
     Scene({"join", "role"}, {ana, ben}, {1}),
     Scene({"join", "default", "restart"}, {ana, ben}, {1, 2}),
     Scene({"default", "role", "leave"}, {ana, ben}, {1, 2}),
     Scene({"invite", "use", "restart"}, {ana, ben, pia}, {1}),
     Scene({"use", "restart"}, {ana, ben, pia}, {1, 2}),
     Scene({"use", "delete", "deleteUser"}, {ana, ben, pia}, {1, 2}),
     Scene({"vote", "delete"}, {ana, ben}, {1}),
     Scene({"vote", "restart"}, {ana, ben}, {1}),
     Scene({"turn", "config", "delete"}, {ana, ben}, {1})}

\* A user who has a group makes another.
MCNewGroup == {Scene({"create"}, {ana}, {1})}
=============================================================================
