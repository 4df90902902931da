CONSTANTS
    ana = ana
    ben = ben
    pia = pia
    i1 = i1
    i2 = i2
    Handlers = {h1, h2}
    Copies = 2
    Users <- MCUsers
    UserIds = {1, 2, 3, 4, 5}
    Passwords = {"a", "b"}
    Times = {0, 1, 2}
    Life = 2
    Groups = {1, 2}
    GroupEmails = {"x", "y"}
    Roles = {"manager", "preparer", "client"}
    Invitations <- MCInvitations
    Dates = {1}
    Statuses = {"yes", "no"}
    Settings = {"set"}
    Scenes <- MCScenes
SPECIFICATION Spec
INVARIANTS
    CommunityTypeOK
    ReferencesHold
    EndedTokensRefused
    UsedUpInvitations
PROPERTY
    RequestsAreAtomic
CHECK_DEADLOCK FALSE
