--------------------------- MODULE BasketSchedule ---------------------------
(***************************************************************************)
(* Who prepares the baskets: the tables basket_schedule_votes,             *)
(* basket_schedule_assignments and basket_schedule_config of a group.      *)
(* E-mails are not checked against the users, and all three go with their  *)
(* group by ON DELETE CASCADE.                                             *)
(***************************************************************************)
EXTENDS Memberships

CONSTANTS
    Dates,
    Statuses,    \* of a vote
    Settings     \* of a weekday or a time

VARIABLES
    vote,        \* by group, user and date, which an index makes unique
    turn,        \* the assignments, by group and date
    config       \* by group, their primary key

basketVars == <<vote, turn, config>>

VoteRow == [id : 1..Copies, status : Statuses]

TurnRow == [id : 1..Copies, user : Users]

Unset == "null"

ConfigColumns == {"preferredWeekday", "preferredTime"}

\* What a request sends: some of the columns.
ConfigDto == UNION {[cs -> Settings] : cs \in SUBSET ConfigColumns \ {{}}}

-----------------------------------------------------------------------------

\* By a manager of the group for anybody; for itself, by whoever the guard lets pass.
VotesFor(m, u, g) ==
    /\ PassesPreparer(m) /\ g \in DOMAIN group
    /\ IsManager(m, g) \/ m = u

\* `row` is the vote that is there, if there is one.
SetVote(h, m, u, g, d, status) ==
    LET k == <<g, u, d>>
    IN  /\ VotesFor(m, u, g)
        /\ \/ /\ k \notin DOMAIN vote
              /\ Goes(h, [at |-> "saveVote", kind |-> "vote", key |-> k, status |-> status])
           \/ /\ k \in DOMAIN vote
              /\ Goes(h, [at |-> "saveVote", kind |-> "vote", key |-> k, status |-> status,
                          row |-> [vote[k] EXCEPT !.status = status]])
        /\ UNCHANGED basketVars

SaveVote(h) ==
    LET r == request[h]
    IN  /\ At(h, "saveVote")
        /\ \/ r.key[1] \notin DOMAIN group /\ UNCHANGED vote
           \/ /\ r.key[1] \in DOMAIN group /\ "row" \in DOMAIN r
              /\ vote' = Saved(vote, r.key, r.row)
           \/ /\ r.key[1] \in DOMAIN group /\ "row" \notin DOMAIN r
              /\ vote' = Inserted(vote, r.key, [id |-> FreshId(r.key), status |-> r.status])
        /\ Ends(h)
        /\ UNCHANGED <<turn, config>>

ClearVote(h, m, u, g, d) ==
    /\ VotesFor(m, u, g)
    /\ vote' = Without(vote, {<<g, u, d>>})
    /\ Ends(h)
    /\ UNCHANGED <<turn, config>>

SetAssignment(h, m, g, d, u) ==
    LET k == <<g, d>>
    IN  /\ PassesManager(m) /\ g \in DOMAIN group
        /\ \/ /\ k \notin DOMAIN turn
              /\ Goes(h, [at |-> "saveTurn", kind |-> "turn", key |-> k, user |-> u])
           \/ /\ k \in DOMAIN turn
              /\ Goes(h, [at |-> "saveTurn", kind |-> "turn", key |-> k, user |-> u,
                          row |-> [turn[k] EXCEPT !.user = u]])
        /\ UNCHANGED basketVars

SaveAssignment(h) ==
    LET r == request[h]
    IN  /\ At(h, "saveTurn")
        /\ \/ r.key[1] \notin DOMAIN group /\ UNCHANGED turn
           \/ /\ r.key[1] \in DOMAIN group /\ "row" \in DOMAIN r
              /\ turn' = Saved(turn, r.key, r.row)
           \/ /\ r.key[1] \in DOMAIN group /\ "row" \notin DOMAIN r
              /\ turn' = Inserted(turn, r.key, [id |-> FreshId(r.key), user |-> r.user])
        /\ Ends(h)
        /\ UNCHANGED <<vote, config>>

ClearAssignment(h, m, g, d) ==
    /\ PassesManager(m) /\ g \in DOMAIN group
    /\ turn' = Without(turn, {<<g, d>>})
    /\ Ends(h)
    /\ UNCHANGED <<vote, config>>

\* The columns that the save will write: those of the row that is there, under what is sent.
UpsertConfig(h, m, g, dto) ==
    /\ PassesManager(m) /\ g \in DOMAIN group
    /\ Goes(h, [at |-> "saveConfig", kind |-> "config", id |-> g,
                sent |-> IF g \in DOMAIN config THEN Over(dto, config[g]) ELSE dto])
    /\ UNCHANGED basketVars

\* An update of the row with this primary key, or an insert.
SaveConfig(h) ==
    LET r == request[h]
        row == IF r.id \in DOMAIN config THEN config[r.id] ELSE [c \in ConfigColumns |-> Unset]
    IN  /\ At(h, "saveConfig")
        /\ config' = IF r.id \in DOMAIN group THEN Put(config, r.id, Over(r.sent, row)) ELSE config
        /\ Ends(h)
        /\ UNCHANGED <<vote, turn>>

-----------------------------------------------------------------------------

BasketNext ==
    \E h \in Handlers :
        \/ /\ Begins(h, "vote")
           /\ \E m \in DOMAIN user, u \in Users, g \in DOMAIN group, d \in Dates :
                 \/ \E status \in Statuses : SetVote(h, m, u, g, d, status)
                 \/ ClearVote(h, m, u, g, d)
        \/ /\ Begins(h, "turn")
           /\ \E m \in DOMAIN user, g \in DOMAIN group, d \in Dates :
                 \/ \E u \in Users : SetAssignment(h, m, g, d, u)
                 \/ ClearAssignment(h, m, g, d)
        \/ /\ Begins(h, "config")
           /\ \E m \in DOMAIN user, g \in DOMAIN group, dto \in ConfigDto :
                 UpsertConfig(h, m, g, dto)
        \/ SaveVote(h) \/ SaveAssignment(h) \/ SaveConfig(h)

-----------------------------------------------------------------------------
(* Part of ReferencesHold of the module Community *)

\* No schedule of a group outlives it, or is written for one that was deleted meanwhile.
SchedulesHaveGroups ==
    /\ \A k \in DOMAIN vote : k[1] \in DOMAIN group
    /\ \A k \in DOMAIN turn : k[1] \in DOMAIN group
    /\ DOMAIN config \subseteq DOMAIN group
=============================================================================
