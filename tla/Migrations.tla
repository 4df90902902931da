----------------------------- MODULE Migrations -----------------------------
(***************************************************************************)
(* The migrations of the database: what each does to the schema and to the *)
(* rows when it is applied and when it is reverted.  migration:run applies *)
(* all the migrations a release knows that are pending, in one             *)
(* transaction; migration:revert reverts the last one.  A database may be  *)
(* new, or have been made from the entities of an early release            *)
(* (synchronize), which the first migration then takes over.               *)
(*                                                                         *)
(* A migration is a pair of sequences of statements, and a statement is a  *)
(* record that Do interprets.  Types of columns, defaults and the indexes  *)
(* that are not unique are left out, but for the column sales.user_email,  *)
(* whose type the migrations look at.                                      *)
(***************************************************************************)
EXTENDS Entities, Naming, Naturals, Sequences, TLC

CONSTANTS
    Origins,        \* the old databases that the migrations may start from
    OldArticles,    \* the names of the articles that older releases may write
    Releases        \* how many migrations each release knows

VARIABLES
    db,        \* the database: schema and representative rows
    applied    \* the number of migrations that the table migrations records

-----------------------------------------------------------------------------
(* Databases *)

Cols(table, columns) == {table} \X columns

\* A foreign key with its rule ON DELETE.  The migrations name a key after its table and
\* column; the names that synchronize gives are hashes, which they do not know.
Key(table, column, rule) == [table |-> table, column |-> column, rule |-> rule, auto |-> FALSE]

\* Of rows: an order by its payment_status ("unset" while there is no such column), a
\* line by its article, a sale by what its user_email holds ("known" and "stray" are
\* UUIDs, of a user and of none), and articles by their names and hashes.
NewDatabase ==
    [ok |-> TRUE, columns |-> {}, labels |-> {}, keys |-> {}, unique |-> {},
     optional |-> FALSE, uuid |-> FALSE,
     order |-> "none", line |-> "none", sale |-> "none", articles |-> [n \in {} |-> NoHash]]

Tables(d) == {c[1] : c \in d.columns}

KeysOf(d, table, column) == {k \in d.keys : k.table = table /\ k.column = column}

NamedKey(d, table, column) == \E k \in KeysOf(d, table, column) : ~k.auto

\* The rules that apply when a row that table.column refers to is deleted.
Rules(d, table, column) == {k.rule : k \in KeysOf(d, table, column)}

-----------------------------------------------------------------------------
(* Statements *)

CreateTable(table, columns, keys, unique) ==
    [op |-> "create", table |-> table, columns |-> columns, keys |-> keys, unique |-> unique]
CreateTableIfNotExists(table, columns, unique) ==
    [op |-> "createMissing", table |-> table, columns |-> columns, unique |-> unique]
DropTable(table) == [op |-> "dropTable", table |-> table]
AddColumn(table, column) == [op |-> "add", column |-> <<table, column>>]
AddColumnIfNotExists(table, column) == [op |-> "addMissing", column |-> <<table, column>>]
DropColumn(table, column) == [op |-> "drop", column |-> <<table, column>>]
RenameColumn(table, from, to) ==
    [op |-> "rename", from |-> <<table, from>>, to |-> <<table, to>>]
AddForeignKey(table, column, rule) == [op |-> "key", key |-> Key(table, column, rule)]
AddForeignKeyIfNotExists(table, column, rule) ==
    [op |-> "keyMissing", key |-> Key(table, column, rule)]
DropForeignKey(table, column) == [op |-> "dropKey", column |-> <<table, column>>]
CreateUniqueIndex(table, columns) == [op |-> "unique", index |-> <<table, columns>>]
CreateEnumIfNotExists(enum, labels) == [op |-> "enum", enum |-> enum, labels |-> labels]
AddLabelIfNotExists(enum, label) == [op |-> "label", enum |-> enum, label |-> label]
DropEnum(enum) == [op |-> "dropEnum", enum |-> enum]
Statement(op) == [op |-> op]

Labels(d, enum) == {l \in d.labels : l[1] = enum}

Fail(d) == [d EXCEPT !.ok = FALSE]

WithColumn(d, c) ==
    [d EXCEPT !.columns = @ \cup {c},
              !.order = IF c = <<"orders", "payment_status">> /\ @ = "unset"
                        THEN "unpaid" ELSE @,
              !.articles = IF c = <<"articles", "hash">> THEN [n \in DOMAIN @ |-> NoHash] ELSE @]

WithoutColumn(d, c) ==
    [d EXCEPT !.columns = @ \ {c},
              !.keys = @ \ KeysOf(d, c[1], c[2]),
              !.unique = {u \in @ : ~(u[1] = c[1] /\ c[2] \in u[2])},
              !.order = IF c = <<"orders", "payment_status">> /\ @ # "none" THEN "unset" ELSE @]

WithTable(d, s) == [d EXCEPT !.columns = @ \cup Cols(s.table, s.columns),
                             !.unique = @ \cup ({s.table} \X s.unique)]

\* A mutant of WithoutTable: the keys of the table stay.
WithoutTableOnly(d, t) ==
    [d EXCEPT !.columns = {c \in @ : c[1] # t},
              !.unique = {u \in @ : u[1] # t}]

WithoutTable(d, t) ==
    [d EXCEPT !.columns = {c \in @ : c[1] # t},
              !.keys = {k \in @ : k.table # t},
              !.unique = {u \in @ : u[1] # t},
              !.order = IF t = "orders" THEN "none" ELSE @,
              !.line = IF t = "order_items" THEN "none" ELSE @,
              !.sale = IF t = "sales" THEN "none" ELSE @,
              !.articles = IF t = "articles" THEN [n \in {} |-> NoHash] ELSE @]

-----------------------------------------------------------------------------
(* The statements that look at rows *)

\* The hash of an article is that of its names in capitals; articles that have one keep it.
FillHashes(d) ==
    [d EXCEPT !.articles = [n \in DOMAIN @ |-> IF @[n] = NoHash THEN HashKey[n] ELSE @[n]]]

\* A mutant of FixSales: the rows that no user matches are dropped with the old column.
FixSalesUnchecked(d) ==
    IF ~d.uuid THEN d
    ELSE [d EXCEPT !.uuid = FALSE, !.keys = @ \ KeysOf(d, "sales", "user_email"),
                   !.sale = IF @ = "none" THEN @ ELSE "email"]

\* FixSalesUserEmailType: the UUIDs of users become their e-mails; all keys of the column
\* are dropped, and none is made again.
FixSales(d) ==
    IF ~d.uuid THEN d
    ELSE IF d.sale = "stray" THEN Fail(d)
    ELSE [d EXCEPT !.uuid = FALSE, !.keys = @ \ KeysOf(d, "sales", "user_email"),
                   !.sale = IF @ = "known" THEN "email" ELSE @]

UnfixSales(d) ==
    IF d.sale # "none" THEN Fail(d)
    ELSE [d EXCEPT !.uuid = TRUE,
                   !.keys = {k \in @ : k.auto \/ k # Key("sales", "user_email", k.rule)}]

\* A mutant of AllowArticleDeletion: the old key stays.
AllowArticleDeletionTwice(d) ==
    [d EXCEPT !.optional = TRUE,
              !.keys = @ \cup {Key("order_items", "article_id", "SET NULL")}]

\* AllowArticleDeletionInOrders: only keys whose name has "article" in it are dropped.
AllowArticleDeletion(d) ==
    [d EXCEPT !.optional = TRUE,
              !.keys = {k \in @ : k.auto \/ k # Key("order_items", "article_id", k.rule)}
                       \cup {Key("order_items", "article_id", "SET NULL")}]

ForbidArticleDeletion(d) ==
    IF d.line = "unlinked" THEN Fail(d)
    ELSE [d EXCEPT !.optional = FALSE,
                   !.keys = {k \in @ : k.auto \/ k # Key("order_items", "article_id", k.rule)}
                            \cup {Key("order_items", "article_id", "RESTRICT")}]

\* RemovePartialPaymentStatus: what was paid in part is unpaid.
RemovePartial(d) ==
    [d EXCEPT !.labels = @ \ {<<"orders_payment_status_enum", "partial">>,
                              <<"sales_payment_status_enum", "partial">>},
              !.order = IF @ = "partial" THEN "unpaid" ELSE @]

\* PostgreSQL refuses the change of type: the default of the column, which up drops
\* first, cannot be cast to the new type.
RestorePartial(d) == Fail(d)

\* What the statement s makes of the database d.
Do(d, s) ==
    CASE s.op = "create" ->
            IF s.table \in Tables(d) THEN Fail(d)
            ELSE [WithTable(d, s) EXCEPT !.keys = @ \cup s.keys]
      [] s.op = "createMissing" -> IF s.table \in Tables(d) THEN d ELSE WithTable(d, s)
      [] s.op = "dropTable" -> WithoutTable(d, s.table)
      [] s.op = "add" -> IF s.column \in d.columns THEN Fail(d) ELSE WithColumn(d, s.column)
      [] s.op = "addMissing" -> IF s.column \in d.columns THEN d ELSE WithColumn(d, s.column)
      [] s.op = "drop" -> WithoutColumn(d, s.column)
      [] s.op = "rename" ->
            IF s.from \in d.columns /\ s.to \notin d.columns
            THEN [d EXCEPT !.columns = (@ \ {s.from}) \cup {s.to}] ELSE d
      [] s.op = "key" ->
            IF NamedKey(d, s.key.table, s.key.column) THEN Fail(d)
            ELSE [d EXCEPT !.keys = @ \cup {s.key}]
      [] s.op = "keyMissing" ->
            IF \/ NamedKey(d, s.key.table, s.key.column)
               \/ s.key.table = "sales" /\ s.key.column = "user_email" /\ d.uuid
            THEN d ELSE [d EXCEPT !.keys = @ \cup {s.key}]
      [] s.op = "dropKey" ->
            [d EXCEPT !.keys = {k \in @ : k.auto \/ k # Key(s.column[1], s.column[2], k.rule)}]
      [] s.op = "unique" -> [d EXCEPT !.unique = @ \cup {s.index}]
      [] s.op = "enum" ->
            IF Labels(d, s.enum) # {} THEN d
            ELSE [d EXCEPT !.labels = @ \cup Cols(s.enum, s.labels)]
      [] s.op = "label" -> [d EXCEPT !.labels = @ \cup {<<s.enum, s.label>>}]
      [] s.op = "dropEnum" -> [d EXCEPT !.labels = @ \ Labels(d, s.enum)]
      [] s.op = "fillHashes" -> FillHashes(d)
      [] s.op = "fixSales" -> FixSales(d)
      [] s.op = "unfixSales" -> UnfixSales(d)
      [] s.op = "allowArticleDeletion" -> AllowArticleDeletion(d)
      [] s.op = "forbidArticleDeletion" -> ForbidArticleDeletion(d)
      [] s.op = "removePartial" -> RemovePartial(d)
      [] s.op = "restorePartial" -> RestorePartial(d)

-----------------------------------------------------------------------------
(* The migrations, each with what applies it and what reverts it *)

Migration(up, down) == [up |-> up, down |-> down]

\* InitialSchema: what exists already, whatever its columns, is left as it is.
InitialEnums ==
    <<CreateEnumIfNotExists("users_roles_enum", {"super_admin", "admin", "client"}),
      CreateEnumIfNotExists("articles_unit_measure_enum", {"g", "kg", "ml", "cl", "l", "unit"}),
      CreateEnumIfNotExists("orders_payment_status_enum", {"unpaid", "partial", "paid"}),
      CreateEnumIfNotExists("sales_payment_status_enum", {"unpaid", "partial", "paid"}),
      CreateEnumIfNotExists("periods_recurrence_enum",
          {"daily", "weekly", "biweekly", "monthly", "quarterly", "yearly", "custom"})>>

InitialCatalogue ==
    <<CreateTableIfNotExists("users",
          {"id", "email", "name", "surname", "phone", "profile_image", "password", "roles",
           "is_active", "created_at", "updated_at"}, {{"email"}}),
      CreateTableIfNotExists("consumer_groups",
          {"id", "email", "name", "description", "city", "address", "image",
           "opening_schedule", "is_active", "created_by", "created_at", "updated_at"},
          {{"email"}}),
      CreateTableIfNotExists("refresh_tokens",
          {"id", "user_email", "token", "expires_at", "revoked", "created_at"}, {{"token"}}),
      CreateTableIfNotExists("suppliers",
          {"id", "name", "tax_id", "email", "phone", "city", "address", "postal_code",
           "bank_account", "notes", "consumer_group_id", "is_active", "created_at",
           "updated_at"}, {}),
      CreateTableIfNotExists("producers",
          {"id", "name", "supplier_id", "email", "phone", "city", "address", "notes",
           "consumer_group_id", "is_active", "created_at", "updated_at"}, {}),
      CreateTableIfNotExists("articles",
          {"id", "category", "product", "variety", "description", "image", "unit_measure",
           "price_per_unit", "city", "producer_id", "is_eco", "tax_rate",
           "consumer_group_id", "in_showcase", "is_seasonal", "created_at", "updated_at"}, {}),
      CreateTableIfNotExists("article_price_history",
          {"id", "article_id", "price_per_unit", "changed_at"}, {}),
      CreateTableIfNotExists("categories",
          {"id", "category", "product", "variety", "consumer_group_id", "created_at",
           "updated_at"}, {})>>

InitialOrders ==
    <<CreateTableIfNotExists("periods",
          {"id", "name", "supplier_id", "start_date", "end_date", "delivery_date",
           "recurrence", "created_at", "updated_at"}, {}),
      CreateTableIfNotExists("period_articles",
          {"id", "period_id", "article_id", "price_per_unit"}, {}),
      CreateTableIfNotExists("orders",
          {"id", "user_id", "consumer_group_id", "total_amount", "paid_amount",
           "payment_status", "is_delivered", "created_at", "updated_at"}, {}),
      CreateTableIfNotExists("order_items",
          {"id", "order_id", "article_id", "quantity", "price_per_unit", "total_price",
           "paid_amount"}, {}),
      CreateTableIfNotExists("sales",
          {"id", "user_email", "consumer_group_id", "total_amount", "paid_amount",
           "payment_status", "is_delivered", "created_at", "updated_at"}, {}),
      CreateTableIfNotExists("sale_items",
          {"id", "sale_id", "article_id", "quantity", "price_per_unit", "total_price",
           "paid_amount"}, {}),
      CreateTableIfNotExists("notices",
          {"id", "content", "imageUrl", "authorEmail", "groupId", "createdAt",
           "updatedAt"}, {}),
      CreateTableIfNotExists("user_consumer_groups",
          {"id", "user_email", "consumer_group_id", "is_default", "is_client", "is_manager",
           "joined_at"}, {}),
      CreateTableIfNotExists("group_invitations",
          {"id", "token", "consumer_group_id", "invited_by", "invited_email", "is_manager",
           "is_client", "expires_at", "is_used", "used_by", "used_at", "created_at"},
          {{"token"}})>>

InitialKeys ==
    <<AddForeignKeyIfNotExists("refresh_tokens", "user_email", "CASCADE"),
      AddForeignKeyIfNotExists("suppliers", "consumer_group_id", "CASCADE"),
      AddForeignKeyIfNotExists("producers", "supplier_id", "SET NULL"),
      AddForeignKeyIfNotExists("producers", "consumer_group_id", "CASCADE"),
      AddForeignKeyIfNotExists("articles", "producer_id", "SET NULL"),
      AddForeignKeyIfNotExists("articles", "consumer_group_id", "CASCADE"),
      AddForeignKeyIfNotExists("article_price_history", "article_id", "CASCADE"),
      AddForeignKeyIfNotExists("categories", "consumer_group_id", "CASCADE"),
      AddForeignKeyIfNotExists("periods", "supplier_id", "CASCADE"),
      AddForeignKeyIfNotExists("period_articles", "period_id", "CASCADE"),
      AddForeignKeyIfNotExists("period_articles", "article_id", "CASCADE"),
      AddForeignKeyIfNotExists("orders", "user_id", "CASCADE"),
      AddForeignKeyIfNotExists("orders", "consumer_group_id", "CASCADE"),
      AddForeignKeyIfNotExists("order_items", "order_id", "CASCADE"),
      AddForeignKeyIfNotExists("order_items", "article_id", "RESTRICT"),
      AddForeignKeyIfNotExists("sales", "user_email", "CASCADE"),
      AddForeignKeyIfNotExists("sales", "consumer_group_id", "CASCADE"),
      AddForeignKeyIfNotExists("sale_items", "sale_id", "CASCADE"),
      AddForeignKeyIfNotExists("sale_items", "article_id", "RESTRICT"),
      AddForeignKeyIfNotExists("notices", "groupId", "CASCADE"),
      AddForeignKeyIfNotExists("user_consumer_groups", "user_email", "CASCADE"),
      AddForeignKeyIfNotExists("user_consumer_groups", "consumer_group_id", "CASCADE")>>

InitialIndexes ==
    <<CreateUniqueIndex("user_consumer_groups", {"user_email", "consumer_group_id"}),
      CreateUniqueIndex("group_invitations", {"token"})>>

InitialDown ==
    <<DropTable("group_invitations"), DropTable("user_consumer_groups"), DropTable("notices"),
      DropTable("sale_items"), DropTable("sales"), DropTable("order_items"),
      DropTable("orders"), DropTable("period_articles"), DropTable("periods"),
      DropTable("categories"), DropTable("article_price_history"), DropTable("articles"),
      DropTable("producers"), DropTable("suppliers"), DropTable("refresh_tokens"),
      DropTable("consumer_groups"), DropTable("users"),
      DropEnum("periods_recurrence_enum"), DropEnum("sales_payment_status_enum"),
      DropEnum("orders_payment_status_enum"), DropEnum("articles_unit_measure_enum"),
      DropEnum("users_roles_enum")>>

InitialSchema ==
    Migration(InitialEnums \o InitialCatalogue \o InitialOrders \o InitialKeys
                  \o InitialIndexes,
              InitialDown)

\* The column of a table that is added where it is missing, and dropped again.
AddMissing(table, column) ==
    Migration(<<AddColumnIfNotExists(table, column)>>, <<DropColumn(table, column)>>)

\* A mutant of AddPreparerRole: invitations are forgotten.
AddPreparerRoleToMembers ==
    Migration(<<AddColumnIfNotExists("user_consumer_groups", "is_preparer")>>,
              <<DropColumn("user_consumer_groups", "is_preparer")>>)

AddPreparerRole ==
    Migration(<<AddColumnIfNotExists("user_consumer_groups", "is_preparer"),
                AddColumnIfNotExists("group_invitations", "is_preparer")>>,
              <<DropColumn("group_invitations", "is_preparer"),
                DropColumn("user_consumer_groups", "is_preparer")>>)

AddSystemConfig ==
    Migration(<<CreateTableIfNotExists("system_config",
                    {"key", "value", "description", "updated_at"}, {})>>,
              <<DropTable("system_config")>>)

\* Reverting leaves the label where it is.
AddPreparerRoleToEnum == Migration(<<AddLabelIfNotExists("users_roles_enum", "preparer")>>, <<>>)

FixSalesUserEmailType == Migration(<<Statement("fixSales")>>, <<Statement("unfixSales")>>)

AddPaymentStatusToOrders ==
    Migration(<<CreateEnumIfNotExists("orders_payment_status_enum", {"unpaid", "partial", "paid"}),
                AddColumnIfNotExists("orders", "payment_status"),
                CreateEnumIfNotExists("sales_payment_status_enum", {"unpaid", "partial", "paid"}),
                AddColumnIfNotExists("sales", "payment_status")>>,
              <<DropColumn("orders", "payment_status"), DropColumn("sales", "payment_status")>>)

AllowArticleDeletionInOrders ==
    Migration(<<Statement("allowArticleDeletion")>>, <<Statement("forbidArticleDeletion")>>)

AddIsEcoToArticles == AddMissing("articles", "is_eco")

AddTaxRateToArticles == AddMissing("articles", "tax_rate")

AddTotalAmountToOrders == AddMissing("orders", "total_amount")

AddPaidAmountToOrders == AddMissing("orders", "paid_amount")

AddIsDeliveredToOrders == AddMissing("orders", "is_delivered")

AddManatUnitMeasure == Migration(<<AddLabelIfNotExists("articles_unit_measure_enum", "manat")>>, <<>>)

AddPeriodIdToOrderItems ==
    Migration(<<AddColumnIfNotExists("order_items", "period_id"),
                AddForeignKey("order_items", "period_id", "SET NULL")>>,
              <<DropForeignKey("order_items", "period_id"),
                DropColumn("order_items", "period_id")>>)

RenameTaxIdToCif ==
    Migration(<<RenameColumn("suppliers", "tax_id", "cif")>>,
              <<RenameColumn("suppliers", "cif", "tax_id")>>)

AddHashToArticles ==
    Migration(<<AddColumnIfNotExists("articles", "hash"), Statement("fillHashes")>>,
              <<DropColumn("articles", "hash")>>)

AddTransportCostToPeriods == AddMissing("periods", "transport_cost")

AddTransportTaxRateToPeriods == AddMissing("periods", "transport_tax_rate")

\* A mutant of AddCustomizationOptions: reverting leaves one column.
AddCustomizationOptionsHalfReverted ==
    Migration(<<AddColumn("articles", "customization_options"),
                AddColumn("order_items", "selected_options")>>,
              <<DropColumn("order_items", "selected_options")>>)

AddCustomizationOptions ==
    Migration(<<AddColumn("articles", "customization_options"),
                AddColumn("order_items", "selected_options")>>,
              <<DropColumn("order_items", "selected_options"),
                DropColumn("articles", "customization_options")>>)

RemovePartialPaymentStatus ==
    Migration(<<Statement("removePartial")>>, <<Statement("restorePartial")>>)

RemovePaidAmountFromOrderItems ==
    Migration(<<DropColumn("order_items", "paid_amount")>>,
              <<AddColumn("order_items", "paid_amount")>>)

AddBasketScheduleTables ==
    Migration(
        <<CreateTable("basket_schedule_config",
              {"consumer_group_id", "preferred_weekday", "preferred_time"},
              {Key("basket_schedule_config", "consumer_group_id", "CASCADE")}, {}),
          CreateTable("basket_schedule_votes",
              {"id", "consumer_group_id", "user_email", "date", "status"},
              {Key("basket_schedule_votes", "consumer_group_id", "CASCADE")},
              {{"consumer_group_id", "user_email", "date"}}),
          CreateTable("basket_schedule_assignments",
              {"id", "consumer_group_id", "date", "assigned_user_email"},
              {Key("basket_schedule_assignments", "consumer_group_id", "CASCADE")},
              {{"consumer_group_id", "date"}})>>,
        <<DropTable("basket_schedule_assignments"), DropTable("basket_schedule_votes"),
          DropTable("basket_schedule_config")>>)

AddIsPreparedToOrderItems ==
    Migration(<<AddColumn("order_items", "is_prepared")>>,
              <<DropColumn("order_items", "is_prepared")>>)

CreatePeriodUserPayments ==
    Migration(
        <<CreateEnumIfNotExists("period_user_payments_payment_status_enum", {"unpaid", "paid"}),
          CreateTableIfNotExists("period_user_payments",
              {"id", "period_id", "user_id", "consumer_group_id", "payment_status",
               "total_amount", "notes", "created_at", "updated_at"}, {}),
          CreateUniqueIndex("period_user_payments",
              {"period_id", "user_id", "consumer_group_id"}),
          AddForeignKey("period_user_payments", "period_id", "CASCADE"),
          AddForeignKey("period_user_payments", "user_id", "CASCADE"),
          AddForeignKey("period_user_payments", "consumer_group_id", "CASCADE")>>,
        <<DropTable("period_user_payments"),
          DropEnum("period_user_payments_payment_status_enum")>>)

\* The migrations in the order of the data source.
Sequence ==
    <<InitialSchema, AddPreparerRole, AddSystemConfig, AddPreparerRoleToEnum,
      FixSalesUserEmailType, AddPaymentStatusToOrders, AllowArticleDeletionInOrders,
      AddIsEcoToArticles, AddTaxRateToArticles, AddTotalAmountToOrders,
      AddPaidAmountToOrders, AddIsDeliveredToOrders, AddManatUnitMeasure,
      AddPeriodIdToOrderItems, RenameTaxIdToCif, AddHashToArticles,
      AddTransportCostToPeriods, AddTransportTaxRateToPeriods, AddCustomizationOptions,
      RemovePartialPaymentStatus, RemovePaidAmountFromOrderItems, AddBasketScheduleTables,
      AddIsPreparedToOrderItems, CreatePeriodUserPayments>>

\* Of the columns of InitialSchema, an old database may lack those that a later migration
\* adds where they are missing, and have the identification number under its later name.
ASSUME MigrationsAssumption ==
    /\ Releases \subseteq 1..Len(Sequence)
    /\ OldArticles \subseteq Names
    /\ \A o \in Origins :
          /\ o.gaps \subseteq {<<"suppliers", "tax_id">>}
                             \cup Cols("articles", {"is_eco", "tax_rate"})
                             \cup Cols("orders", {"total_amount", "paid_amount",
                                                 "payment_status", "is_delivered"})
                             \cup {<<"sales", "payment_status">>}
          /\ o.extra \subseteq {<<"suppliers", "cif">>}
          /\ <<"suppliers", "tax_id">> \in o.gaps <=> <<"suppliers", "cif">> \in o.extra

-----------------------------------------------------------------------------
(* What happens to a database *)

\* A statement, unless one before it failed.
Step(d, s) == IF d.ok THEN Do(d, s) ELSE d

\* The statements of a migration, one after the other, up to one that fails.
Run(d, statements) ==
    LET state[i \in 0..Len(statements)] ==
            IF i = 0 THEN d ELSE Step(state[i - 1], statements[i])
    IN  state[Len(statements)]

\* An old database: the tables and keys of InitialSchema without the columns in gaps, the
\* keys under names of their own; of sales.user_email, whether it is a UUID and has a key.
OldDatabase(o) ==
    LET initial == Run(NewDatabase, InitialSchema.up)
        auto(k) == [k EXCEPT !.auto = TRUE,
                             !.rule = IF k.table = "notices" THEN "NO ACTION" ELSE @]
        unchecked(k) == k.table = "sales" /\ k.column = "user_email" /\ ~o.checked
    IN  [initial EXCEPT !.columns = (@ \ o.gaps) \cup o.extra,
                        !.keys = {auto(k) : k \in {x \in @ : ~unchecked(x)}},
                        !.uuid = o.uuid]

MigrationsInit ==
    /\ db \in {NewDatabase} \cup {OldDatabase(o) : o \in Origins}
    /\ applied = 0

\* The migrations after the first m, up to the n-th.
Forward(d, m, n) ==
    LET state[i \in 0..n] == IF i <= m THEN d ELSE Run(state[i - 1], Sequence[i].up)
    IN  state[n]

\* A release that knows the first n migrations applies those that are pending.
MigrateTo(n) ==
    /\ applied < n
    /\ LET d == Forward(db, applied, n) IN d.ok /\ db' = d
    /\ applied' = n

Revert ==
    /\ applied > 0
    /\ LET d == Run(db, Sequence[applied].down) IN d.ok /\ db' = d
    /\ applied' = applied - 1

\* The releases before this one write the rows that the schema of their time allows.
WriteOrder ==
    /\ "orders" \in Tables(db) /\ db.order = "none"
    /\ \E status \in {"unset", "unpaid", "partial", "paid"} :
          /\ IF <<"orders", "payment_status">> \in db.columns
             THEN <<"orders_payment_status_enum", status>> \in db.labels
             ELSE status = "unset"
          /\ db' = [db EXCEPT !.order = status]

WriteLine ==
    /\ db.order # "none" /\ db.line = "none"
    /\ db' = [db EXCEPT !.line = "linked"]

\* The article of a line is deleted.
UnlinkLine ==
    /\ db.line = "linked" /\ Rules(db, "order_items", "article_id") = {"SET NULL"}
    /\ db' = [db EXCEPT !.line = "unlinked"]

WriteSale ==
    /\ "sales" \in Tables(db) /\ db.sale = "none"
    /\ \E user \in {"known", "stray", "email"} :
          /\ db.uuid <=> user # "email"
          /\ user = "stray" => KeysOf(db, "sales", "user_email") = {}
          /\ db' = [db EXCEPT !.sale = user]

WriteArticle ==
    /\ "articles" \in Tables(db)
    /\ \E n \in OldArticles \ DOMAIN db.articles :
          LET hash == IF <<"articles", "hash">> \in db.columns THEN HashKey[n] ELSE NoHash
          IN  db' = [db EXCEPT !.articles = [m \in DOMAIN @ \cup {n} |->
                                                IF m = n THEN hash ELSE @[m]]]

OlderRelease ==
    /\ UNCHANGED applied
    /\ WriteOrder \/ WriteLine \/ UnlinkLine \/ WriteSale \/ WriteArticle

MigrationsNext == (\E n \in Releases : MigrateTo(n)) \/ Revert \/ OlderRelease

-----------------------------------------------------------------------------
(* Properties *)

UpToDate == applied = Len(Sequence)

\* The value of applied once a server runs on the database, which is not followed then.
InService == Len(Sequence) + 1

\* Types.
MigrationsTypeOK ==
    /\ applied \in 0..InService
    /\ db.ok
    /\ db.order \in {"none", "unset", "unpaid", "partial", "paid"}
    /\ db.line \in {"none", "linked", "unlinked"}
    /\ db.sale \in {"none", "known", "stray", "email"}
    /\ \A n \in DOMAIN db.articles : db.articles[n] \in Hashes
    /\ \A k \in db.keys : <<k.table, k.column>> \in db.columns

\* From whatever database and through whatever runs and reverts, the migrations end in
\* the columns, unique indexes and enumerated values that the entities declare: the code
\* never meets a column that is not there.
SchemaMatchesEntities ==
    UpToDate =>
        /\ db.columns = UNION {Cols(e.table, e.columns) : e \in Schema}
        /\ db.unique = UNION {{e.table} \X e.unique : e \in Schema}
        /\ db.labels = Cols("users_roles_enum", UserRole)
                       \cup Cols("articles_unit_measure_enum", UnitMeasure)
                       \cup Cols("orders_payment_status_enum", PaymentStatus)
                       \cup Cols("sales_payment_status_enum", PaymentStatus)
                       \cup Cols("period_user_payments_payment_status_enum", PaymentStatus)
                       \cup Cols("periods_recurrence_enum", PeriodRecurrence)

\* The key of notices cascades although the entity says nothing; that of sales is lost
\* where user_email was converted.
Divergent == {<<"notices", "groupId">>, <<"sales", "user_email">>}

\* The rules ON DELETE on which the services rely are those of the keys.  A database that
\* synchronize made has its own keys beside them, and they still apply.
DeletionRulesMatch ==
    UpToDate =>
        \A e \in Schema : \A r \in e.onDelete :
            LET rules == Rules(db, e.table, r[1])
            IN  <<e.table, r[1]>> \notin Divergent =>
                    IF \E k \in KeysOf(db, e.table, r[1]) : k.auto
                    THEN r[2] \in rules ELSE rules = {r[2]}

\* No sequence of runs, reverts and rows stops a database from being brought up to date,
\* but a sale of an unknown user, which FixSales refuses.
UpgradesSucceed ==
    db.sale # "stray" => Forward(db, applied, Len(Sequence)).ok

\* A run that goes forward loses no row and no meaning of one: paid orders stay paid and
\* no other order becomes paid, lines keep their articles, sales their users (the
\* UUID of a user becomes the e-mail of the same user, and no other UUID passes),
\* articles their hashes.
RunKeepsRows ==
    [][applied' > applied /\ applied' # InService =>
        /\ db'.order = "paid" <=> db.order = "paid"
        /\ db'.order = "none" <=> db.order = "none"
        /\ db'.line = db.line
        /\ db'.sale # db.sale => db.sale = "known" /\ db'.sale = "email"
        /\ DOMAIN db'.articles = DOMAIN db.articles
        /\ \A n \in DOMAIN db.articles :
               db.articles[n] # NoHash => db'.articles[n] = db.articles[n]
      ]_<<db, applied>>
=============================================================================
