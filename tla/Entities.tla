------------------------------ MODULE Entities ------------------------------
(***************************************************************************)
(* The schema that the code expects: what the TypeORM entities say of      *)
(* their tables.  Unless DATABASE_SYNCHRONIZE is set, nothing compares it  *)
(* with the database when the server starts: it is the migrations that     *)
(* must bring every database to it.                                        *)
(***************************************************************************)

\* A table with its columns, the rules ON DELETE of the columns that refer to other
\* tables, and the sets of columns that are unique together.
Entity(table, columns, onDelete, unique) ==
    [table |-> table, columns |-> columns, onDelete |-> onDelete, unique |-> unique]

User == Entity("users",
    {"id", "email", "name", "surname", "phone", "profile_image", "password", "roles",
     "is_active", "created_at", "updated_at"},
    {}, {{"email"}})

RefreshToken == Entity("refresh_tokens",
    {"id", "user_email", "token", "expires_at", "revoked", "created_at"},
    {<<"user_email", "CASCADE">>}, {{"token"}})

ConsumerGroup == Entity("consumer_groups",
    {"id", "email", "name", "description", "city", "address", "image", "opening_schedule",
     "is_active", "created_by", "created_at", "updated_at"},
    {}, {{"email"}})

UserConsumerGroup == Entity("user_consumer_groups",
    {"id", "user_email", "consumer_group_id", "is_default", "is_client", "is_manager",
     "is_preparer", "joined_at"},
    {<<"user_email", "CASCADE">>, <<"consumer_group_id", "CASCADE">>},
    {{"user_email", "consumer_group_id"}})

GroupInvitation == Entity("group_invitations",
    {"id", "token", "consumer_group_id", "invited_by", "invited_email", "is_manager",
     "is_client", "is_preparer", "expires_at", "is_used", "used_by", "used_at", "created_at"},
    {}, {{"token"}})

BasketScheduleConfig == Entity("basket_schedule_config",
    {"consumer_group_id", "preferred_weekday", "preferred_time"},
    {<<"consumer_group_id", "CASCADE">>}, {})

BasketScheduleVote == Entity("basket_schedule_votes",
    {"id", "consumer_group_id", "user_email", "date", "status"},
    {<<"consumer_group_id", "CASCADE">>}, {{"consumer_group_id", "user_email", "date"}})

BasketScheduleAssignment == Entity("basket_schedule_assignments",
    {"id", "consumer_group_id", "date", "assigned_user_email"},
    {<<"consumer_group_id", "CASCADE">>}, {{"consumer_group_id", "date"}})

Supplier == Entity("suppliers",
    {"id", "name", "cif", "email", "phone", "city", "address", "postal_code",
     "bank_account", "notes", "consumer_group_id", "is_active", "created_at", "updated_at"},
    {<<"consumer_group_id", "CASCADE">>}, {})

Producer == Entity("producers",
    {"id", "name", "supplier_id", "email", "phone", "city", "address", "notes",
     "consumer_group_id", "is_active", "created_at", "updated_at"},
    {<<"supplier_id", "SET NULL">>, <<"consumer_group_id", "CASCADE">>}, {})

Category == Entity("categories",
    {"id", "category", "product", "variety", "consumer_group_id", "created_at", "updated_at"},
    {<<"consumer_group_id", "CASCADE">>}, {})

Article == Entity("articles",
    {"id", "category", "product", "variety", "description", "image", "unit_measure",
     "price_per_unit", "city", "producer_id", "is_eco", "tax_rate", "consumer_group_id",
     "in_showcase", "is_seasonal", "hash", "customization_options", "created_at", "updated_at"},
    {<<"producer_id", "SET NULL">>, <<"consumer_group_id", "CASCADE">>}, {})

ArticlePriceHistory == Entity("article_price_history",
    {"id", "article_id", "price_per_unit", "changed_at"}, {<<"article_id", "CASCADE">>}, {})

Period == Entity("periods",
    {"id", "name", "supplier_id", "start_date", "end_date", "delivery_date", "recurrence",
     "transport_cost", "transport_tax_rate", "created_at", "updated_at"},
    {<<"supplier_id", "CASCADE">>}, {})

PeriodArticle == Entity("period_articles", {"id", "period_id", "article_id", "price_per_unit"},
    {<<"period_id", "CASCADE">>, <<"article_id", "CASCADE">>}, {})

Order == Entity("orders",
    {"id", "user_id", "consumer_group_id", "total_amount", "paid_amount", "payment_status",
     "is_delivered", "created_at", "updated_at"},
    {<<"user_id", "CASCADE">>, <<"consumer_group_id", "CASCADE">>}, {})

OrderItem == Entity("order_items",
    {"id", "order_id", "article_id", "period_id", "quantity", "price_per_unit",
     "total_price", "is_prepared", "selected_options"},
    {<<"order_id", "CASCADE">>, <<"article_id", "SET NULL">>, <<"period_id", "SET NULL">>}, {})

PeriodUserPayment == Entity("period_user_payments",
    {"id", "period_id", "user_id", "consumer_group_id", "payment_status", "total_amount",
     "notes", "created_at", "updated_at"},
    {<<"period_id", "CASCADE">>, <<"user_id", "CASCADE">>, <<"consumer_group_id", "CASCADE">>},
    {{"period_id", "user_id", "consumer_group_id"}})

Sale == Entity("sales",
    {"id", "user_email", "consumer_group_id", "total_amount", "paid_amount",
     "payment_status", "is_delivered", "created_at", "updated_at"},
    {<<"user_email", "CASCADE">>, <<"consumer_group_id", "CASCADE">>}, {})

SaleItem == Entity("sale_items",
    {"id", "sale_id", "article_id", "quantity", "price_per_unit", "total_price", "paid_amount"},
    {<<"sale_id", "CASCADE">>, <<"article_id", "RESTRICT">>}, {})

Notice == Entity("notices",
    {"id", "content", "imageUrl", "authorEmail", "groupId", "createdAt", "updatedAt"},
    {<<"groupId", "NO ACTION">>}, {})

SystemConfig == Entity("system_config", {"key", "value", "description", "updated_at"}, {}, {})

\* The entities of all modules of the application.
Schema ==
    {User, RefreshToken, ConsumerGroup, UserConsumerGroup, GroupInvitation,
     BasketScheduleConfig, BasketScheduleVote, BasketScheduleAssignment, Supplier, Producer,
     Category, Article, ArticlePriceHistory, Period, PeriodArticle, Order, OrderItem,
     PeriodUserPayment, Sale, SaleItem, Notice, SystemConfig}

\* The values that the code writes in columns of an enumerated type.
UserRole == {"super_admin", "admin", "client", "preparer"}
UnitMeasure == {"g", "kg", "ml", "cl", "l", "unit", "manat"}
PaymentStatus == {"unpaid", "paid"}
PeriodRecurrence == {"daily", "weekly", "biweekly", "monthly", "quarterly", "yearly", "custom"}
=============================================================================
