---------------------------- MODULE MCDeployment ----------------------------
EXTENDS Deployment

\* Three spellings of one product, two of its variety, and another product.
MCProducts == {"pera  blanca", "pera blanca", "Pera Blanca", "Poma"}
MCVarieties == {"none", "roja", "Roja"}
MCCapitals == [w \in MCProducts \cup MCVarieties |->
    CASE w \in {"none", "Poma"} -> w [] w \in {"roja", "Roja"} -> "Roja"
      [] OTHER -> "Pera Blanca"]
MCUpper == [w \in MCProducts \cup MCVarieties |->
    CASE w = "none" -> "" [] w = "Poma" -> "POMA" [] w \in {"roja", "Roja"} -> "ROJA"
      [] w = "pera  blanca" -> "PERA  BLANCA" [] OTHER -> "PERA BLANCA"]

\* Databases made from the entities of early releases: before most columns, after the
\* identification number was renamed, and with e-mails in sales already.
Late == {<<"articles", "is_eco">>, <<"articles", "tax_rate">>, <<"orders", "total_amount">>,
         <<"orders", "paid_amount">>, <<"orders", "is_delivered">>,
         <<"orders", "payment_status">>, <<"sales", "payment_status">>}
MCOrigins ==
    {[gaps |-> Late, extra |-> {}, uuid |-> TRUE, checked |-> FALSE],
     [gaps |-> {<<"suppliers", "tax_id">>}, extra |-> {<<"suppliers", "cif">>},
      uuid |-> TRUE, checked |-> TRUE],
     [gaps |-> {<<"orders", "payment_status">>}, extra |-> {}, uuid |-> FALSE, checked |-> TRUE]}
MCReleases == {7, 16, 19, 24}
MCOldArticles == {<<"pera blanca", "roja">>, <<"Pera Blanca", "none">>}

MCArticleIds == 1..2
MCPeriodIds == {11, 12}
MCBatches == {<<[name |-> <<"pera blanca", "roja">>, price |-> 1],
                [name |-> <<"Pera Blanca", "Roja">>, price |-> 2]>>,
              <<[name |-> <<"pera  blanca", "roja">>, price |-> 2]>>}
MCChanges == {[sent |-> 1 :> "Poma", price |-> 0, clear |-> FALSE],
              [sent |-> 2 :> "roja", price |-> 0, clear |-> FALSE],
              [sent |-> Empty, price |-> 2, clear |-> FALSE],
              [sent |-> Empty, price |-> 0, clear |-> TRUE]}
\* Open today, not yet open, and changes of single dates.
MCCalendars == {[start |-> 1, end |-> 1, delivery |-> 2], [start |-> 2, end |-> 2, delivery |-> 2],
                [end |-> 2]}
MCOffers == {Empty, 1 :> 1, 1 :> 2 @@ 2 :> 1}
\* One that is open.
MCOldPeriods == {11 :> [start |-> 1, end |-> 1, delivery |-> 2]}
MCWorkloads ==
    {{"alone", "import", "update", "rename", "normalize", "restart"},
     {"alone", "import", "update", "clear", "normalize"},
     {"alone", "period", "remove", "delete", "restart"},
     {"alone", "listing", "update"},
     {"import", "create", "normalize"},
     {"import", "delete", "restart"},
     {"import", "flag"},
     {"flag", "normalize"},
     {"rename"},
     {"update", "remove"},
     {"update", "delete"},
     {"listing", "delete"}}
=============================================================================
