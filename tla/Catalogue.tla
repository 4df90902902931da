----------------------------- MODULE Catalogue -----------------------------
(***************************************************************************)
(* The articles of a group and the periods in which they are offered: the  *)
(* tables articles, article_price_history, periods and period_articles.    *)
(* Neither ArticlesService nor PeriodsService opens a transaction, so a    *)
(* step is one statement of one request and the rows of `article` and      *)
(* `period` that a request has read are those it saves later.  save() of   *)
(* TypeORM is two statements: a SELECT of the row, and an UPDATE of the    *)
(* columns of the object in memory that differ from what was selected, or  *)
(* an INSERT when nothing was.                                             *)
(*                                                                         *)
(* There is one group with one supplier, and requests come from its        *)
(* managers.  The columns in_showcase, is_seasonal, is_eco and image,      *)
(* which have handlers of one form, are one column `shown`.  Lines of      *)
(* orders are not here; Orders has what the deletion of an article does to *)
(* them.                                                                   *)
(***************************************************************************)
EXTENDS Naming, Naturals, Sequences, FiniteSets, FiniteSetsExt

CONSTANTS
    ArticleIds,   \* in the order in which articles are created
    PeriodIds,
    Copies,       \* bound: rows of period_articles for one period and one article
    Prices,
    Days, Today,
    Handlers,     \* one per request that is being answered
    Batches,      \* bound: the sequences of lines that are imported
    Changes,      \* bound: the changes that updates of an article ask for: words in
                  \* place of its product or variety, a price, no variety
    Calendars,    \* bound: the dates that requests send, all of them or some
    Offers,       \* bound: the articles with prices that requests send for a period
    Workloads     \* the sets of kinds of requests that arrive together; with "alone" in
                  \* it, one after the other

\* Every function whose domain is a subset of S.
PartialFunctions(S, T) == UNION {[D -> T] : D \in SUBSET S}

ASSUME CatalogueAssumption ==
    /\ ArticleIds \subseteq Nat /\ PeriodIds \subseteq Nat
    /\ PeriodIds \cap ArticleIds = {}
    /\ Batches \subseteq Seq([name: Names, price: Prices]) \ {<<>>}
    /\ \A change \in Changes :
          /\ change.sent \in PartialFunctions({1, 2}, Products \cup Varieties)
          /\ 1 \in DOMAIN change.sent => change.sent[1] \in Products
          /\ 2 \in DOMAIN change.sent => change.sent[2] \in Varieties
    /\ Calendars \subseteq PartialFunctions({"start", "end", "delivery"}, Days)
    /\ Offers \subseteq PartialFunctions(ArticleIds, Prices)
    /\ \A offers \in Offers : IsFiniteSet(DOMAIN offers)
    /\ Today \in Days /\ Days \subseteq Nat
    /\ \A w \in Workloads :
          w \subseteq {"alone", "import", "create", "update", "rename", "clear", "flag",
                       "delete", "normalize", "period", "remove", "listing", "restart"}

VARIABLES
    article,   \* the rows of articles
    history,   \* the rows of article_price_history: articles with prices they had
    period,    \* the rows of periods: their dates
    listing,   \* the rows of period_articles: their prices
    used,      \* the ids of articles and periods that were given
    handler,   \* what each request has read and has left to do
    loaded,    \* the rows that its save() has selected, if any
    kinds      \* the kinds of requests that arrive

tables == <<article, history, period, listing>>

catalogueVars == <<article, history, period, listing, used, handler, loaded, kinds>>

-----------------------------------------------------------------------------
(* Rows and requests *)

ArticleRow == [name: Names, hash: Hashes, price: Prices, shown: BOOLEAN]

PeriodRow == [start: Days, end: Days, delivery: Days]

\* The last component tells rows for the same article apart: no index is unique.
ListingIds == PeriodIds \X ArticleIds \X (1..Copies)

Line == [name: Names, price: Prices]

Empty == [x \in {} |-> {}]

\* One row, a table without some rows, and a table with other rows over its own.
Row(x, v) == [y \in {x} |-> v]

Without(f, D) == [x \in DOMAIN f \ D |-> f[x]]

Over(f, g) == [x \in DOMAIN f \cup DOMAIN g |-> IF x \in DOMAIN f THEN f[x] ELSE g[x]]

RowsOf(p) == {r \in DOMAIN listing : r[1] = p}

RowsFor(p, a) == {r \in RowsOf(p) : r[2] = a}

\* What a request has in memory besides the request itself: where it is, the tables when
\* it began (none once another request has changed them), rows it has read, lines and
\* articles it has left to do.
Start(request, at) ==
    [at |-> at, request |-> request,
     was |-> {[article |-> article, history |-> history, period |-> period, listing |-> listing]},
     article |-> Empty, period |-> Empty, listing |-> Empty,
     lines |-> <<>>, ids |-> {}, offers |-> Empty]

Idle == [at |-> "idle", was |-> {}, listing |-> Empty]

\* Request h goes on as r; the others have been disturbed if h changed a table.
Goes(h, r) ==
    handler' = [x \in Handlers |->
                   IF x = h THEN r
                   ELSE IF tables' = tables THEN handler[x]
                   ELSE [handler[x] EXCEPT !.was = {}]]

Ends(h) == Goes(h, Idle)

At(h, at) == handler[h].at = at

Begins(h, kind) ==
    /\ At(h, "idle") /\ kind \in kinds
    /\ "alone" \in kinds => \A x \in Handlers : At(x, "idle")

\* The ids of rows that were read from period_articles: such a row may be saved again.
Held == UNION {DOMAIN handler[h].listing : h \in Handlers}

-----------------------------------------------------------------------------
(* Statements *)

NoChange == UNCHANGED <<article, history, period, listing, used, kinds>>

\* Where requests save rows that they have in memory.
Saving == {"price", "write", "saveFlag", "merge", "savePeriod", "saveDates", "list"}

Only(f, D) == [x \in DOMAIN f \cap D |-> f[x]]

\* save() selects the rows that are to be saved.
Load(h) ==
    /\ handler[h].at \in Saving /\ loaded[h] = {}
    /\ At(h, "merge") => handler[h].ids = {}
    /\ NoChange
    /\ LET r == handler[h]
           found == [article |-> Only(article, DOMAIN r.article),
                     period |-> Only(period, DOMAIN r.period),
                     listing |-> Only(listing, DOMAIN r.listing)]
       IN  loaded' = [loaded EXCEPT ![h] = {found}]
    /\ UNCHANGED handler

\* What the UPDATE of save() makes of a row: the columns of the object that differ from
\* those it has selected are written, and those in sent, whose type does.
Column(now, found, object) == IF object # found THEN object ELSE now

Columns(now, found, object, sent) ==
    [c \in DOMAIN now |-> IF c \in sent THEN object[c] ELSE Column(now[c], found[c], object[c])]

\* A table after an UPDATE of row x, which was found, or an INSERT, as it was not.
Saved(table, found, x, row) ==
    IF x \in DOMAIN table <=> x \in DOMAIN found THEN Over(Row(x, row), table) ELSE table

\* The INSERT of a row that was not found is refused when another request has inserted it.
Refused(table, found, x) == x \in DOMAIN table /\ x \notin DOMAIN found

\* An article after the UPDATE; its product and its variety are columns of their own.
ArticleColumns(now, found, object, sent) ==
    [Columns(now, found, object, sent) EXCEPT
        !.name = <<Column(now.name[1], found.name[1], object.name[1]),
                   Column(now.name[2], found.name[2], object.name[2])>>]

SaveArticle(found, a, object, sent) ==
    /\ article' = Saved(article, found, a,
                        IF a \in DOMAIN article
                        THEN ArticleColumns(article[a], found[a], object, sent) ELSE object)
    /\ UNCHANGED <<history, period, listing, used, kinds>>

\* A new article has its names normalised, and the hash of its names as they were sent.
InsertArticle(line, a) ==
    /\ a = Min(ArticleIds \ used)
    /\ used' = used \cup {a}
    /\ LET row == [name |-> Norm[line.name], hash |-> HashKey[line.name],
                   price |-> line.price, shown |-> FALSE]
       IN  article' = Over(Row(a, row), article)
    /\ UNCHANGED <<history, period, listing, kinds>>

\* A mutant of RemoveArticles: no ON DELETE CASCADE in period_articles.
RemoveArticlesOnly(D) ==
    /\ article' = Without(article, D)
    /\ history' = {r \in history : r[1] \notin D}
    /\ UNCHANGED <<period, listing, used, kinds>>

\* Prices and offers go with their article by ON DELETE CASCADE.
RemoveArticles(D) ==
    /\ article' = Without(article, D)
    /\ history' = {r \in history : r[1] \notin D}
    /\ listing' = Without(listing, {r \in DOMAIN listing : r[2] \in D})
    /\ UNCHANGED <<period, used, kinds>>

\* The foreign keys of period_articles.
Refers(r) == r[1] \in DOMAIN period /\ r[2] \in DOMAIN article

\* All rows are saved, or none when a period or an article is not there.
SaveListing(rows) ==
    /\ listing' = IF \A r \in DOMAIN rows : Refers(r) THEN Over(rows, listing) ELSE listing
    /\ UNCHANGED <<article, history, period, used, kinds>>

\* New rows, one for each article of offers, with ids that nobody has.
NewRows(p, offers) ==
    LET free(a) == CHOOSE n \in 1..Copies : <<p, a, n>> \notin DOMAIN listing \cup Held
    IN  [r \in {<<p, a, free(a)>> : a \in DOMAIN offers} |-> offers[r[2]]]

\* Bound: there are ids for new rows.
RoomFor(p, offers) ==
    \A a \in DOMAIN offers : \E n \in 1..Copies : <<p, a, n>> \notin DOMAIN listing \cup Held

-----------------------------------------------------------------------------
(* Imports *)

\* createBatch: the lines are imported one after the other.
Import(h, lines) ==
    /\ NoChange
    /\ Goes(h, [Start([kind |-> "import", lines |-> lines], "find") EXCEPT !.lines = lines])

\* create: a new article, whatever there is.
CreateArticle(h, line) ==
    /\ NoChange
    /\ Goes(h, [Start([kind |-> "create"], "insert") EXCEPT !.lines = <<line>>])

\* A mutant of FindExistingArticle: articles are looked up by their stored names.
FindByName(h) ==
    /\ At(h, "find")
    /\ NoChange
    /\ LET line == Head(handler[h].lines)
           same == {a \in DOMAIN article : article[a].name = line.name}
       IN  \/ /\ same = {}
              /\ Goes(h, [handler[h] EXCEPT !.at = "insert"])
           \/ \E a \in same :
                 Goes(h, [handler[h] EXCEPT !.at = "price",
                             !.article = Row(a, [article[a] EXCEPT !.price = line.price])])

\* The article with the hash of the line, any of them when there are several.
FindExistingArticle(h) ==
    /\ At(h, "find")
    /\ NoChange
    /\ LET line == Head(handler[h].lines)
           same == {a \in DOMAIN article : article[a].hash = HashKey[line.name]}
       IN  \/ /\ same = {}
              /\ Goes(h, [handler[h] EXCEPT !.at = "insert"])
           \/ \E a \in same :
                 Goes(h, [handler[h] EXCEPT !.at = "price",
                             !.article = Row(a, [article[a] EXCEPT !.price = line.price])])

\* createBatch goes on with the next line, whether or not this one failed.
NextLine(h) ==
    IF Len(handler[h].lines) > 1
    THEN Goes(h, [handler[h] EXCEPT !.at = "find", !.lines = Tail(@), !.article = Empty])
    ELSE Ends(h)

\* The price of a row is a string and never equals the number of the request: the price is
\* always saved, and always recorded.
SavePrice(h) ==
    /\ At(h, "price")
    /\ \E found \in loaded[h], a \in DOMAIN handler[h].article :
          /\ SaveArticle(found.article, a, handler[h].article[a], {"price"})
          /\ IF Refused(article, found.article, a) THEN NextLine(h)
             ELSE Goes(h, [handler[h] EXCEPT !.at = "record"])

Insert(h) ==
    /\ At(h, "insert")
    /\ ArticleIds \ used # {}
    /\ \E a \in ArticleIds :
          /\ InsertArticle(Head(handler[h].lines), a)
          /\ Goes(h, [handler[h] EXCEPT !.at = "record", !.article = Row(a, article'[a])])

\* savePriceHistory, which throws when the article is gone; createBatch then counts a
\* failure.
SavePriceHistory(h) ==
    /\ At(h, "record")
    /\ history' = history \cup {<<a, handler[h].article[a].price>> :
                                a \in DOMAIN handler[h].article \cap DOMAIN article}
    /\ UNCHANGED <<article, period, listing, used, kinds>>
    /\ NextLine(h)

-----------------------------------------------------------------------------
(* The current period *)

Open(periods) == {p \in DOMAIN periods : periods[p].start <= Today /\ Today <= periods[p].end}

\* The open periods that started last; getCurrentPeriod takes any of them.
CurrentPeriods(periods) ==
    {p \in Open(periods) : \A q \in Open(periods) : periods[q].start <= periods[p].start}

-----------------------------------------------------------------------------
(* Offers: period_articles *)

\* updateArticlePrice, as a request: the row is read.
UpdateArticlePrice(h, p, a, price) ==
    /\ NoChange
    /\ \E r \in RowsFor(p, a) :
          Goes(h, [Start([kind |-> "listing"], "list") EXCEPT !.listing = Row(r, price)])

\* addArticle, as a request: it is refused when there is a row.
AddArticle(h, p, a, price) ==
    /\ p \in DOMAIN period /\ RowsFor(p, a) = {}
    /\ NoChange
    /\ Goes(h, [Start([kind |-> "listing"], "offer") EXCEPT
                   !.period = Row(p, period[p]), !.offers = Row(a, price)])

\* addArticlesBatch: what is offered already is left out.
AddArticlesBatch(h, p, offers) ==
    /\ p \in DOMAIN period
    /\ LET new == Without(offers, {a \in DOMAIN offers : RowsFor(p, a) # {}})
       IN  /\ DOMAIN new # {}
           /\ NoChange
           /\ Goes(h, [Start([kind |-> "listing"], "offer") EXCEPT
                          !.period = Row(p, period[p]), !.offers = new])

RemoveArticle(h, p, a) ==
    /\ p \in DOMAIN period
    /\ listing' = Without(listing, RowsFor(p, a))
    /\ UNCHANGED <<article, history, period, used, kinds>>
    /\ Ends(h)

\* The save of the row that updateArticlePrice has read, refused by its primary key or by
\* its foreign keys.  Its price is always saved, like that of an article.
SaveOffer(h) ==
    /\ At(h, "list")
    /\ \E found \in loaded[h], r \in DOMAIN handler[h].listing :
          /\ listing' = IF Refers(r)
                        THEN Saved(listing, found.listing, r, handler[h].listing[r])
                        ELSE listing
          /\ UNCHANGED <<article, history, period, used, kinds>>
          /\ IF handler[h].request.kind = "listing" THEN Ends(h)
             ELSE IF Refused(listing, found.listing, r)
                     \/ (r \notin DOMAIN found.listing /\ ~Refers(r))
             THEN Goes(h, [handler[h] EXCEPT !.at = "write", !.listing = Empty])
             ELSE Goes(h, [handler[h] EXCEPT !.at = "confirm"])

\* The insert of addArticle, of addArticlesBatch, and of the articles of a period.
InsertOffers(h) ==
    /\ At(h, "offer")
    /\ \E p \in DOMAIN handler[h].period :
          /\ RoomFor(p, handler[h].offers)
          /\ SaveListing(NewRows(p, handler[h].offers))
    /\ IF handler[h].request.kind = "update"
       THEN Goes(h, [handler[h] EXCEPT !.at = "write", !.period = Empty, !.offers = Empty])
       ELSE Ends(h)

-----------------------------------------------------------------------------
(* Updates of an article *)

\* The product or the variety of the row, as the request changes it.
Word(row, sent, i) == IF i \in DOMAIN sent THEN Capitals[sent[i]] ELSE row.name[i]

\* A mutant of Changed: the hash is not computed again.
ChangedKeepHash(row, request) ==
    [row EXCEPT
        !.name = <<Word(row, request.sent, 1), Word(row, request.sent, 2)>>,
        !.price = IF request.price \in Prices THEN request.price ELSE @]

\* The row with the changes of the request.  The hash is computed again from the
\* normalised names if a name differs; an empty variety leaves the column as it is (the
\* object says undefined) and goes into the hash.
Changed(row, request) ==
    LET sent == request.sent
        name == <<Word(row, sent, 1), Word(row, sent, 2)>>
        differs == \E i \in DOMAIN sent : sent[i] # row.name[i]
    IN  [row EXCEPT
            !.name = name,
            !.price = IF request.price \in Prices THEN request.price ELSE @,
            !.hash = IF request.clear THEN HashKey[Bare[name]]
                     ELSE IF differs THEN HashKey[name] ELSE @]

Update(h, a, sent, price, clear) ==
    /\ price \in Prices => "update" \in kinds
    /\ sent # Empty => "rename" \in kinds
    /\ clear => "clear" \in kinds
    /\ a \in DOMAIN article
    /\ NoChange
    /\ LET request == [kind |-> "update", id |-> a, sent |-> sent, price |-> price, clear |-> clear]
       IN  Goes(h, [Start(request, IF price \in Prices THEN "current" ELSE "write")
                        EXCEPT !.article = Row(a, article[a])])

\* getCurrentPeriod and the reads of updateArticlePrice.
ReadCurrent(h) ==
    /\ At(h, "current")
    /\ NoChange
    /\ \/ /\ Open(period) = {}
          /\ Goes(h, [handler[h] EXCEPT !.at = "write"])
       \/ \E p \in CurrentPeriods(period) :
             LET r == handler[h].request
                 rows == RowsFor(p, r.id)
             IN  \/ /\ rows = {}
                    /\ Goes(h, [handler[h] EXCEPT !.at = "again"])
                 \/ \E row \in rows :
                       Goes(h, [handler[h] EXCEPT !.at = "list", !.listing = Row(row, r.price)])

\* updateArticlePrice reads the period once more: not found means "not offered" here too.
Confirm(h) ==
    /\ At(h, "confirm")
    /\ NoChange
    /\ LET found == \A r \in DOMAIN handler[h].listing : r[1] \in DOMAIN period
       IN  Goes(h, [handler[h] EXCEPT !.at = IF found THEN "write" ELSE "again",
                                      !.listing = Empty])

\* A mutant of OfferInCurrent: an article that is not offered stays so.
OfferNothing(h) ==
    /\ At(h, "again")
    /\ NoChange
    /\ Goes(h, [handler[h] EXCEPT !.at = "write"])

\* The article is not offered yet: getCurrentPeriod again, and the reads of addArticle,
\* whose refusal is caught.
OfferInCurrent(h) ==
    /\ At(h, "again")
    /\ NoChange
    /\ LET r == handler[h].request
       IN  \/ /\ \/ Open(period) = {}
                 \/ \E p \in CurrentPeriods(period) : RowsFor(p, r.id) # {}
              /\ Goes(h, [handler[h] EXCEPT !.at = "write"])
           \/ \E p \in CurrentPeriods(period) :
                 /\ RowsFor(p, r.id) = {}
                 /\ Goes(h, [handler[h] EXCEPT !.at = "offer", !.period = Row(p, period[p]),
                                               !.offers = Row(r.id, r.price)])

\* A mutant of Write: a price is not recorded.
WriteOnly(h) ==
    /\ At(h, "write")
    /\ LET r == handler[h].request
       IN  \E found \in loaded[h] :
              SaveArticle(found.article, r.id, Changed(handler[h].article[r.id], r),
                          IF r.price \in Prices THEN {"price"} ELSE {})
    /\ Ends(h)

\* The article is saved as it was read, with the changes.
Write(h) ==
    /\ At(h, "write")
    /\ LET r == handler[h].request
           row == Changed(handler[h].article[r.id], r)
       IN  \E found \in loaded[h] :
              /\ SaveArticle(found.article, r.id, row, IF r.price \in Prices THEN {"price"} ELSE {})
              /\ IF r.price \in Prices /\ ~Refused(article, found.article, r.id)
                 THEN Goes(h, [handler[h] EXCEPT !.at = "record", !.article = Row(r.id, row)])
                 ELSE Ends(h)

-----------------------------------------------------------------------------
(* Batches about articles *)

\* toggleShowcase, batchToggleShowcase and the like: read, then save, one by one.
Flag(h, ids, shown) ==
    /\ ids # {} /\ ids \subseteq DOMAIN article
    /\ NoChange
    /\ Goes(h, [Start([kind |-> "flag", shown |-> shown], "flag") EXCEPT !.ids = ids])

ReadForFlag(h) ==
    /\ At(h, "flag")
    /\ NoChange
    /\ \E a \in handler[h].ids :
          IF a \in DOMAIN article
          THEN Goes(h, [handler[h] EXCEPT !.at = "saveFlag", !.article = Row(a, article[a])])
          ELSE IF handler[h].ids = {a} THEN Ends(h)
          ELSE Goes(h, [handler[h] EXCEPT !.ids = @ \ {a}])

SaveFlag(h) ==
    /\ At(h, "saveFlag")
    /\ \E found \in loaded[h], a \in DOMAIN handler[h].article :
          /\ SaveArticle(found.article, a,
                         [handler[h].article[a] EXCEPT !.shown = handler[h].request.shown], {})
          /\ IF handler[h].ids = {a} THEN Ends(h)
             ELSE Goes(h, [handler[h] EXCEPT !.at = "flag", !.ids = @ \ {a}, !.article = Empty])

\* delete and batchDelete.
Delete(h, ids) ==
    /\ ids # {} /\ ids \subseteq DOMAIN article
    /\ NoChange
    /\ Goes(h, [Start([kind |-> "delete"], "delete") EXCEPT !.ids = ids])

DeleteNext(h) ==
    /\ At(h, "delete")
    /\ \E a \in handler[h].ids :
          /\ RemoveArticles({a})
          /\ IF handler[h].ids = {a} THEN Ends(h)
             ELSE Goes(h, [handler[h] EXCEPT !.ids = @ \ {a}])

-----------------------------------------------------------------------------
(* Normalisation *)

\* normalizeAllArticles reads all articles.
Normalize(h) ==
    /\ DOMAIN article # {}
    /\ NoChange
    /\ Goes(h, [Start([kind |-> "normalize"], "merge") EXCEPT !.article = article])

\* A mutant of Merge: of each name the newest article is kept.
MergeKeepNewest(h) ==
    /\ At(h, "merge")
    /\ handler[h].ids = {}
    /\ LET rows == handler[h].article
       IN  \E name \in {Norm[rows[a].name] : a \in DOMAIN rows} :
              LET same == {a \in DOMAIN rows : Norm[rows[a].name] = name}
                  left == Without(rows, same)
              IN  /\ \E found \in loaded[h] :
                        SaveArticle(found.article, Max(same),
                                    [rows[Max(same)] EXCEPT !.name = name], {})
                  /\ IF DOMAIN left = {} /\ Cardinality(same) = 1 THEN Ends(h)
                     ELSE Goes(h, [handler[h] EXCEPT !.article = left,
                                                     !.ids = same \ {Max(same)}])

\* The duplicates that were found are next, and then the articles with other names.
NextName(h, left, duplicates) ==
    IF DOMAIN left = {} /\ duplicates = {} THEN Ends(h)
    ELSE Goes(h, [handler[h] EXCEPT !.article = left, !.ids = duplicates])

\* Of the articles with one normalised name the oldest is kept, and saved with that name
\* if it is spelt otherwise; its hash stays.  The others are its duplicates.
Merge(h) ==
    /\ At(h, "merge")
    /\ handler[h].ids = {}
    /\ LET rows == handler[h].article
       IN  \E keep \in DOMAIN rows :
              LET name == Norm[rows[keep].name]
                  same == {a \in DOMAIN rows : Norm[rows[a].name] = name}
                  left == Without(rows, same)
              IN  /\ \A a \in same : keep <= a
                  /\ IF rows[keep].name = name THEN NoChange /\ NextName(h, left, same \ {keep})
                     ELSE \E found \in loaded[h] :
                        /\ SaveArticle(found.article, keep, [rows[keep] EXCEPT !.name = name], {})
                        /\ IF Refused(article, found.article, keep) THEN Ends(h)
                           ELSE NextName(h, left, same \ {keep})

\* The duplicates are removed, oldest first, before the next name.
RemoveDuplicate(h) ==
    /\ At(h, "merge")
    /\ handler[h].ids # {}
    /\ LET a == Min(handler[h].ids)
       IN  /\ RemoveArticles({a})
           /\ IF handler[h].ids = {a} /\ DOMAIN handler[h].article = {} THEN Ends(h)
              ELSE Goes(h, [handler[h] EXCEPT !.ids = @ \ {a}])

-----------------------------------------------------------------------------
(* Periods *)

Ordered(dates) == dates.start <= dates.end /\ dates.start <= dates.delivery

\* create: the period, and then its articles in one statement.
CreatePeriod(h, dates, offers) ==
    /\ Ordered(dates)
    /\ \E p \in PeriodIds \ used :
          /\ \A x \in PeriodIds \ used : p <= x
          /\ used' = used \cup {p}
          /\ period' = Over(Row(p, dates), period)
          /\ UNCHANGED <<article, history, listing, kinds>>
          /\ IF DOMAIN offers = {} THEN Ends(h)
             ELSE Goes(h, [Start([kind |-> "period", id |-> p, offers |-> offers], "offer")
                              EXCEPT !.period = Row(p, dates), !.offers = offers])

\* The dates that an update sends are compared with each other only: one that is compared
\* with a date of the row, which is a string, always passes.
Accepted(sent) ==
    /\ {"start", "end"} \subseteq DOMAIN sent => sent["start"] <= sent["end"]
    /\ {"start", "delivery"} \subseteq DOMAIN sent => sent["start"] <= sent["delivery"]

\* update: the dates in sent change, and the articles if lists.
UpdatePeriod(h, p, sent, lists, offers) ==
    /\ p \in DOMAIN period
    /\ Accepted(sent)
    /\ NoChange
    /\ LET request == [kind |-> "period", id |-> p, offers |-> offers]
           row == [d \in DOMAIN period[p] |-> IF d \in DOMAIN sent THEN sent[d] ELSE period[p][d]]
       IN  Goes(h, [Start(request, IF lists THEN "savePeriod" ELSE "saveDates")
                       EXCEPT !.period = Row(p, row), !.offers = offers])

\* The period is saved as it was read, with the changes.
SavePeriod(h) ==
    /\ At(h, "savePeriod") \/ At(h, "saveDates")
    /\ \E found \in loaded[h], p \in DOMAIN handler[h].period :
          LET object == handler[h].period[p]
          IN  /\ period' = Saved(period, found.period, p,
                               IF p \in DOMAIN period
                               THEN Columns(period[p], found.period[p], object, {}) ELSE object)
              /\ UNCHANGED <<article, history, listing, used, kinds>>
              /\ IF At(h, "saveDates") \/ Refused(period, found.period, p) THEN Ends(h)
                 ELSE Goes(h, [handler[h] EXCEPT !.at = "withdraw"])

\* A mutant of Withdraw: the offers of all periods go.
WithdrawAll(h) ==
    /\ At(h, "withdraw")
    /\ listing' = Empty
    /\ UNCHANGED <<article, history, period, used, kinds>>
    /\ IF DOMAIN handler[h].offers = {} THEN Ends(h)
       ELSE Goes(h, [handler[h] EXCEPT !.at = "offer"])

\* The old offers go before the new ones come.
Withdraw(h) ==
    /\ At(h, "withdraw")
    /\ \E p \in DOMAIN handler[h].period : listing' = Without(listing, RowsOf(p))
    /\ UNCHANGED <<article, history, period, used, kinds>>
    /\ IF DOMAIN handler[h].offers = {} THEN Ends(h)
       ELSE Goes(h, [handler[h] EXCEPT !.at = "offer"])

\* remove: the offers go by ON DELETE CASCADE.
RemovePeriod(h, p) ==
    /\ p \in DOMAIN period
    /\ period' = Without(period, {p})
    /\ listing' = Without(listing, RowsOf(p))
    /\ UNCHANGED <<article, history, used, kinds>>
    /\ Ends(h)

-----------------------------------------------------------------------------

\* The server stops and starts again.
Restart ==
    /\ "restart" \in kinds
    /\ \E h \in Handlers : ~At(h, "idle")
    /\ handler' = [h \in Handlers |-> Idle]
    /\ loaded' = [h \in Handlers |-> {}]
    /\ NoChange

ArticleRequest(h) ==
    \/ Begins(h, "import") /\ \E lines \in Batches : Import(h, lines)
    \/ Begins(h, "create") /\ \E lines \in Batches : CreateArticle(h, Head(lines))
    \/ /\ \E kind \in {"update", "rename", "clear"} : Begins(h, kind)
       /\ \E a \in DOMAIN article, c \in Changes : Update(h, a, c.sent, c.price, c.clear)
    \/ /\ Begins(h, "flag")
       /\ \E ids \in SUBSET DOMAIN article, shown \in BOOLEAN : Flag(h, ids, shown)
    \/ Begins(h, "delete") /\ \E ids \in SUBSET DOMAIN article : Delete(h, ids)
    \/ Begins(h, "normalize") /\ Normalize(h)

\* An article that a request offers may have been deleted since it was shown.
Sendable(offers) == DOMAIN offers \subseteq used

PeriodRequest(h) ==
    \/ /\ Begins(h, "period")
       /\ \E sent \in Calendars, offers \in {o \in Offers : Sendable(o)} :
             \/ DOMAIN sent = {"start", "end", "delivery"} /\ CreatePeriod(h, sent, offers)
             \/ \E p \in DOMAIN period, lists \in BOOLEAN :
                   (lists \/ offers = Empty) /\ UpdatePeriod(h, p, sent, lists, offers)
    \/ /\ Begins(h, "remove")
       /\ \E p \in DOMAIN period : RemovePeriod(h, p)
    \/ /\ Begins(h, "listing")
       /\ \E p \in DOMAIN period :
             \/ \E offers \in {o \in Offers : Sendable(o)} : AddArticlesBatch(h, p, offers)
             \/ \E a \in ArticleIds \cap used :
                   \/ \E price \in Prices :
                         UpdateArticlePrice(h, p, a, price) \/ AddArticle(h, p, a, price)
                   \/ RemoveArticle(h, p, a)

\* The statements of a request after its first.
Goon(h) ==
    \/ FindExistingArticle(h) \/ SavePrice(h) \/ Insert(h) \/ SavePriceHistory(h)
    \/ SaveOffer(h) \/ InsertOffers(h)
    \/ ReadCurrent(h) \/ Confirm(h) \/ OfferInCurrent(h) \/ Write(h)
    \/ ReadForFlag(h) \/ SaveFlag(h) \/ DeleteNext(h)
    \/ Merge(h) \/ RemoveDuplicate(h)
    \/ SavePeriod(h) \/ Withdraw(h)

\* The statement of a request, after which it has nothing selected.
NextStatement(h) ==
    /\ ArticleRequest(h) \/ PeriodRequest(h) \/ Goon(h)
    /\ loaded' = [loaded EXCEPT ![h] = {}]

CatalogueNext ==
    \/ \E h \in Handlers : Load(h) \/ NextStatement(h)
    \/ Restart

-----------------------------------------------------------------------------
(* Properties *)

Quiet == \A h \in Handlers : At(h, "idle")

\* Types, and: prices and offers are of articles that exist, offers in periods that exist,
\* whatever was deleted while it was being offered.
CatalogueTypeOK ==
    /\ DOMAIN article \subseteq ArticleIds \cap used
    /\ \A a \in DOMAIN article : article[a] \in ArticleRow
    /\ history \subseteq (DOMAIN article) \X Prices
    /\ DOMAIN period \subseteq PeriodIds \cap used
    /\ \A p \in DOMAIN period : period[p] \in PeriodRow
    /\ DOMAIN listing \subseteq ListingIds
    /\ \A r \in DOMAIN listing : Refers(r) /\ listing[r] \in Prices

\* Request h ends by itself, and nothing but h has changed the tables since it began.
EndsAlone(h, kind) ==
    /\ ~At(h, "idle") /\ handler'[h] = Idle /\ ~Restart
    /\ handler[h].was # {}
    /\ handler[h].request.kind = kind

Before(h) == CHOOSE t \in handler[h].was : TRUE

\* An import finds the articles that earlier imports made of the same names, whatever
\* their capitals: it makes one article of the names that are new, even when several
\* lines have them, gives an article that is there the last price, records every price,
\* and leaves the other articles alone.
ImportsFindArticles ==
    [][\A h \in Handlers : EndsAlone(h, "import") =>
          LET lines == handler[h].request.lines
              key(i) == HashKey[lines[i].name]
              having(rows, hash) == {a \in DOMAIN rows : rows[a].hash = hash}
              was == Before(h).article
          IN  /\ \A i \in 1..Len(lines) :
                    LET now == having(article', key(i))
                        old == having(was, key(i))
                    IN  /\ IF old = {} THEN Cardinality(now) = 1 ELSE now = old
                        /\ \E a \in now : <<a, lines[i].price>> \in history'
                        /\ (\A j \in i + 1..Len(lines) : key(j) # key(i))
                              => \E a \in now : article'[a].price = lines[i].price
              /\ \A a \in DOMAIN was :
                    IF \E i \in 1..Len(lines) : was[a].hash = key(i)
                    THEN article'[a].name = was[a].name
                    ELSE article'[a] = was[a]
      ]_catalogueVars

\* A new price of an article reaches its row, its history and, if one period is the
\* current one, what that period offers: the article is offered there exactly once more
\* than before if it was not offered, and otherwise one of its offers has the new price.
UpdatesReachPeriod ==
    [][\A h \in Handlers :
          EndsAlone(h, "update") /\ handler[h].request.price \in Prices =>
          LET r == handler[h].request
              was == Before(h)
              offered(p) == {x \in DOMAIN was.listing : x[1] = p /\ x[2] = r.id}
          IN  /\ article'[r.id].price = r.price
              /\ <<r.id, r.price>> \in history'
              /\ Open(period) = {} => listing' = was.listing
              /\ \A p \in PeriodIds : CurrentPeriods(period) = {p} =>
                    \E n \in 1..Copies :
                       /\ listing' = Over(Row(<<p, r.id, n>>, r.price), was.listing)
                       /\ offered(p) = {} \/ <<p, r.id, n>> \in offered(p)
      ]_catalogueVars

\* Normalisation leaves one article of each normalised name, the oldest, which keeps its
\* other columns: no product is lost.
NormalizeMerges ==
    [][\A h \in Handlers : EndsAlone(h, "normalize") =>
          LET was == Before(h).article
              oldest == {a \in DOMAIN was : \A b \in DOMAIN was :
                            Norm[was[b].name] = Norm[was[a].name] => a <= b}
          IN  article' = [a \in oldest |-> [was[a] EXCEPT !.name = Norm[@]]]
      ]_catalogueVars

\* A period that is created or updated with articles offers exactly those afterwards, or
\* none if one of them was deleted in the meantime; other periods keep their offers.
PeriodListsReplaced ==
    [][\A h \in Handlers :
          EndsAlone(h, "period") /\ handler[h].at \in {"withdraw", "offer"} =>
          LET r == handler[h].request
              rows == {x \in DOMAIN listing' : x[1] = r.id}
              was == Before(h).listing
              all == DOMAIN r.offers \subseteq DOMAIN article'
          IN  /\ {<<x[2], listing'[x]>> : x \in rows}
                    = IF all THEN {<<a, r.offers[a]>> : a \in DOMAIN r.offers} ELSE {}
              /\ Cardinality(rows) = IF all THEN Cardinality(DOMAIN r.offers) ELSE 0
              /\ Without(listing', rows) = Without(was, {x \in DOMAIN was : x[1] = r.id})
      ]_catalogueVars

\* Requests that run at once leave no article with a price that its history lacks, as
\* long as none is deleted and the server is not restarted.
PricesAreRecorded ==
    Quiet /\ kinds \cap {"delete", "normalize", "restart"} = {} =>
        \A a \in DOMAIN article : <<a, article[a].price>> \in history

\* An article can be found again: its hash is that of some spelling of its name, through
\* any interleaving of imports, normalisations and other saves with each other, and through
\* any sequence of those and renames.  (Not when a rename meets another save of the same
\* article, as each writes some of the columns, nor once a request has emptied a variety.)
HashOfSomeSpelling ==
    "clear" \notin kinds /\ ("rename" \in kinds => "alone" \in kinds) =>
        \A a \in DOMAIN article : article[a].hash \in HashesOf(article[a].name)
=============================================================================
