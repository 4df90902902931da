-------------------------- MODULE CatalogueProofs --------------------------
(***************************************************************************)
(* The steps of Catalogue, for any number of articles, periods and         *)
(* simultaneous requests: what they keep of the tables and of what the     *)
(* requests have in memory, and what a request that nobody disturbs has    *)
(* done at each of its statements and when it ends.  DeploymentProofs      *)
(* draws the theorems from these lemmas.                                   *)
(***************************************************************************)
EXTENDS Catalogue, SequenceTheorems, FiniteSetTheorems, TLAPS

-----------------------------------------------------------------------------
(* Rows, of tables and in memory, when u are the ids in use and k the kinds of requests *)

\* The kinds of requests with which articles can always be found by their hashes.
Findable(k) == "clear" \notin k /\ ("rename" \in k => "alone" \in k)

GoodRow(row, k) == row \in ArticleRow /\ (Findable(k) => row.hash \in HashesOf(row.name))

ArticlesOK(f, u, k) ==
    DOMAIN f \subseteq ArticleIds \cap u /\ \A a \in DOMAIN f : GoodRow(f[a], k)

PeriodsOK(f, u) ==
    DOMAIN f \subseteq PeriodIds \cap u /\ \A p \in DOMAIN f : f[p] \in PeriodRow

ListingOK(f) == DOMAIN f \subseteq ListingIds /\ \A r \in DOMAIN f : f[r] \in Prices

OffersOK(f) == DOMAIN f \subseteq ArticleIds /\ \A a \in DOMAIN f : f[a] \in Prices

TablesOK ==
    /\ ArticlesOK(article, used, kinds)
    /\ history \subseteq (DOMAIN article) \X Prices
    /\ PeriodsOK(period, used)
    /\ ListingOK(listing)
    /\ \A r \in DOMAIN listing : Refers(r)

-----------------------------------------------------------------------------
(* Requests *)

Fields == {"at", "request", "was", "article", "period", "listing", "lines", "ids", "offers"}

\* An update of an article is on its way to its last statements.
Updating(r) ==
    \/ r.at \in {"current", "again", "confirm", "write"}
    \/ r.at = "list" /\ r.request.kind # "listing"
    \/ r.at = "offer" /\ r.request.kind = "update"

\* Words in place of the product and of the variety, one of them or none.
SentOK(sent) ==
    /\ 1 \in DOMAIN sent => sent[1] \in Products
    /\ 2 \in DOMAIN sent => sent[2] \in Varieties

UpdateOK(r, k) ==
    /\ r.request.id \in DOMAIN r.article
    /\ SentOK(r.request.sent)
    /\ r.request.sent # Empty => "rename" \in k
    /\ r.request.clear => "clear" \in k
    /\ r.at # "write" => r.request.price \in Prices

Working(r, u, k) ==
    /\ DOMAIN r = Fields
    /\ ArticlesOK(r.article, u, k)
    /\ PeriodsOK(r.period, u)
    /\ ListingOK(r.listing)
    /\ OffersOK(r.offers)
    /\ r.lines \in Seq(Line)
    /\ r.at \in {"find", "insert"} => r.lines # <<>>
    /\ r.at \in {"flag", "saveFlag"} => r.request.shown \in BOOLEAN
    /\ r.at \in {"savePeriod", "saveDates", "withdraw"} => r.request.kind = "period"
    /\ Updating(r) => UpdateOK(r, k)

RequestOK(r, u, k) == r = Idle \/ Working(r, u, k)

Inv ==
    /\ TablesOK
    /\ DOMAIN handler = Handlers
    /\ \A h \in Handlers : RequestOK(handler[h], used, kinds)

-----------------------------------------------------------------------------
(* What save() has selected, and what is in memory, against the rows as they are *)

\* A request that nobody has disturbed has selected the rows as they are.
Fresh(h) ==
    handler[h].was # {} =>
       \A found \in loaded[h] :
          found = [article |-> Only(article, DOMAIN handler[h].article),
                   period |-> Only(period, DOMAIN handler[h].period),
                   listing |-> Only(listing, DOMAIN handler[h].listing)]

\* When requests come one after the other, nobody disturbs the one that is at work.
Alone ==
    "alone" \in kinds =>
       /\ \A x, y \in Handlers : ~At(x, "idle") /\ ~At(y, "idle") => x = y
       /\ \A x \in Handlers : ~At(x, "idle") => handler[x].was # {}

\* Each article has a normalised name, which its row has in the table and in memory.
NamesAre(f, names) == \A a \in DOMAIN f : Norm[f[a].name] = names[a]

AllNames(names) ==
    /\ NamesAre(article, names)
    /\ \A h \in Handlers : handler[h] # Idle => NamesAre(handler[h].article, names)

\* When nobody renames articles, it stays the same.
SameNames == "rename" \notin kinds => \E names : AllNames(names)

Agreement ==
    /\ DOMAIN loaded = Handlers
    /\ \A h \in Handlers : Fresh(h)
    /\ Alone
    /\ SameNames

\* The server starts as StartServer of Deployment does, on tables of any size: articles of
\* older releases under the names that requests gave them, with the hashes of these names
\* and one price, in the history; periods that offer nothing; no request yet.
CatalogueStart ==
    /\ kinds \in Workloads
    /\ handler = [h \in Handlers |-> Idle]
    /\ loaded = [h \in Handlers |-> {}]
    /\ DOMAIN article \subseteq ArticleIds \cap used
    /\ \E price \in Prices, name \in [DOMAIN article -> Names] :
          /\ history = (DOMAIN article) \X {price}
          /\ article = [a \in DOMAIN article |->
                           [name |-> name[a], hash |-> HashKey[name[a]],
                            price |-> price, shown |-> FALSE]]
    /\ PeriodsOK(period, used)
    /\ listing = Empty

-----------------------------------------------------------------------------
(* Lemmas *)

LEMMA MoreIds ==
    ASSUME NEW r, NEW u, NEW v, NEW k, u \subseteq v, RequestOK(r, u, k)
    PROVE  RequestOK(r, v, k)
BY DEF RequestOK, Working, ArticlesOK, PeriodsOK

LEMMA Disturbed ==
    ASSUME NEW r, NEW u, NEW k, RequestOK(r, u, k)
    PROVE  RequestOK([r EXCEPT !.was = {}], u, k)
<1>1. CASE r = Idle
  <2>1. [r EXCEPT !.was = {}] = Idle
    BY <1>1 DEF Idle
  <2>2. QED
    BY <2>1 DEF RequestOK
<1>2. CASE Working(r, u, k)
  <2> DEFINE s == [r EXCEPT !.was = {}]
  <2>1. /\ DOMAIN s = Fields
        /\ s.at = r.at /\ s.request = r.request /\ s.article = r.article
        /\ s.period = r.period /\ s.listing = r.listing /\ s.offers = r.offers
        /\ s.lines = r.lines
    BY <1>2 DEF Working, Fields
  <2> HIDE DEF s
  <2>2. Working(s, u, k)
    BY <1>2, <2>1 DEF Working, Updating, UpdateOK
  <2>3. QED
    BY <2>2 DEF RequestOK, s
<1>3. QED
  BY <1>1, <1>2 DEF RequestOK

\* When request h goes on as r, all requests are as they should be if r is.
LEMMA Moves ==
    ASSUME Inv, NEW h \in Handlers, NEW r, Goes(h, r),
           used \subseteq used', kinds' = kinds, RequestOK(r, used', kinds)
    PROVE  /\ DOMAIN handler' = Handlers
           /\ \A x \in Handlers : RequestOK(handler'[x], used', kinds')
<1>1. DOMAIN handler' = Handlers
  BY DEF Goes
<1>2. ASSUME NEW x \in Handlers PROVE RequestOK(handler'[x], used', kinds)
  <2>1. RequestOK(handler[x], used', kinds)
    BY MoreIds DEF Inv
  <2>2. RequestOK([handler[x] EXCEPT !.was = {}], used', kinds)
    BY <2>1, Disturbed
  <2>3. handler'[x] \in {r, handler[x], [handler[x] EXCEPT !.was = {}]}
    BY DEF Goes
  <2>4. QED
    BY <2>1, <2>2, <2>3
<1>3. QED
  BY <1>1, <1>2

LEMMA IdleOK == ASSUME NEW u, NEW k PROVE RequestOK(Idle, u, k)
BY DEF RequestOK

\* What a new request remembers.
LEMMA Starts ==
    ASSUME NEW request, NEW at
    PROVE  LET s == Start(request, at)
           IN  /\ DOMAIN s = Fields
               /\ s.at = at /\ s.request = request
               /\ s.article = Empty /\ s.period = Empty /\ s.listing = Empty
               /\ s.offers = Empty /\ s.lines = <<>> /\ s.ids = {}
BY DEF Start, Fields

LEMMA EmptyOK ==
    ASSUME NEW u, NEW k
    PROVE  /\ ArticlesOK(Empty, u, k) /\ PeriodsOK(Empty, u)
           /\ ListingOK(Empty) /\ OffersOK(Empty) /\ <<>> \in Seq(Line)
BY DEF ArticlesOK, PeriodsOK, ListingOK, OffersOK, Empty

\* A table stays as it should be with good rows added to it, or with rows removed.
LEMMA OverArticles ==
    ASSUME NEW f, NEW u, NEW k, ArticlesOK(f, u, k),
           NEW a \in ArticleIds \cap u, NEW row, GoodRow(row, k)
    PROVE  ArticlesOK(Over(Row(a, row), f), u, k)
BY DEF ArticlesOK, Over, Row

LEMMA RowArticles ==
    ASSUME NEW u, NEW k, NEW a \in ArticleIds \cap u, NEW row, GoodRow(row, k)
    PROVE  ArticlesOK(Row(a, row), u, k)
BY DEF ArticlesOK, Row

\* Capitals and spaces do not change by which hashes an article may be found.
LEMMA Pairs ==
    ASSUME NEW n \in Names
    PROVE  /\ n = <<n[1], n[2]>> /\ n[1] \in Products /\ n[2] \in Varieties
           /\ Norm[n] = <<Capitals[n[1]], Capitals[n[2]]>>
BY DEF Names, Norm

LEMMA PairsAreNames ==
    ASSUME NEW p \in Products, NEW v \in Varieties
    PROVE  <<p, v>> \in Names /\ Norm[<<p, v>>] = <<Capitals[p], Capitals[v]>>
BY DEF Names, Norm

LEMMA NormIsName ==
    ASSUME NEW n \in Names
    PROVE  Norm[n] \in Names /\ Norm[Norm[n]] = Norm[n] /\ Bare[n] \in Names
<1> DEFINE p == n[1]
           v == n[2]
<1>1. p \in Products /\ v \in Varieties /\ Norm[n] = <<Capitals[p], Capitals[v]>>
  BY Pairs
<1>2. Bare[n] = <<p, NoVariety>>
  BY DEF Bare
<1> HIDE DEF p, v
<1>3. /\ Capitals[p] \in Products /\ Capitals[v] \in Varieties /\ NoVariety \in Varieties
      /\ Capitals[Capitals[p]] = Capitals[p] /\ Capitals[Capitals[v]] = Capitals[v]
  BY <1>1, NamingAssumption
<1>4. QED
  BY <1>1, <1>2, <1>3, PairsAreNames

LEMMA NormHashes ==
    ASSUME NEW n \in Names
    PROVE  /\ Norm[n] \in Names /\ HashesOf(Norm[n]) = HashesOf(n)
           /\ HashKey[n] \in HashesOf(n) /\ HashKey[n] \in Hashes
           /\ HashKey[Bare[n]] \in Hashes
BY NormIsName DEF HashesOf, Hashes

LEMMA SameHashes ==
    ASSUME NEW m \in Names, NEW n \in Names, Norm[m] = Norm[n]
    PROVE  HashesOf(m) = HashesOf(n)
BY DEF HashesOf

LEMMA NormKeepsGood ==
    ASSUME NEW row, NEW k, GoodRow(row, k)
    PROVE  GoodRow([row EXCEPT !.name = Norm[@]], k)
BY NormHashes DEF GoodRow, ArticleRow

LEMMA InsertedGood ==
    ASSUME NEW line \in Line, NEW k
    PROVE  GoodRow([name |-> Norm[line.name], hash |-> HashKey[line.name],
                    price |-> line.price, shown |-> FALSE], k)
BY NormHashes DEF GoodRow, ArticleRow, Line

LEMMA PairParts ==
    ASSUME NEW a, NEW b, NEW c, NEW d, <<a, b>> = <<c, d>>
    PROVE  a = c /\ b = d
OBVIOUS

\* A product and a variety, each from one of two names that are spelt alike, are spelt so.
LEMMA MixedName ==
    ASSUME NEW m \in Names, NEW n \in Names, Norm[m] = Norm[n],
           NEW p, p = m[1] \/ p = n[1], NEW v, v = m[2] \/ v = n[2]
    PROVE  <<p, v>> \in Names /\ Norm[<<p, v>>] = Norm[m]
<1>1. /\ m[1] \in Products /\ m[2] \in Varieties /\ n[1] \in Products /\ n[2] \in Varieties
      /\ Norm[m] = <<Capitals[m[1]], Capitals[m[2]]>>
      /\ Norm[n] = <<Capitals[n[1]], Capitals[n[2]]>>
  BY Pairs
<1>2. Capitals[m[1]] = Capitals[n[1]] /\ Capitals[m[2]] = Capitals[n[2]]
  <2>1. <<Capitals[m[1]], Capitals[m[2]]>> = <<Capitals[n[1]], Capitals[n[2]]>>
    BY <1>1, Zenon
  <2>2. QED
    BY <2>1, PairParts
<1>3. /\ p \in Products /\ v \in Varieties
      /\ Capitals[p] = Capitals[m[1]] /\ Capitals[v] = Capitals[m[2]]
  BY <1>1, <1>2
<1>4. QED
  BY <1>1, <1>3, PairsAreNames

LEMMA ChangedWords ==
    ASSUME NEW row, row.name \in Names, NEW sent, SentOK(sent)
    PROVE  LET name == <<Word(row, sent, 1), Word(row, sent, 2)>>
           IN  /\ name \in Names
               /\ (\A i \in DOMAIN sent : sent[i] = row.name[i]) => Norm[name] = Norm[row.name]
               /\ sent = Empty => name = row.name
<1> DEFINE p == Word(row, sent, 1)
           v == Word(row, sent, 2)
           m == row.name[1]
           n == row.name[2]
<1>1. /\ row.name = <<m, n>> /\ m \in Products /\ n \in Varieties
      /\ Norm[row.name] = <<Capitals[m], Capitals[n]>>
  BY Pairs
<1>2. /\ Capitals[m] \in Products /\ Capitals[n] \in Varieties
      /\ Capitals[Capitals[m]] = Capitals[m] /\ Capitals[Capitals[n]] = Capitals[n]
      /\ 1 \in DOMAIN sent => Capitals[sent[1]] \in Products
      /\ 2 \in DOMAIN sent => Capitals[sent[2]] \in Varieties
  BY <1>1, NamingAssumption DEF SentOK
<1>3. p \in Products /\ v \in Varieties
  BY <1>1, <1>2 DEF Word
<1>4. ASSUME \A i \in DOMAIN sent : sent[i] = row.name[i]
      PROVE  p \in {m, Capitals[m]} /\ v \in {n, Capitals[n]}
  BY <1>4 DEF Word
<1>5. sent = Empty => p = m /\ v = n
  BY DEF Word, Empty
<1> HIDE DEF p, v, m, n
<1>6. <<p, v>> \in Names /\ Norm[<<p, v>>] = <<Capitals[p], Capitals[v]>>
  BY <1>3, PairsAreNames
<1>7. ASSUME \A i \in DOMAIN sent : sent[i] = row.name[i]
      PROVE  Norm[<<p, v>>] = Norm[row.name]
  BY <1>1, <1>2, <1>4, <1>6, <1>7
<1>8. sent = Empty => <<p, v>> = row.name
  BY <1>1, <1>5
<1>9. QED
  BY <1>6, <1>7, <1>8 DEF p, v

LEMMA ChangedGood ==
    ASSUME NEW row, NEW k, NEW request, GoodRow(row, k), request.clear => "clear" \in k,
           SentOK(request.sent)
    PROVE  /\ GoodRow(Changed(row, request), k)
           /\ request.sent = Empty => Changed(row, request).name = row.name
           /\ request.price \notin Prices => Changed(row, request).price = row.price
           /\ request.price \in Prices => Changed(row, request).price = request.price
<1> DEFINE sent == request.sent
           name == <<Word(row, sent, 1), Word(row, sent, 2)>>
           differs == \E i \in DOMAIN sent : sent[i] # row.name[i]
           new == Changed(row, request)
<1>1. /\ DOMAIN new = {"name", "hash", "price", "shown"}
      /\ new = [c \in DOMAIN new |-> new[c]]
      /\ new.name = name /\ new.shown = row.shown
      /\ new.price = IF request.price \in Prices THEN request.price ELSE row.price
      /\ new.hash = IF request.clear THEN HashKey[Bare[name]]
                    ELSE IF differs THEN HashKey[name] ELSE row.hash
  BY DEF GoodRow, ArticleRow, Changed
<1>2. row \in ArticleRow /\ row.name \in Names
  BY DEF GoodRow, ArticleRow
<1>3. /\ name \in Names
      /\ ~differs => Norm[name] = Norm[row.name]
      /\ sent = Empty => name = row.name
  BY <1>2, ChangedWords
<1>4. request.price \in Prices \/ request.price \notin Prices
  OBVIOUS
<1> HIDE DEF new, name, differs
<1>5. new.hash \in Hashes
  BY <1>1, <1>2, <1>3, NormHashes DEF ArticleRow
<1>6. ASSUME Findable(k) PROVE new.hash \in HashesOf(name)
  <2>1. ~request.clear
    BY <1>6 DEF Findable
  <2>2. CASE differs
    BY <2>1, <2>2, <1>1, <1>3, NormHashes
  <2>3. CASE ~differs
    <3>1. new.hash = row.hash /\ row.hash \in HashesOf(row.name)
      BY <2>1, <2>3, <1>1, <1>6 DEF GoodRow
    <3>2. HashesOf(name) = HashesOf(row.name)
      BY <1>2, <1>3, <2>3, SameHashes
    <3>3. QED
      BY <3>1, <3>2
  <2>4. QED
    BY <2>2, <2>3
<1>7. new.price \in Prices /\ new.shown \in BOOLEAN
  BY <1>1, <1>2 DEF ArticleRow
<1>8. new \in ArticleRow
  BY <1>1, <1>3, <1>5, <1>7 DEF ArticleRow
<1>9. GoodRow(new, k)
  BY <1>1, <1>6, <1>8 DEF GoodRow
<1>10. QED
  BY <1>9, <1>1, <1>3 DEF new

-----------------------------------------------------------------------------
(* Statements keep the tables *)

LEMMA NothingChanges ==
    ASSUME TablesOK, NoChange
    PROVE  TablesOK' /\ used' = used /\ kinds' = kinds
BY DEF NoChange, TablesOK, Refers

\* The columns that an UPDATE leaves in a row, of the row or of the object that is saved.
LEMMA ColumnsOf ==
    ASSUME NEW now \in ArticleRow, NEW object \in ArticleRow, NEW found, NEW sent
    PROVE  LET row == ArticleColumns(now, found, object, sent)
           IN  /\ DOMAIN row = {"name", "hash", "price", "shown"}
               /\ row = [c \in DOMAIN row |-> row[c]]
               /\ row.name = <<Column(now.name[1], found.name[1], object.name[1]),
                              Column(now.name[2], found.name[2], object.name[2])>>
               /\ row.name[1] \in {now.name[1], object.name[1]}
               /\ row.name[2] \in {now.name[2], object.name[2]}
               /\ row.hash \in {now.hash, object.hash}
               /\ row.price \in {now.price, object.price}
               /\ "price" \in sent => row.price = object.price
               /\ row.shown \in {now.shown, object.shown}
<1> DEFINE p == Column(now.name[1], found.name[1], object.name[1])
           v == Column(now.name[2], found.name[2], object.name[2])
           row == ArticleColumns(now, found, object, sent)
           plain == Columns(now, found, object, sent)
<1>1. DOMAIN now = {"name", "hash", "price", "shown"}
  BY DEF ArticleRow
<1>2. /\ DOMAIN plain = {"name", "hash", "price", "shown"}
      /\ \A c \in {"hash", "price", "shown"} :
            /\ plain[c] \in {now[c], object[c]}
            /\ c \in sent => plain[c] = object[c]
  BY <1>1 DEF Columns, Column
<1>3. row = [plain EXCEPT !.name = <<p, v>>]
  BY DEF ArticleColumns
<1>4. p \in {now.name[1], object.name[1]} /\ v \in {now.name[2], object.name[2]}
  BY DEF Column
<1> HIDE DEF plain, p, v, row
<1>5. /\ DOMAIN row = {"name", "hash", "price", "shown"}
      /\ row.name = <<p, v>>
      /\ row.hash = plain.hash /\ row.price = plain.price /\ row.shown = plain.shown
      /\ row = [c \in DOMAIN row |-> row[c]]
  BY <1>2, <1>3
<1>6. row.name[1] = p /\ row.name[2] = v
  BY <1>5
<1>7. /\ row.hash \in {now.hash, object.hash}
      /\ row.price \in {now.price, object.price}
      /\ "price" \in sent => row.price = object.price
      /\ row.shown \in {now.shown, object.shown}
  BY <1>2, <1>5
<1>8. QED
  BY <1>4, <1>5, <1>6, <1>7 DEF row, p, v

\* The UPDATE of a row that is as it was selected makes it the object.
LEMMA UpdateOfFound ==
    ASSUME NEW now \in ArticleRow, NEW object \in ArticleRow, NEW sent
    PROVE  ArticleColumns(now, now, object, sent) = object
<1> DEFINE row == ArticleColumns(now, now, object, sent)
           plain == Columns(now, now, object, sent)
<1>1. /\ DOMAIN now = {"name", "hash", "price", "shown"}
      /\ DOMAIN object = {"name", "hash", "price", "shown"}
      /\ object.name \in Names
      /\ object = [c \in DOMAIN object |-> object[c]]
  BY DEF ArticleRow
<1>2. object.name = <<object.name[1], object.name[2]>>
  BY <1>1, Pairs
<1>3. \A x, y : Column(x, x, y) = y
  BY DEF Column
<1>4. plain = [c \in DOMAIN now |-> object[c]]
  BY <1>1, <1>3 DEF Columns
<1>5. plain = object
  BY <1>1, <1>4
<1>6. row = [plain EXCEPT !.name = <<object.name[1], object.name[2]>>]
  BY <1>3 DEF ArticleColumns
<1> HIDE DEF plain, row
<1>7. row = [object EXCEPT !.name = object.name]
  BY <1>2, <1>5, <1>6
<1>8. row = object
  BY <1>1, <1>7
<1>9. QED
  BY <1>8 DEF row

\* A row is good after an UPDATE if it was as selected, or had the name of the object.
LEMMA ColumnsGood ==
    ASSUME NEW now, NEW object, NEW found, NEW sent, NEW k,
           GoodRow(now, k), GoodRow(object, k),
           Findable(k) => found = now \/ Norm[now.name] = Norm[object.name]
    PROVE  GoodRow(ArticleColumns(now, found, object, sent), k)
<1> DEFINE row == ArticleColumns(now, found, object, sent)
           m == now.name
           n == object.name
           p == row.name[1]
           v == row.name[2]
<1>1. now \in ArticleRow /\ object \in ArticleRow /\ m \in Names /\ n \in Names
  BY DEF GoodRow, ArticleRow
<1>2. /\ DOMAIN row = {"name", "hash", "price", "shown"}
      /\ row = [c \in DOMAIN row |-> row[c]]
      /\ row.name = <<p, v>>
      /\ p \in {m[1], n[1]} /\ v \in {m[2], n[2]}
      /\ row.hash \in {now.hash, object.hash}
      /\ row.price \in {now.price, object.price}
      /\ row.shown \in {now.shown, object.shown}
  BY <1>1, ColumnsOf
<1>3. CASE found = now
  BY <1>1, <1>3, UpdateOfFound
<1> HIDE DEF row, p, v
<1>4. <<p, v>> \in Names
  BY <1>1, <1>2, Pairs, PairsAreNames
<1>5. Norm[m] = Norm[n] => Norm[<<p, v>>] = Norm[m]
  <2>1. m \in Names /\ n \in Names
    BY <1>1
  <2>2. p = m[1] \/ p = n[1]
    BY <1>2
  <2>3. v = m[2] \/ v = n[2]
    BY <1>2
  <2> HIDE DEF m, n
  <2>4. QED
    BY <2>1, <2>2, <2>3, MixedName
<1>6. row \in ArticleRow
  BY <1>1, <1>2, <1>4 DEF ArticleRow
<1>7. ASSUME Findable(k), found # now PROVE row.hash \in HashesOf(row.name)
  <2>1. Norm[m] = Norm[n]
    BY <1>7
  <2>2. Norm[<<p, v>>] = Norm[m]
    BY <2>1, <1>5
  <2>3. HashesOf(row.name) = HashesOf(m) /\ HashesOf(n) = HashesOf(m)
    BY <1>1, <1>2, <1>4, <2>1, <2>2, SameHashes
  <2>4. now.hash \in HashesOf(m) /\ object.hash \in HashesOf(n)
    BY <1>7 DEF GoodRow
  <2>5. QED
    BY <1>2, <2>3, <2>4
<1>8. ASSUME found # now PROVE GoodRow(row, k)
  BY <1>6, <1>7, <1>8 DEF GoodRow
<1>9. QED
  BY <1>3, <1>8 DEF row

\* What a save leaves: the rows of other articles, and of this one what the UPDATE or the
\* INSERT makes, if there is one.
LEMMA SavedRows ==
    ASSUME NEW found, NEW a, NEW object, NEW sent, SaveArticle(found, a, object, sent)
    PROVE  /\ UNCHANGED <<history, period, listing, used, kinds>>
           /\ DOMAIN article \subseteq DOMAIN article'
           /\ DOMAIN article' \subseteq DOMAIN article \cup {a}
           /\ \A x \in DOMAIN article : x # a => article'[x] = article[x]
           /\ a \in DOMAIN article =>
                 article'[a] = IF a \in DOMAIN found
                               THEN ArticleColumns(article[a], found[a], object, sent)
                               ELSE article[a]
           /\ a \in DOMAIN article' /\ a \notin DOMAIN article => article'[a] = object
           /\ article' = article \/ \E f : article' = Over(f, article)
BY DEF SaveArticle, Saved, Over, Row

LEMMA SavedArticle ==
    ASSUME TablesOK, NEW found, NEW a \in ArticleIds \cap used, NEW object, NEW sent,
           GoodRow(object, kinds), SaveArticle(found, a, object, sent),
           Findable(kinds) /\ a \in DOMAIN article /\ a \in DOMAIN found =>
              found[a] = article[a] \/ Norm[article[a].name] = Norm[object.name]
    PROVE  TablesOK' /\ used' = used /\ kinds' = kinds
<1>1. /\ UNCHANGED <<history, period, listing, used, kinds>>
      /\ DOMAIN article \subseteq DOMAIN article'
      /\ DOMAIN article' \subseteq DOMAIN article \cup {a}
  BY SavedRows
<1>2. ASSUME NEW x \in DOMAIN article' PROVE GoodRow(article'[x], kinds)
  <2>1. CASE x # a
    BY <1>1, <2>1, SavedRows DEF TablesOK, ArticlesOK
  <2>2. CASE x = a /\ a \notin DOMAIN article
    BY <2>2, SavedRows
  <2>3. CASE x = a /\ a \in DOMAIN article /\ a \notin DOMAIN found
    BY <2>3, SavedRows DEF TablesOK, ArticlesOK
  <2>4. CASE x = a /\ a \in DOMAIN article /\ a \in DOMAIN found
    <3>1. article'[a] = ArticleColumns(article[a], found[a], object, sent)
      BY <2>4, SavedRows
    <3>2. GoodRow(article[a], kinds)
      BY <2>4 DEF TablesOK, ArticlesOK
    <3>3. Findable(kinds) => found[a] = article[a] \/ Norm[article[a].name] = Norm[object.name]
      BY <2>4
    <3>4. GoodRow(ArticleColumns(article[a], found[a], object, sent), kinds)
      BY <3>2, <3>3, ColumnsGood
    <3>5. QED
      BY <2>4, <3>1, <3>4
  <2>5. QED
    BY <2>1, <2>2, <2>3, <2>4
<1>3. ArticlesOK(article', used', kinds')
  BY <1>1, <1>2 DEF TablesOK, ArticlesOK
<1>4. QED
  BY <1>1, <1>3 DEF TablesOK, Refers

\* What a request saves is of the name that the row has, or the row is as it was selected.
LEMMA SavesAgree ==
    ASSUME Inv, Agreement, NEW h \in Handlers, NEW found \in loaded[h],
           handler[h].at # "idle", NEW a \in DOMAIN handler[h].article, NEW object,
           "rename" \notin kinds => Norm[object.name] = Norm[handler[h].article[a].name]
    PROVE  Findable(kinds) /\ a \in DOMAIN article /\ a \in DOMAIN found.article =>
              \/ found.article[a] = article[a]
              \/ Norm[article[a].name] = Norm[object.name]
<1> SUFFICES ASSUME Findable(kinds), a \in DOMAIN article, a \in DOMAIN found.article
             PROVE  \/ found.article[a] = article[a]
                    \/ Norm[article[a].name] = Norm[object.name]
  OBVIOUS
<1>1. CASE "rename" \in kinds
  <2>1. "alone" \in kinds
    BY <1>1 DEF Findable
  <2>2. handler[h].was # {}
    BY <2>1 DEF Agreement, Alone, At
  <2>3. found.article = Only(article, DOMAIN handler[h].article)
    BY <2>2 DEF Agreement, Fresh
  <2>4. found.article[a] = article[a]
    BY <2>3 DEF Only
  <2>5. QED
    BY <2>4
<1>2. CASE "rename" \notin kinds
  <2>1. PICK names : AllNames(names)
    BY <1>2 DEF Agreement, SameNames
  <2>2. handler[h] # Idle
    BY DEF Idle
  <2>3. /\ Norm[article[a].name] = names[a]
        /\ Norm[handler[h].article[a].name] = names[a]
    BY <2>1, <2>2 DEF AllNames, NamesAre
  <2>4. QED
    BY <1>2, <2>3
<1>3. QED
  BY <1>1, <1>2

LEMMA RemovedArticles ==
    ASSUME TablesOK, NEW D, RemoveArticles(D)
    PROVE  TablesOK' /\ used' = used /\ kinds' = kinds
<1>1. UNCHANGED <<period, used, kinds>> /\ DOMAIN article' = DOMAIN article \ D
  BY DEF RemoveArticles, Without
<1>2. ArticlesOK(article', used', kinds')
  BY <1>1 DEF RemoveArticles, Without, TablesOK, ArticlesOK
<1>3. history' \subseteq (DOMAIN article') \X Prices
  BY <1>1 DEF RemoveArticles, TablesOK
<1>4. ListingOK(listing') /\ \A r \in DOMAIN listing' : Refers(r)'
  BY <1>1 DEF RemoveArticles, Without, TablesOK, ListingOK, Refers
<1>5. QED
  BY <1>1, <1>2, <1>3, <1>4 DEF TablesOK

LEMMA SavedListing ==
    ASSUME TablesOK, NEW rows, ListingOK(rows), SaveListing(rows)
    PROVE  TablesOK' /\ used' = used /\ kinds' = kinds
<1>1. UNCHANGED <<article, history, period, used, kinds>>
  BY DEF SaveListing
<1>2. \/ listing' = listing
      \/ listing' = Over(rows, listing) /\ \A r \in DOMAIN rows : Refers(r)
  BY DEF SaveListing
<1>3. ListingOK(listing')
  BY <1>2 DEF TablesOK, ListingOK, Over
<1>4. \A r \in DOMAIN listing' : Refers(r)
  BY <1>2 DEF TablesOK, Over
<1>5. QED
  BY <1>1, <1>3, <1>4 DEF TablesOK, Refers

LEMMA WithdrawnListing ==
    ASSUME TablesOK, NEW D, listing' = Without(listing, D),
           UNCHANGED <<article, history, period, used, kinds>>
    PROVE  TablesOK'
BY DEF TablesOK, ListingOK, Without, Refers

\* New rows have a free copy number within the bound.
LEMMA NewRowsOK ==
    ASSUME NEW p \in PeriodIds, NEW offers, OffersOK(offers), RoomFor(p, offers)
    PROVE  ListingOK(NewRows(p, offers))
<1> DEFINE free(a) == CHOOSE n \in 1..Copies : <<p, a, n>> \notin DOMAIN listing \cup Held
           ids == {<<p, a, free(a)>> : a \in DOMAIN offers}
<1>1. \A a \in DOMAIN offers : free(a) \in 1..Copies
  BY DEF RoomFor
<1> HIDE DEF free
<1>2. \A r \in ids : r \in ListingIds /\ r[2] \in DOMAIN offers
  BY <1>1 DEF OffersOK, ListingIds
<1>3. NewRows(p, offers) = [r \in ids |-> offers[r[2]]]
  BY DEF NewRows, free
<1>4. QED
  BY <1>2, <1>3 DEF ListingOK, OffersOK

LEMMA Proceeds ==
    ASSUME Inv, NEW h \in Handlers, NEW r, Goes(h, r), used \subseteq used', kinds' = kinds,
           RequestOK(r, used', kinds), TablesOK'
    PROVE  Inv'
BY Moves DEF Inv

-----------------------------------------------------------------------------
(* New requests *)

\* A request that has read what is as it should be.
LEMMA Answers ==
    ASSUME Inv, NEW h \in Handlers, NEW r, Goes(h, r), NoChange, RequestOK(r, used, kinds)
    PROVE  Inv'
<1>1. TablesOK' /\ used' = used /\ kinds' = kinds
  BY NothingChanges DEF Inv
<1>2. QED
  BY <1>1, Proceeds

LEMMA BatchesAreLines ==
    ASSUME NEW lines \in Batches
    PROVE  lines \in Seq(Line) /\ lines # <<>> /\ Head(lines) \in Line
<1>1. lines \in Seq(Line) /\ lines # <<>>
  BY CatalogueAssumption DEF Line
<1>2. QED
  BY <1>1, HeadTailProperties

LEMMA ImportsKeep ==
    ASSUME Inv, NEW h \in Handlers, NEW lines \in Batches, Import(h, lines)
    PROVE  Inv'
<1> DEFINE s == Start([kind |-> "import", lines |-> lines], "find")
           r == [s EXCEPT !.lines = lines]
<1>1. /\ DOMAIN s = Fields /\ s.at = "find" /\ s.article = Empty /\ s.period = Empty
      /\ s.listing = Empty /\ s.offers = Empty
  BY Starts
<1>2. Goes(h, r) /\ NoChange
  BY DEF Import
<1> HIDE DEF s
<1>3. /\ DOMAIN r = Fields /\ r.at = "find" /\ r.article = Empty /\ r.period = Empty
      /\ r.listing = Empty /\ r.offers = Empty /\ r.lines = lines
  BY <1>1 DEF Fields
<1> HIDE DEF r
<1>4. Working(r, used, kinds)
  BY <1>3, EmptyOK, BatchesAreLines DEF Working, Updating
<1>5. QED
  BY <1>2, <1>4, Answers DEF RequestOK

LEMMA CreatesKeep ==
    ASSUME Inv, NEW h \in Handlers, NEW line \in Line, CreateArticle(h, line)
    PROVE  Inv'
<1> DEFINE s == Start([kind |-> "create"], "insert")
           r == [s EXCEPT !.lines = <<line>>]
<1>1. /\ DOMAIN s = Fields /\ s.at = "insert" /\ s.article = Empty /\ s.period = Empty
      /\ s.listing = Empty /\ s.offers = Empty
  BY Starts
<1>2. Goes(h, r) /\ NoChange
  BY DEF CreateArticle
<1> HIDE DEF s
<1>3. /\ DOMAIN r = Fields /\ r.at = "insert" /\ r.article = Empty /\ r.period = Empty
      /\ r.listing = Empty /\ r.offers = Empty /\ r.lines = <<line>>
  BY <1>1 DEF Fields
<1> HIDE DEF r
<1>4. r.lines \in Seq(Line) /\ r.lines # <<>>
  BY <1>3
<1>5. Working(r, used, kinds)
  BY <1>3, <1>4, EmptyOK DEF Working, Updating
<1>6. QED
  BY <1>2, <1>5, Answers DEF RequestOK

LEMMA UpdatesKeep ==
    ASSUME Inv, NEW h \in Handlers, NEW a, NEW sent, SentOK(sent), NEW price, NEW clear,
           Update(h, a, sent, price, clear)
    PROVE  Inv'
<1> DEFINE q == [kind |-> "update", id |-> a, sent |-> sent, price |-> price, clear |-> clear]
           at == IF price \in Prices THEN "current" ELSE "write"
           s == Start(q, at)
           r == [s EXCEPT !.article = Row(a, article[a])]
<1>1. /\ DOMAIN s = Fields /\ s.at = at /\ s.request = q /\ s.period = Empty
      /\ s.listing = Empty /\ s.offers = Empty /\ s.lines = <<>>
  BY Starts
<1>2. Goes(h, r) /\ NoChange
  BY DEF Update
<1>3. /\ clear => "clear" \in kinds
      /\ sent # Empty => "rename" \in kinds
      /\ a \in DOMAIN article
  BY DEF Update
<1> HIDE DEF s
<1>4. /\ DOMAIN r = Fields /\ r.at = at /\ r.article = Row(a, article[a])
      /\ r.period = Empty /\ r.listing = Empty /\ r.offers = Empty /\ r.lines = <<>>
      /\ r.request = q
  BY <1>1 DEF Fields
<1> HIDE DEF r
<1>5. ArticlesOK(r.article, used, kinds)
  BY <1>3, <1>4, RowArticles DEF Inv, TablesOK, ArticlesOK
<1>6. UpdateOK(r, kinds)
  BY <1>3, <1>4 DEF UpdateOK, Row
<1>7. at \in {"current", "write"}
  OBVIOUS
<1> HIDE DEF at
<1>8. Working(r, used, kinds)
  BY <1>4, <1>5, <1>6, <1>7, EmptyOK DEF Working
<1>9. QED
  BY <1>2, <1>8, Answers DEF RequestOK

LEMMA BatchRequestsKeep ==
    ASSUME Inv, NEW h \in Handlers, NEW request, NEW at \in {"flag", "delete"}, NEW ids,
           at = "flag" => request.shown \in BOOLEAN,
           Goes(h, [Start(request, at) EXCEPT !.ids = ids]), NoChange
    PROVE  Inv'
<1> DEFINE s == Start(request, at)
           r == [s EXCEPT !.ids = ids]
<1>1. /\ DOMAIN s = Fields /\ s.at = at /\ s.request = request /\ s.article = Empty
      /\ s.period = Empty /\ s.listing = Empty /\ s.offers = Empty /\ s.lines = <<>>
  BY Starts
<1> HIDE DEF s
<1>2. /\ DOMAIN r = Fields /\ r.at = at /\ r.article = Empty /\ r.period = Empty
      /\ r.listing = Empty /\ r.offers = Empty /\ r.lines = <<>> /\ r.request = request
  BY <1>1 DEF Fields
<1>3. Goes(h, r)
  BY DEF s
<1> HIDE DEF r
<1>4. Working(r, used, kinds)
  BY <1>2, EmptyOK DEF Working, Updating
<1>5. QED
  BY <1>3, <1>4, Answers DEF RequestOK

LEMMA NormalizesKeep ==
    ASSUME Inv, NEW h \in Handlers, Normalize(h)
    PROVE  Inv'
<1> DEFINE s == Start([kind |-> "normalize"], "merge")
           r == [s EXCEPT !.article = article]
<1>1. /\ DOMAIN s = Fields /\ s.at = "merge" /\ s.period = Empty
      /\ s.listing = Empty /\ s.offers = Empty /\ s.lines = <<>>
  BY Starts
<1>2. Goes(h, r) /\ NoChange
  BY DEF Normalize
<1> HIDE DEF s
<1>3. /\ DOMAIN r = Fields /\ r.at = "merge" /\ r.article = article /\ r.period = Empty
      /\ r.listing = Empty /\ r.offers = Empty /\ r.lines = <<>>
  BY <1>1 DEF Fields
<1> HIDE DEF r
<1>4. Working(r, used, kinds)
  BY <1>3, EmptyOK DEF Working, Updating, Inv, TablesOK
<1>5. QED
  BY <1>2, <1>4, Answers DEF RequestOK

LEMMA ArticleRequestsKeep ==
    ASSUME Inv, NEW h \in Handlers, ArticleRequest(h)
    PROVE  Inv'
<1>1. ASSUME NEW lines \in Batches, CreateArticle(h, Head(lines)) PROVE Inv'
  BY <1>1, BatchesAreLines, CreatesKeep
<1>2. ASSUME NEW ids, NEW shown \in BOOLEAN, Flag(h, ids, shown) PROVE Inv'
  <2>1. Goes(h, [Start([kind |-> "flag", shown |-> shown], "flag") EXCEPT !.ids = ids]) /\ NoChange
    BY <1>2 DEF Flag
  <2>2. QED
    BY <2>1, BatchRequestsKeep
<1>3. ASSUME NEW ids, Delete(h, ids) PROVE Inv'
  <2>1. Goes(h, [Start([kind |-> "delete"], "delete") EXCEPT !.ids = ids]) /\ NoChange
    BY <1>3 DEF Delete
  <2>2. QED
    BY <2>1, BatchRequestsKeep
<1>4. ASSUME NEW a, NEW c \in Changes, Update(h, a, c.sent, c.price, c.clear) PROVE Inv'
  <2>1. SentOK(c.sent)
    BY CatalogueAssumption DEF SentOK
  <2>2. QED
    BY <1>4, <2>1, UpdatesKeep
<1>5. QED
  BY <1>1, <1>2, <1>3, <1>4, ImportsKeep, NormalizesKeep DEF ArticleRequest

LEMMA OffersAreOK ==
    ASSUME NEW offers \in Offers
    PROVE  OffersOK(offers) /\ IsFiniteSet(DOMAIN offers)
<1>1. offers \in PartialFunctions(ArticleIds, Prices) /\ IsFiniteSet(DOMAIN offers)
  BY CatalogueAssumption
<1>2. QED
  BY <1>1 DEF OffersOK, PartialFunctions

LEMMA CalendarDates ==
    ASSUME NEW sent \in Calendars
    PROVE  /\ DOMAIN sent \subseteq {"start", "end", "delivery"}
           /\ \A d \in DOMAIN sent : sent[d] \in Days
           /\ DOMAIN sent = {"start", "end", "delivery"} => sent \in PeriodRow
<1>1. PICK D \in SUBSET {"start", "end", "delivery"} : sent \in [D -> Days]
  BY CatalogueAssumption DEF PartialFunctions
<1>2. DOMAIN sent = D
  BY <1>1
<1>3. ASSUME D = {"start", "end", "delivery"} PROVE sent \in PeriodRow
  BY <1>1, <1>3 DEF PeriodRow
<1>4. QED
  BY <1>1, <1>2, <1>3

\* A request that will save or offer something, with nothing else in memory.
LEMMA OfferRequest ==
    ASSUME NEW request, NEW at \in {"list", "offer", "savePeriod", "saveDates"},
           request.kind \in {"listing", "period"}, request.kind = "period" => at # "list",
           at \in {"savePeriod", "saveDates"} => request.kind = "period",
           NEW r, DOMAIN r = Fields, r.at = at, r.request = request,
           r.article = Empty, r.lines = <<>>,
           PeriodsOK(r.period, used), ListingOK(r.listing), OffersOK(r.offers)
    PROVE  RequestOK(r, used, kinds)
BY EmptyOK DEF RequestOK, Working, Updating

LEMMA UpdateListingKeeps ==
    ASSUME Inv, NEW h \in Handlers, NEW p, NEW a, NEW price \in Prices,
           UpdateArticlePrice(h, p, a, price)
    PROVE  Inv'
<1>1. PICK x \in RowsFor(p, a) :
         Goes(h, [Start([kind |-> "listing"], "list") EXCEPT !.listing = Row(x, price)])
  BY DEF UpdateArticlePrice
<1> DEFINE q == [kind |-> "listing"]
           s == Start(q, "list")
           r == [s EXCEPT !.listing = Row(x, price)]
<1>2. ListingOK(Row(x, price))
  BY DEF RowsFor, RowsOf, ListingOK, Row, Inv, TablesOK
<1>3. /\ DOMAIN s = Fields /\ s.at = "list" /\ s.request = q /\ s.article = Empty
      /\ s.period = Empty /\ s.offers = Empty /\ s.lines = <<>>
  BY Starts
<1>4. Goes(h, r) /\ NoChange
  BY <1>1 DEF UpdateArticlePrice
<1> HIDE DEF s
<1>5. /\ DOMAIN r = Fields /\ r.at = "list" /\ r.request = q /\ r.article = Empty
      /\ r.period = Empty /\ r.offers = Empty /\ r.lines = <<>> /\ r.listing = Row(x, price)
  BY <1>3 DEF Fields
<1> HIDE DEF r
<1>6. RequestOK(r, used, kinds)
  BY <1>2, <1>5, EmptyOK, OfferRequest
<1>7. QED
  BY <1>4, <1>6, Answers

\* addArticle and addArticlesBatch will insert offers in a period that is there.
LEMMA AddingKeeps ==
    ASSUME Inv, NEW h \in Handlers, NEW p \in DOMAIN period, NEW offers, OffersOK(offers),
           NoChange,
           Goes(h, [Start([kind |-> "listing"], "offer") EXCEPT
                       !.period = Row(p, period[p]), !.offers = offers])
    PROVE  Inv'
<1> DEFINE q == [kind |-> "listing"]
           s == Start(q, "offer")
           r == [s EXCEPT !.period = Row(p, period[p]), !.offers = offers]
<1>1. PeriodsOK(Row(p, period[p]), used)
  BY DEF PeriodsOK, Row, Inv, TablesOK
<1>2. /\ DOMAIN s = Fields /\ s.at = "offer" /\ s.request = q /\ s.article = Empty
      /\ s.listing = Empty /\ s.lines = <<>>
  BY Starts
<1>3. Goes(h, r)
  OBVIOUS
<1> HIDE DEF s
<1>4. /\ DOMAIN r = Fields /\ r.at = "offer" /\ r.request = q /\ r.article = Empty
      /\ r.listing = Empty /\ r.offers = offers /\ r.lines = <<>>
      /\ r.period = Row(p, period[p])
  BY <1>2 DEF Fields
<1> HIDE DEF r
<1>5. RequestOK(r, used, kinds)
  BY <1>1, <1>4, EmptyOK, OfferRequest
<1>6. QED
  BY <1>3, <1>5, Answers

LEMMA RemoveArticleKeeps ==
    ASSUME Inv, NEW h \in Handlers, NEW p, NEW a, RemoveArticle(h, p, a)
    PROVE  Inv'
<1>1. TablesOK' /\ used' = used /\ kinds' = kinds
  BY WithdrawnListing DEF RemoveArticle, Inv
<1>2. Goes(h, Idle)
  BY DEF RemoveArticle, Ends
<1>3. QED
  BY <1>1, <1>2, IdleOK, Proceeds

LEMMA RemovePeriodKeeps ==
    ASSUME Inv, NEW h \in Handlers, NEW p, RemovePeriod(h, p)
    PROVE  Inv'
<1>1. /\ UNCHANGED <<article, history, used, kinds>>
      /\ DOMAIN period' = DOMAIN period \ {p}
      /\ \A x \in DOMAIN period' : period'[x] = period[x]
      /\ DOMAIN listing' = {r \in DOMAIN listing : r[1] # p}
      /\ \A r \in DOMAIN listing' : listing'[r] = listing[r]
  BY DEF RemovePeriod, Without, RowsOf
<1>2. TablesOK'
  BY <1>1 DEF Inv, TablesOK, PeriodsOK, ListingOK, Refers
<1>3. Goes(h, Idle)
  BY DEF RemovePeriod, Ends
<1>4. QED
  BY <1>1, <1>2, <1>3, IdleOK, Proceeds

LEMMA UpdatePeriodKeeps ==
    ASSUME Inv, NEW h \in Handlers, NEW p, NEW sent \in Calendars, NEW lists,
           NEW offers \in Offers, UpdatePeriod(h, p, sent, lists, offers)
    PROVE  Inv'
<1> DEFINE q == [kind |-> "period", id |-> p, offers |-> offers]
           at == IF lists THEN "savePeriod" ELSE "saveDates"
           row == [d \in DOMAIN period[p] |-> IF d \in DOMAIN sent THEN sent[d] ELSE period[p][d]]
           s == Start(q, at)
           r == [s EXCEPT !.period = Row(p, row), !.offers = offers]
<1>1. p \in DOMAIN period /\ p \in PeriodIds \cap used /\ period[p] \in PeriodRow
  BY DEF UpdatePeriod, Inv, TablesOK, PeriodsOK
<1>2. row \in PeriodRow
  <2>1. DOMAIN period[p] = {"start", "end", "delivery"}
    BY <1>1 DEF PeriodRow
  <2>2. \A d \in {"start", "end", "delivery"} : row[d] \in Days
    BY <1>1, CalendarDates DEF PeriodRow
  <2>3. QED
    BY <2>1, <2>2 DEF PeriodRow
<1>3. /\ DOMAIN s = Fields /\ s.at = at /\ s.request = q /\ s.article = Empty
      /\ s.listing = Empty /\ s.lines = <<>>
  BY Starts
<1>4. Goes(h, r) /\ NoChange
  BY DEF UpdatePeriod
<1> HIDE DEF s, row
<1>5. /\ DOMAIN r = Fields /\ r.at = at /\ r.request = q /\ r.article = Empty
      /\ r.listing = Empty /\ r.offers = offers /\ r.lines = <<>>
      /\ r.period = Row(p, row)
  BY <1>3 DEF Fields
<1> HIDE DEF r
<1>6. PeriodsOK(r.period, used)
  BY <1>1, <1>2, <1>5 DEF PeriodsOK, Row
<1>7. at \in {"savePeriod", "saveDates"}
  OBVIOUS
<1> HIDE DEF at
<1>8. RequestOK(r, used, kinds)
  BY <1>5, <1>6, <1>7, EmptyOK, OffersAreOK, OfferRequest
<1>9. QED
  BY <1>4, <1>8, Answers

LEMMA CreatePeriodKeeps ==
    ASSUME Inv, NEW h \in Handlers, NEW dates \in PeriodRow, NEW offers \in Offers,
           CreatePeriod(h, dates, offers)
    PROVE  Inv'
<1>1. PICK p \in PeriodIds \ used :
         /\ used' = used \cup {p}
         /\ period' = Over(Row(p, dates), period)
         /\ UNCHANGED <<article, history, listing, kinds>>
         /\ IF DOMAIN offers = {} THEN Ends(h)
            ELSE Goes(h, [Start([kind |-> "period", id |-> p, offers |-> offers], "offer")
                             EXCEPT !.period = Row(p, dates), !.offers = offers])
  BY DEF CreatePeriod
<1>2. /\ DOMAIN period' = DOMAIN period \cup {p}
      /\ \A x \in DOMAIN period' : period'[x] = IF x = p THEN dates ELSE period[x]
  BY <1>1 DEF Over, Row
<1>3. PeriodsOK(period', used')
  BY <1>1, <1>2 DEF Inv, TablesOK, PeriodsOK
<1>4. TablesOK'
  BY <1>1, <1>2, <1>3 DEF Inv, TablesOK, ArticlesOK, Refers
<1> DEFINE q == [kind |-> "period", id |-> p, offers |-> offers]
           s == Start(q, "offer")
           r == [s EXCEPT !.period = Row(p, dates), !.offers = offers]
<1>5. /\ DOMAIN s = Fields /\ s.at = "offer" /\ s.request = q /\ s.article = Empty
      /\ s.listing = Empty /\ s.lines = <<>>
  BY Starts
<1>6. Goes(h, Idle) \/ Goes(h, r)
  BY <1>1 DEF Ends
<1> HIDE DEF s
<1>7. /\ DOMAIN r = Fields /\ r.at = "offer" /\ r.request = q /\ r.article = Empty
      /\ r.listing = Empty /\ r.offers = offers /\ r.lines = <<>>
      /\ r.period = Row(p, dates)
  BY <1>5 DEF Fields
<1> HIDE DEF r
<1>8. PeriodsOK(r.period, used')
  BY <1>1, <1>7 DEF PeriodsOK, Row
<1>9. RequestOK(r, used', kinds)
  BY <1>7, <1>8, EmptyOK, OffersAreOK DEF RequestOK, Working, Updating
<1>10. QED
  BY <1>1, <1>4, <1>6, <1>9, IdleOK, Proceeds

LEMMA PeriodRequestsKeep ==
    ASSUME Inv, NEW h \in Handlers, PeriodRequest(h)
    PROVE  Inv'
<1>1. ASSUME NEW sent \in Calendars, NEW offers \in Offers,
             DOMAIN sent = {"start", "end", "delivery"}, CreatePeriod(h, sent, offers)
      PROVE  Inv'
  BY <1>1, CalendarDates, CreatePeriodKeeps
<1>2. ASSUME NEW p \in DOMAIN period, NEW offers \in Offers, AddArticlesBatch(h, p, offers)
      PROVE  Inv'
  <2> DEFINE new == Without(offers, {a \in DOMAIN offers : RowsFor(p, a) # {}})
  <2>1. OffersOK(new)
    BY OffersAreOK DEF OffersOK, Without
  <2>2. /\ NoChange
        /\ Goes(h, [Start([kind |-> "listing"], "offer") EXCEPT
                       !.period = Row(p, period[p]), !.offers = new])
    BY <1>2 DEF AddArticlesBatch
  <2> HIDE DEF new
  <2>3. QED
    BY <2>1, <2>2, AddingKeeps
<1>3. ASSUME NEW p \in DOMAIN period, NEW a \in ArticleIds, NEW price \in Prices,
             AddArticle(h, p, a, price)
      PROVE  Inv'
  <2>1. OffersOK(Row(a, price))
    BY DEF OffersOK, Row
  <2>2. /\ NoChange
        /\ Goes(h, [Start([kind |-> "listing"], "offer") EXCEPT
                       !.period = Row(p, period[p]), !.offers = Row(a, price)])
    BY <1>3 DEF AddArticle
  <2>3. QED
    BY <2>1, <2>2, AddingKeeps
<1>4. QED
  BY <1>1, <1>2, <1>3, UpdatePeriodKeeps, RemovePeriodKeeps, RemoveArticleKeeps,
     UpdateListingKeeps DEF PeriodRequest

-----------------------------------------------------------------------------
(* Requests that go on *)

LEMMA AtWork ==
    ASSUME Inv, NEW h \in Handlers, NEW at, at # "idle", At(h, at)
    PROVE  Working(handler[h], used, kinds) /\ handler[h].at = at
BY DEF Inv, At, RequestOK, Idle

LEMMA FindsKeep ==
    ASSUME Inv, NEW h \in Handlers, FindExistingArticle(h)
    PROVE  Inv'
<1> DEFINE r == handler[h]
           line == Head(r.lines)
<1>1. Working(r, used, kinds) /\ r.at = "find" /\ NoChange
  BY AtWork DEF FindExistingArticle
<1>2. line \in Line
  BY <1>1, HeadTailProperties DEF Working
<1>3. CASE Goes(h, [r EXCEPT !.at = "insert"])
  <2> DEFINE s == [r EXCEPT !.at = "insert"]
  <2> HIDE DEF r
  <2>1. Working(s, used, kinds)
    BY <1>1 DEF Working, Fields, Updating
  <2>2. Goes(h, s)
    BY <1>3
  <2> HIDE DEF s
  <2>3. QED
    BY <1>1, <2>1, <2>2, Answers DEF RequestOK
<1>4. ASSUME NEW a \in DOMAIN article,
             Goes(h, [r EXCEPT !.at = "price",
                         !.article = Row(a, [article[a] EXCEPT !.price = line.price])])
      PROVE  Inv'
  <2> DEFINE row == [article[a] EXCEPT !.price = line.price]
             s == [r EXCEPT !.at = "price", !.article = Row(a, row)]
  <2>1. GoodRow(row, kinds) /\ a \in ArticleIds \cap used
    BY <1>2 DEF Inv, TablesOK, ArticlesOK, GoodRow, ArticleRow, Line
  <2>2. Goes(h, s)
    BY <1>4
  <2> HIDE DEF row
  <2>3. ArticlesOK(Row(a, row), used, kinds)
    BY <2>1, RowArticles
  <2> HIDE DEF r
  <2>4. Working(s, used, kinds)
    BY <1>1, <2>3 DEF Working, Fields, Updating
  <2> HIDE DEF s
  <2>5. QED
    BY <1>1, <2>2, <2>4, Answers DEF RequestOK
<1>5. QED
  BY <1>3, <1>4 DEF FindExistingArticle

\* An import goes on with its next line, or ends.
LEMMA NextLineKeeps ==
    ASSUME Inv, NEW h \in Handlers, At(h, "price") \/ At(h, "record"), NextLine(h),
           TablesOK', used' = used, kinds' = kinds
    PROVE  Inv'
<1> DEFINE r == handler[h]
           s == [r EXCEPT !.at = "find", !.lines = Tail(@), !.article = Empty]
<1>1. Working(r, used, kinds)
  BY AtWork
<1>2. \/ Len(r.lines) > 1 /\ Goes(h, s)
      \/ Goes(h, Idle)
  BY DEF NextLine, Ends
<1> HIDE DEF r
<1>3. ASSUME Len(r.lines) > 1, Goes(h, s) PROVE Inv'
  <2>1. r.lines \in Seq(Line) /\ r.lines # <<>>
    BY <1>1, <1>3 DEF Working
  <2>2. Tail(r.lines) \in Seq(Line) /\ Len(Tail(r.lines)) = Len(r.lines) - 1
    BY <2>1, HeadTailProperties
  <2>3. Tail(r.lines) # <<>>
    <3> DEFINE n == Len(r.lines)
               m == Len(Tail(r.lines))
    <3>1. n \in Nat /\ n > 1 /\ m = n - 1
      BY <2>1, <2>2, <1>3, LenProperties
    <3>2. Len(<<>>) = 0
      OBVIOUS
    <3> HIDE DEF n, m
    <3>3. m # 0
      BY <3>1
    <3>4. QED
      BY <3>2, <3>3, Zenon DEF m
  <2>4. Working(s, used, kinds)
    BY <1>1, <2>2, <2>3, EmptyOK DEF Working, Fields, Updating
  <2> HIDE DEF s
  <2>5. QED
    BY <1>3, <2>4, Proceeds DEF RequestOK
<1>4. QED
  BY <1>2, <1>3, IdleOK, Proceeds

LEMMA SavePriceKeeps ==
    ASSUME Inv, Agreement, NEW h \in Handlers, SavePrice(h)
    PROVE  Inv'
<1> DEFINE r == handler[h]
           s == [r EXCEPT !.at = "record"]
<1>1. Working(r, used, kinds) /\ r.at = "price" /\ At(h, "price")
  BY AtWork DEF SavePrice
<1>2. PICK found \in loaded[h], a \in DOMAIN r.article :
         /\ SaveArticle(found.article, a, r.article[a], {"price"})
         /\ NextLine(h) \/ Goes(h, s)
  BY DEF SavePrice
<1>3. a \in ArticleIds \cap used /\ GoodRow(r.article[a], kinds)
  BY <1>1 DEF Working, ArticlesOK
<1>4. Findable(kinds) /\ a \in DOMAIN article /\ a \in DOMAIN found.article =>
         \/ found.article[a] = article[a]
         \/ Norm[article[a].name] = Norm[r.article[a].name]
  BY <1>1, SavesAgree
<1>5. TablesOK' /\ used' = used /\ kinds' = kinds
  BY <1>2, <1>3, <1>4, SavedArticle DEF Inv
<1> HIDE DEF r
<1>6. Working(s, used, kinds)
  BY <1>1 DEF Working, Fields, Updating
<1> HIDE DEF s
<1>7. CASE NextLine(h)
  BY <1>1, <1>5, <1>7, NextLineKeeps
<1>8. CASE Goes(h, s)
  BY <1>5, <1>6, <1>8, Proceeds DEF RequestOK
<1>9. QED
  BY <1>2, <1>7, <1>8

LEMMA InsertKeeps ==
    ASSUME Inv, NEW h \in Handlers, Insert(h)
    PROVE  Inv'
<1> DEFINE r == handler[h]
           line == Head(r.lines)
           row == [name |-> Norm[line.name], hash |-> HashKey[line.name],
                   price |-> line.price, shown |-> FALSE]
<1>1. Working(r, used, kinds) /\ r.at = "insert"
  BY AtWork DEF Insert
<1>2. line \in Line
  BY <1>1, HeadTailProperties DEF Working
<1>3. GoodRow(row, kinds)
  BY <1>2, InsertedGood
<1>4. PICK a \in ArticleIds :
         /\ used' = used \cup {a}
         /\ article' = Over(Row(a, row), article)
         /\ UNCHANGED <<history, period, listing, kinds>>
         /\ Goes(h, [r EXCEPT !.at = "record", !.article = Row(a, article'[a])])
  BY DEF Insert, InsertArticle
<1>5. article'[a] = row
  BY <1>4 DEF Over, Row
<1> DEFINE s == [r EXCEPT !.at = "record", !.article = Row(a, row)]
<1>6. Goes(h, s)
  BY <1>4, <1>5
<1> HIDE DEF row
<1>7. ArticlesOK(article, used', kinds)
  BY <1>4 DEF Inv, TablesOK, ArticlesOK
<1>8. ArticlesOK(article', used', kinds')
  BY <1>3, <1>4, <1>7, OverArticles
<1>9. DOMAIN article \subseteq DOMAIN article'
  BY <1>4 DEF Over
<1>10. TablesOK'
  BY <1>4, <1>8, <1>9 DEF Inv, TablesOK, PeriodsOK, Refers
<1>11. ArticlesOK(Row(a, row), used', kinds)
  BY <1>3, <1>4, RowArticles
<1> HIDE DEF r
<1>12. Working(s, used', kinds)
  BY <1>1, <1>4, <1>11 DEF Working, Fields, Updating, PeriodsOK
<1> HIDE DEF s
<1>13. QED
  BY <1>4, <1>6, <1>10, <1>12, Proceeds DEF RequestOK

LEMMA RecordKeeps ==
    ASSUME Inv, NEW h \in Handlers, SavePriceHistory(h)
    PROVE  Inv'
<1> DEFINE r == handler[h]
<1>1. Working(r, used, kinds) /\ At(h, "record")
  BY AtWork DEF SavePriceHistory
<1>2. history' = history \cup {<<a, r.article[a].price>> :
                                   a \in DOMAIN r.article \cap DOMAIN article}
  BY DEF SavePriceHistory
<1>3. UNCHANGED <<article, period, listing, used, kinds>> /\ NextLine(h)
  BY DEF SavePriceHistory
<1>4. \A a \in DOMAIN r.article : r.article[a].price \in Prices
  BY <1>1 DEF Working, ArticlesOK, GoodRow, ArticleRow
<1>5. TablesOK'
  BY <1>2, <1>3, <1>4 DEF Inv, TablesOK, Refers
<1>6. QED
  BY <1>1, <1>3, <1>5, NextLineKeeps

\* An update goes on to another of its statements, with other rows of periods and offers.
LEMMA UpdateGoesOn ==
    ASSUME NEW r, NEW u, NEW k, Working(r, u, k), Updating(r), r.at # "write",
           NEW s, DOMAIN s = Fields,
           s.at \in {"current", "again", "confirm", "write", "list", "offer"},
           s.request = r.request, s.article = r.article, s.lines = r.lines,
           PeriodsOK(s.period, u), ListingOK(s.listing), OffersOK(s.offers)
    PROVE  RequestOK(s, u, k)
BY DEF RequestOK, Working, Updating, UpdateOK

LEMMA ReadCurrentKeeps ==
    ASSUME Inv, NEW h \in Handlers, ReadCurrent(h)
    PROVE  Inv'
<1> DEFINE r == handler[h]
<1>1. Working(r, used, kinds) /\ r.at = "current" /\ NoChange
  BY AtWork DEF ReadCurrent
<1>2. Updating(r) /\ r.request.price \in Prices
  BY <1>1 DEF Working, Updating, UpdateOK
<1>3. ASSUME NEW at \in {"write", "again"}, Goes(h, [r EXCEPT !.at = at])
      PROVE  Inv'
  <2> DEFINE s == [r EXCEPT !.at = at]
  <2>1. Goes(h, s)
    BY <1>3
  <2> HIDE DEF r
  <2>2. /\ DOMAIN s = Fields /\ s.at = at /\ s.request = r.request /\ s.article = r.article
        /\ s.lines = r.lines /\ s.period = r.period /\ s.listing = r.listing
        /\ s.offers = r.offers
    BY <1>1 DEF Working, Fields
  <2> HIDE DEF s
  <2>3. RequestOK(s, used, kinds)
    BY <1>1, <1>2, <2>2, UpdateGoesOn DEF Working
  <2>4. QED
    BY <1>1, <2>1, <2>3, Answers
<1>4. ASSUME NEW p, NEW row \in RowsFor(p, r.request.id),
             Goes(h, [r EXCEPT !.at = "list", !.listing = Row(row, r.request.price)])
      PROVE  Inv'
  <2> DEFINE s == [r EXCEPT !.at = "list", !.listing = Row(row, r.request.price)]
  <2>1. Goes(h, s)
    BY <1>4
  <2>2. ListingOK(Row(row, r.request.price))
    BY <1>2 DEF ListingOK, Row, RowsFor, RowsOf, Inv, TablesOK
  <2> HIDE DEF r
  <2>3. /\ DOMAIN s = Fields /\ s.at = "list" /\ s.request = r.request /\ s.article = r.article
        /\ s.lines = r.lines /\ s.period = r.period /\ s.offers = r.offers
        /\ s.listing = Row(row, r.request.price)
    BY <1>1 DEF Working, Fields
  <2> HIDE DEF s
  <2>4. RequestOK(s, used, kinds)
    BY <1>1, <1>2, <2>2, <2>3, UpdateGoesOn DEF Working
  <2>5. QED
    BY <1>1, <2>1, <2>4, Answers
<1>5. QED
  BY <1>3, <1>4 DEF ReadCurrent

LEMMA ConfirmKeeps ==
    ASSUME Inv, NEW h \in Handlers, Confirm(h)
    PROVE  Inv'
<1> DEFINE r == handler[h]
           at == IF \A x \in DOMAIN r.listing : x[1] \in DOMAIN period THEN "write" ELSE "again"
           s == [r EXCEPT !.at = at, !.listing = Empty]
<1>1. Working(r, used, kinds) /\ r.at = "confirm" /\ NoChange
  BY AtWork DEF Confirm
<1>2. Goes(h, s)
  BY DEF Confirm
<1>3. at \in {"write", "again"}
  OBVIOUS
<1> HIDE DEF r, at
<1>4. /\ DOMAIN s = Fields /\ s.at = at /\ s.request = r.request /\ s.article = r.article
      /\ s.lines = r.lines /\ s.period = r.period /\ s.offers = r.offers
      /\ s.listing = Empty
  BY <1>1 DEF Working, Fields
<1> HIDE DEF s
<1>5. RequestOK(s, used, kinds)
  BY <1>1, <1>3, <1>4, EmptyOK, UpdateGoesOn DEF Working, Updating
<1>6. QED
  BY <1>1, <1>2, <1>5, Answers

LEMMA OfferInCurrentKeeps ==
    ASSUME Inv, NEW h \in Handlers, OfferInCurrent(h)
    PROVE  Inv'
<1> DEFINE r == handler[h]
<1>1. Working(r, used, kinds) /\ r.at = "again" /\ NoChange
  BY AtWork DEF OfferInCurrent
<1>2. /\ Updating(r) /\ r.request.price \in Prices
      /\ r.request.id \in ArticleIds
  BY <1>1 DEF Working, Updating, UpdateOK, ArticlesOK
<1>3. ASSUME Goes(h, [r EXCEPT !.at = "write"]) PROVE Inv'
  <2> DEFINE s == [r EXCEPT !.at = "write"]
  <2>1. Goes(h, s)
    BY <1>3
  <2> HIDE DEF r
  <2>2. /\ DOMAIN s = Fields /\ s.at = "write" /\ s.request = r.request /\ s.article = r.article
        /\ s.lines = r.lines /\ s.period = r.period /\ s.listing = r.listing
        /\ s.offers = r.offers
    BY <1>1 DEF Working, Fields
  <2> HIDE DEF s
  <2>3. RequestOK(s, used, kinds)
    BY <1>1, <1>2, <2>2, UpdateGoesOn DEF Working
  <2>4. QED
    BY <1>1, <2>1, <2>3, Answers
<1>4. ASSUME NEW p \in CurrentPeriods(period),
             Goes(h, [r EXCEPT !.at = "offer", !.period = Row(p, period[p]),
                               !.offers = Row(r.request.id, r.request.price)])
      PROVE  Inv'
  <2> DEFINE offers == Row(r.request.id, r.request.price)
             s == [r EXCEPT !.at = "offer", !.period = Row(p, period[p]), !.offers = offers]
  <2>1. Goes(h, s)
    BY <1>4
  <2>2. OffersOK(offers)
    BY <1>2 DEF OffersOK, Row
  <2>3. PeriodsOK(Row(p, period[p]), used)
    BY DEF CurrentPeriods, Open, PeriodsOK, Row, Inv, TablesOK
  <2> HIDE DEF r, offers
  <2>4. /\ DOMAIN s = Fields /\ s.at = "offer" /\ s.request = r.request /\ s.article = r.article
        /\ s.lines = r.lines /\ s.period = Row(p, period[p]) /\ s.offers = offers
        /\ s.listing = r.listing
    BY <1>1 DEF Working, Fields
  <2> HIDE DEF s
  <2>5. RequestOK(s, used, kinds)
    BY <1>1, <1>2, <2>2, <2>3, <2>4, UpdateGoesOn DEF Working
  <2>6. QED
    BY <1>1, <2>1, <2>5, Answers
<1>5. QED
  BY <1>3, <1>4 DEF OfferInCurrent

LEMMA SaveOfferKeeps ==
    ASSUME Inv, NEW h \in Handlers, SaveOffer(h)
    PROVE  Inv'
<1> DEFINE r == handler[h]
           saved == [r EXCEPT !.at = "confirm"]
           failed == [r EXCEPT !.at = "write", !.listing = Empty]
<1>1. Working(r, used, kinds) /\ r.at = "list"
  BY AtWork DEF SaveOffer
<1>2. TablesOK' /\ used' = used /\ kinds' = kinds
  <2>1. PICK x \in DOMAIN r.listing :
           /\ listing' \in {listing, Over(Row(x, r.listing[x]), listing)}
           /\ ~Refers(x) => listing' = listing
           /\ UNCHANGED <<article, history, period, used, kinds>>
    BY DEF SaveOffer, Saved
  <2>2. x \in ListingIds /\ r.listing[x] \in Prices
    BY <1>1 DEF Working, ListingOK
  <2>3. ListingOK(listing')
    BY <2>1, <2>2 DEF Inv, TablesOK, ListingOK, Over, Row
  <2>4. \A y \in DOMAIN listing' : Refers(y)
    BY <2>1 DEF Inv, TablesOK, Over, Row
  <2>5. QED
    BY <2>1, <2>3, <2>4 DEF Inv, TablesOK, Refers
<1>3. \/ Goes(h, Idle)
      \/ r.request.kind # "listing" /\ (Goes(h, saved) \/ Goes(h, failed))
  BY DEF SaveOffer, Ends
<1> HIDE DEF r
<1>4. ASSUME r.request.kind # "listing"
      PROVE  RequestOK(saved, used, kinds) /\ RequestOK(failed, used, kinds)
  <2>1. Updating(r)
    BY <1>1, <1>4 DEF Updating
  <2>2. /\ DOMAIN saved = Fields /\ saved.at = "confirm" /\ saved.request = r.request
        /\ saved.article = r.article /\ saved.lines = r.lines /\ saved.period = r.period
        /\ saved.offers = r.offers /\ saved.listing = r.listing
    BY <1>1 DEF Working, Fields
  <2>3. /\ DOMAIN failed = Fields /\ failed.at = "write" /\ failed.request = r.request
        /\ failed.article = r.article /\ failed.lines = r.lines /\ failed.period = r.period
        /\ failed.offers = r.offers /\ failed.listing = Empty
    BY <1>1 DEF Working, Fields
  <2> HIDE DEF saved, failed
  <2>4. RequestOK(saved, used, kinds)
    BY <1>1, <2>1, <2>2, UpdateGoesOn DEF Working
  <2>5. RequestOK(failed, used, kinds)
    BY <1>1, <2>1, <2>3, EmptyOK, UpdateGoesOn DEF Working
  <2>6. QED
    BY <2>4, <2>5
<1> HIDE DEF saved, failed
<1>5. QED
  BY <1>2, <1>3, <1>4, IdleOK, Proceeds

LEMMA InsertOffersKeeps ==
    ASSUME Inv, NEW h \in Handlers, InsertOffers(h)
    PROVE  Inv'
<1> DEFINE r == handler[h]
           s == [r EXCEPT !.at = "write", !.period = Empty, !.offers = Empty]
<1>1. Working(r, used, kinds) /\ r.at = "offer"
  BY AtWork DEF InsertOffers
<1>2. PICK p \in DOMAIN r.period :
         RoomFor(p, r.offers) /\ SaveListing(NewRows(p, r.offers))
  BY DEF InsertOffers
<1>3. ListingOK(NewRows(p, r.offers))
  BY <1>1, <1>2, NewRowsOK DEF Working, PeriodsOK
<1>4. TablesOK' /\ used' = used /\ kinds' = kinds
  BY <1>2, <1>3, SavedListing DEF Inv
<1>5. Goes(h, Idle) \/ (r.request.kind = "update" /\ Goes(h, s))
  BY DEF InsertOffers, Ends
<1> HIDE DEF r
<1>6. ASSUME r.request.kind = "update" PROVE RequestOK(s, used, kinds)
  <2>1. Updating(r)
    BY <1>1, <1>6 DEF Updating
  <2>2. /\ DOMAIN s = Fields /\ s.at = "write" /\ s.request = r.request
        /\ s.article = r.article /\ s.lines = r.lines /\ s.period = Empty
        /\ s.offers = Empty /\ s.listing = r.listing
    BY <1>1 DEF Working, Fields
  <2> HIDE DEF s
  <2>3. QED
    BY <1>1, <2>1, <2>2, EmptyOK, UpdateGoesOn DEF Working
<1> HIDE DEF s
<1>7. QED
  BY <1>4, <1>5, <1>6, IdleOK, Proceeds

LEMMA WriteKeeps ==
    ASSUME Inv, Agreement, NEW h \in Handlers, Write(h)
    PROVE  Inv'
<1> DEFINE r == handler[h]
           a == r.request.id
           row == Changed(r.article[a], r.request)
           s == [r EXCEPT !.at = "record", !.article = Row(a, row)]
<1>1. Working(r, used, kinds) /\ r.at = "write"
  BY AtWork DEF Write
<1>2. /\ a \in DOMAIN r.article /\ SentOK(r.request.sent)
      /\ r.request.clear => "clear" \in kinds
      /\ r.request.sent # Empty => "rename" \in kinds
  BY <1>1 DEF Working, Updating, UpdateOK
<1>3. PICK found, sent :
         /\ found \in loaded[h] /\ SaveArticle(found.article, a, row, sent)
         /\ Goes(h, s) \/ Goes(h, Idle)
  BY DEF Write, Ends
<1>4. /\ GoodRow(row, kinds) /\ a \in ArticleIds \cap used
      /\ r.request.sent = Empty => row.name = r.article[a].name
  BY <1>1, <1>2, ChangedGood DEF Working, ArticlesOK
<1> HIDE DEF row
<1>5. Findable(kinds) /\ a \in DOMAIN article /\ a \in DOMAIN found.article =>
          found.article[a] = article[a] \/ Norm[article[a].name] = Norm[row.name]
  BY <1>1, <1>2, <1>3, <1>4, SavesAgree
<1> HIDE DEF r, a
<1>6. TablesOK' /\ used' = used /\ kinds' = kinds
  BY <1>3, <1>4, <1>5, SavedArticle DEF Inv
<1>7. ArticlesOK(Row(a, row), used, kinds)
  BY <1>4, RowArticles
<1>8. Working(s, used, kinds)
  BY <1>1, <1>7 DEF Working, Fields, Updating
<1> HIDE DEF s
<1>9. QED
  BY <1>3, <1>6, <1>8, IdleOK, Proceeds DEF RequestOK

LEMMA ReadForFlagKeeps ==
    ASSUME Inv, NEW h \in Handlers, ReadForFlag(h)
    PROVE  Inv'
<1> DEFINE r == handler[h]
<1>1. Working(r, used, kinds) /\ r.at = "flag" /\ NoChange
  BY AtWork DEF ReadForFlag
<1>2. ASSUME NEW a \in DOMAIN article,
             Goes(h, [r EXCEPT !.at = "saveFlag", !.article = Row(a, article[a])])
      PROVE  Inv'
  <2> DEFINE s == [r EXCEPT !.at = "saveFlag", !.article = Row(a, article[a])]
  <2>1. Goes(h, s)
    BY <1>2
  <2>2. ArticlesOK(Row(a, article[a]), used, kinds)
    BY RowArticles DEF Inv, TablesOK, ArticlesOK
  <2> HIDE DEF r
  <2>3. Working(s, used, kinds)
    BY <1>1, <2>2 DEF Working, Fields, Updating
  <2> HIDE DEF s
  <2>4. QED
    BY <1>1, <2>1, <2>3, Answers DEF RequestOK
<1>3. ASSUME NEW ids, Goes(h, [r EXCEPT !.ids = ids])
      PROVE  Inv'
  <2> DEFINE s == [r EXCEPT !.ids = ids]
  <2>1. Goes(h, s)
    BY <1>3
  <2> HIDE DEF r
  <2>2. Working(s, used, kinds)
    BY <1>1 DEF Working, Fields, Updating
  <2> HIDE DEF s
  <2>3. QED
    BY <1>1, <2>1, <2>2, Answers DEF RequestOK
<1>4. ASSUME Ends(h) PROVE Inv'
  BY <1>1, <1>4, IdleOK, Answers DEF Ends
<1>5. QED
  BY <1>2, <1>3, <1>4 DEF ReadForFlag

LEMMA SaveFlagKeeps ==
    ASSUME Inv, Agreement, NEW h \in Handlers, SaveFlag(h)
    PROVE  Inv'
<1> DEFINE r == handler[h]
<1>1. Working(r, used, kinds) /\ r.at = "saveFlag"
  BY AtWork DEF SaveFlag
<1>2. PICK found \in loaded[h], a \in DOMAIN r.article :
         /\ SaveArticle(found.article, a, [r.article[a] EXCEPT !.shown = r.request.shown], {})
         /\ \/ Ends(h)
            \/ Goes(h, [r EXCEPT !.at = "flag", !.ids = @ \ {a}, !.article = Empty])
  BY DEF SaveFlag
<1> DEFINE row == [r.article[a] EXCEPT !.shown = r.request.shown]
           s == [r EXCEPT !.at = "flag", !.ids = @ \ {a}, !.article = Empty]
<1>3. GoodRow(row, kinds) /\ a \in ArticleIds \cap used
  BY <1>1 DEF Working, ArticlesOK, GoodRow, ArticleRow
<1>4. row.name = r.article[a].name
  BY <1>1 DEF Working, ArticlesOK, GoodRow, ArticleRow
<1>5. Findable(kinds) /\ a \in DOMAIN article /\ a \in DOMAIN found.article =>
         found.article[a] = article[a] \/ Norm[article[a].name] = Norm[row.name]
  BY <1>1, <1>4, SavesAgree
<1>6. TablesOK' /\ used' = used /\ kinds' = kinds
  BY <1>2, <1>3, <1>5, SavedArticle DEF Inv
<1>7. Goes(h, Idle) \/ Goes(h, s)
  BY <1>2 DEF Ends
<1> HIDE DEF r
<1>8. Working(s, used, kinds)
  BY <1>1, EmptyOK DEF Working, Fields, Updating
<1> HIDE DEF s
<1>9. QED
  BY <1>6, <1>7, <1>8, IdleOK, Proceeds DEF RequestOK

\* One article is removed, and the request has fewer to remove.
LEMMA RemovalKeeps ==
    ASSUME Inv, NEW h \in Handlers, NEW at \in {"delete", "merge"}, At(h, at),
           NEW a, RemoveArticles({a}),
           Ends(h) \/ Goes(h, [handler[h] EXCEPT !.ids = @ \ {a}])
    PROVE  Inv'
<1> DEFINE r == handler[h]
           s == [r EXCEPT !.ids = @ \ {a}]
<1>1. Working(r, used, kinds) /\ r.at = at
  BY AtWork
<1>2. TablesOK' /\ used' = used /\ kinds' = kinds
  BY RemovedArticles DEF Inv
<1>3. Goes(h, Idle) \/ Goes(h, s)
  BY DEF Ends
<1> HIDE DEF r
<1>4. Working(s, used, kinds)
  BY <1>1 DEF Working, Fields, Updating
<1> HIDE DEF s
<1>5. QED
  BY <1>2, <1>3, <1>4, IdleOK, Proceeds DEF RequestOK

LEMMA MergeKeeps ==
    ASSUME Inv, Agreement, NEW h \in Handlers, Merge(h)
    PROVE  Inv'
<1> DEFINE r == handler[h]
           name(a) == Norm[r.article[a].name]
           same(a) == {b \in DOMAIN r.article : name(b) = name(a)}
<1>1. Working(r, used, kinds) /\ r.at = "merge"
  BY AtWork DEF Merge
<1>2. PICK keep \in DOMAIN r.article :
         /\ \/ NoChange
            \/ \E found \in loaded[h] :
                  SaveArticle(found.article, keep, [r.article[keep] EXCEPT !.name = name(keep)], {})
         /\ \/ Ends(h)
            \/ Goes(h, [r EXCEPT !.article = Without(r.article, same(keep)),
                                 !.ids = same(keep) \ {keep}])
  BY DEF Merge, NextName
<1> DEFINE row == [r.article[keep] EXCEPT !.name = name(keep)]
           left == Without(r.article, same(keep))
           ids == same(keep) \ {keep}
           s == [r EXCEPT !.article = left, !.ids = ids]
<1>3. GoodRow(row, kinds) /\ keep \in ArticleIds \cap used
  BY <1>1, NormKeepsGood DEF Working, ArticlesOK
<1>4. NoChange \/ \E found \in loaded[h] : SaveArticle(found.article, keep, row, {})
  BY <1>2
<1>5. Goes(h, Idle) \/ Goes(h, s)
  BY <1>2 DEF Ends
<1>6. Norm[row.name] = Norm[r.article[keep].name]
  BY <1>1, NormIsName DEF Working, ArticlesOK, GoodRow, ArticleRow
<1> HIDE DEF row
<1>7. ASSUME NEW found \in loaded[h], SaveArticle(found.article, keep, row, {})
      PROVE  TablesOK' /\ used' = used /\ kinds' = kinds
  <2>1. Findable(kinds) /\ keep \in DOMAIN article /\ keep \in DOMAIN found.article =>
           found.article[keep] = article[keep] \/ Norm[article[keep].name] = Norm[row.name]
    BY <1>1, <1>6, SavesAgree
  <2>2. QED
    BY <1>3, <1>7, <2>1, SavedArticle DEF Inv
<1>8. TablesOK' /\ used' = used /\ kinds' = kinds
  BY <1>4, <1>7, NothingChanges DEF Inv
<1>9. ArticlesOK(left, used, kinds)
  BY <1>1 DEF Working, ArticlesOK, Without
<1> HIDE DEF r, left, ids
<1>10. Working(s, used, kinds)
  BY <1>1, <1>9 DEF Working, Fields, Updating
<1> HIDE DEF s
<1>11. QED
  BY <1>5, <1>8, <1>10, IdleOK, Proceeds DEF RequestOK

LEMMA PeriodColumns ==
    ASSUME NEW now \in PeriodRow, NEW object \in PeriodRow, NEW found
    PROVE  Columns(now, found, object, {}) \in PeriodRow
BY DEF Columns, Column, PeriodRow

LEMMA SavePeriodKeeps ==
    ASSUME Inv, NEW h \in Handlers, SavePeriod(h)
    PROVE  Inv'
<1> DEFINE r == handler[h]
           s == [r EXCEPT !.at = "withdraw"]
<1>1. Working(r, used, kinds) /\ r.at \in {"savePeriod", "saveDates"}
  BY AtWork DEF SavePeriod
<1>2. PICK found \in loaded[h], p \in DOMAIN r.period :
         /\ period' = Saved(period, found.period, p,
                            IF p \in DOMAIN period
                            THEN Columns(period[p], found.period[p], r.period[p], {})
                            ELSE r.period[p])
         /\ UNCHANGED <<article, history, listing, used, kinds>>
         /\ Goes(h, Idle) \/ Goes(h, s)
  BY DEF SavePeriod, Ends
<1> DEFINE row == IF p \in DOMAIN period
                  THEN Columns(period[p], found.period[p], r.period[p], {}) ELSE r.period[p]
<1>3. row \in PeriodRow /\ p \in PeriodIds \cap used
  BY <1>1, PeriodColumns DEF Working, PeriodsOK, Inv, TablesOK
<1>4. period' \in {period, Over(Row(p, row), period)}
  BY <1>2 DEF Saved
<1> HIDE DEF row
<1>5. PeriodsOK(period', used) /\ DOMAIN period \subseteq DOMAIN period'
  BY <1>3, <1>4 DEF PeriodsOK, Over, Row, Inv, TablesOK
<1>6. TablesOK'
  BY <1>2, <1>5 DEF Inv, TablesOK, Refers
<1> HIDE DEF r
<1>7. Working(s, used, kinds)
  BY <1>1 DEF Working, Fields, Updating
<1> HIDE DEF s
<1>8. QED
  BY <1>2, <1>6, <1>7, IdleOK, Proceeds DEF RequestOK

LEMMA WithdrawKeeps ==
    ASSUME Inv, NEW h \in Handlers, Withdraw(h)
    PROVE  Inv'
<1> DEFINE r == handler[h]
           s == [r EXCEPT !.at = "offer"]
<1>1. Working(r, used, kinds) /\ r.at = "withdraw"
  BY AtWork DEF Withdraw
<1>2. /\ TablesOK' /\ used' = used /\ kinds' = kinds
      /\ Goes(h, Idle) \/ Goes(h, s)
  BY WithdrawnListing DEF Withdraw, Inv, Ends
<1> HIDE DEF r
<1>3. Working(s, used, kinds)
  BY <1>1 DEF Working, Fields, Updating
<1> HIDE DEF s
<1>4. QED
  BY <1>2, <1>3, IdleOK, Proceeds DEF RequestOK

-----------------------------------------------------------------------------
(* Types, references and hashes *)

LEMMA RestartKeeps ==
    ASSUME Inv, Restart
    PROVE  Inv'
<1>1. TablesOK' /\ used' = used /\ kinds' = kinds
  BY NothingChanges DEF Restart, Inv
<1>2. handler' = [h \in Handlers |-> Idle]
  BY DEF Restart
<1>3. QED
  BY <1>1, <1>2, IdleOK DEF Inv

\* save() changes nothing by what it selects.
LEMMA LoadKeeps ==
    ASSUME Inv, NEW h \in Handlers, Load(h)
    PROVE  Inv'
<1>1. NoChange /\ handler' = handler
  BY DEF Load
<1>2. QED
  BY <1>1, NothingChanges DEF Inv

LEMMA GoonKeeps ==
    ASSUME Inv, Agreement, NEW h \in Handlers, Goon(h)
    PROVE  Inv'
<1>1. CASE FindExistingArticle(h) \/ SavePrice(h) \/ Insert(h) \/ SavePriceHistory(h)
  BY <1>1, FindsKeep, SavePriceKeeps, InsertKeeps, RecordKeeps
<1>2. CASE SaveOffer(h) \/ InsertOffers(h) \/ ReadCurrent(h) \/ Confirm(h) \/ OfferInCurrent(h)
           \/ Write(h)
  BY <1>2, SaveOfferKeeps, InsertOffersKeeps, ReadCurrentKeeps, ConfirmKeeps,
     OfferInCurrentKeeps, WriteKeeps
<1>3. CASE ReadForFlag(h) \/ SaveFlag(h) \/ Merge(h) \/ SavePeriod(h) \/ Withdraw(h)
  BY <1>3, ReadForFlagKeeps, SaveFlagKeeps, MergeKeeps, SavePeriodKeeps, WithdrawKeeps
<1>4. CASE DeleteNext(h)
  <2>1. PICK a \in handler[h].ids :
           RemoveArticles({a}) /\ (Ends(h) \/ Goes(h, [handler[h] EXCEPT !.ids = @ \ {a}]))
    BY <1>4 DEF DeleteNext
  <2>2. At(h, "delete")
    BY <1>4 DEF DeleteNext
  <2>3. QED
    BY <2>1, <2>2, RemovalKeeps
<1>5. CASE RemoveDuplicate(h)
  <2>1. PICK a : RemoveArticles({a}) /\ (Ends(h) \/ Goes(h, [handler[h] EXCEPT !.ids = @ \ {a}]))
    BY <1>5 DEF RemoveDuplicate
  <2>2. At(h, "merge")
    BY <1>5 DEF RemoveDuplicate
  <2>3. QED
    BY <2>1, <2>2, RemovalKeeps
<1>6. QED
  BY <1>1, <1>2, <1>3, <1>4, <1>5 DEF Goon

LEMMA NextKeeps == Inv /\ Agreement /\ [CatalogueNext]_catalogueVars => Inv'
<1> SUFFICES ASSUME Inv, Agreement, [CatalogueNext]_catalogueVars PROVE Inv'
  OBVIOUS
<1>1. CASE UNCHANGED catalogueVars
  BY <1>1 DEF catalogueVars, Inv, TablesOK, Refers
<1>2. QED
  BY <1>1, ArticleRequestsKeep, PeriodRequestsKeep, LoadKeeps, GoonKeeps, RestartKeeps
     DEF CatalogueNext, NextStatement

LEMMA StartKeeps == CatalogueStart => Inv
<1> SUFFICES ASSUME CatalogueStart PROVE Inv
  OBVIOUS
<1>1. PICK price \in Prices, names \in [DOMAIN article -> Names] :
         /\ history = (DOMAIN article) \X {price}
         /\ \A a \in DOMAIN article :
               article[a] = [name |-> names[a], hash |-> HashKey[names[a]],
                             price |-> price, shown |-> FALSE]
  BY DEF CatalogueStart
<1>2. ASSUME NEW a \in DOMAIN article PROVE GoodRow(article[a], kinds)
  <2>1. PICK name \in Names :
           article[a] = [name |-> name, hash |-> HashKey[name],
                         price |-> price, shown |-> FALSE]
    BY <1>1
  <2>2. HashKey[name] \in Hashes /\ HashKey[name] \in HashesOf(name)
    BY NormHashes
  <2>3. QED
    BY <2>1, <2>2 DEF GoodRow, ArticleRow
<1>3. ArticlesOK(article, used, kinds)
  BY <1>2 DEF CatalogueStart, ArticlesOK
<1>4. listing = Empty /\ PeriodsOK(period, used)
  BY DEF CatalogueStart
<1>5. TablesOK
  BY <1>1, <1>3, <1>4 DEF TablesOK, ListingOK, Empty
<1>6. QED
  BY <1>5, IdleOK DEF CatalogueStart, Inv

LEMMA InvTypes == Inv => CatalogueTypeOK
BY DEF Inv, TablesOK, ArticlesOK, GoodRow, PeriodsOK, ListingOK, CatalogueTypeOK

LEMMA InvHashes == Inv => HashOfSomeSpelling
BY DEF Inv, TablesOK, ArticlesOK, GoodRow, Findable, HashOfSomeSpelling

-----------------------------------------------------------------------------
(* Recorded prices *)

\* A price of article a is in its history, or a request is about to record it.
Noted(a, p, hist, requests) ==
    \/ <<a, p>> \in hist
    \/ \E x \in Handlers : /\ requests[x] # Idle /\ requests[x].at = "record"
                           /\ a \in DOMAIN requests[x].article
                           /\ requests[x].article[a].price = p

Calm == kinds \cap {"delete", "normalize", "restart"} = {}

\* Nobody removes articles; the price of every row is noted, of those in memory too unless
\* their request still has it to save or to record.
PricesNoted ==
    /\ \A a \in DOMAIN article : Noted(a, article[a].price, history, handler)
    /\ \A x \in Handlers : handler[x] # Idle =>
          /\ handler[x].at \notin {"delete", "merge"}
          /\ \A a \in DOMAIN handler[x].article :
                /\ a \in DOMAIN article
                /\ \/ handler[x].at \in {"price", "record"}
                   \/ Noted(a, handler[x].article[a].price, history, handler)

PricesInv == Calm => PricesNoted

LEMMA OthersStay ==
    ASSUME Inv, NEW h \in Handlers, NEW r, Goes(h, r), NEW x \in Handlers \ {h}
    PROVE  /\ handler[x] = Idle <=> handler'[x] = Idle
           /\ handler[x] # Idle => /\ handler'[x].at = handler[x].at
                                   /\ handler'[x].article = handler[x].article
<1>1. handler'[x] \in {handler[x], [handler[x] EXCEPT !.was = {}]}
  BY DEF Goes
<1>2. CASE handler[x] = Idle
  <2>1. [handler[x] EXCEPT !.was = {}] = Idle
    BY <1>2 DEF Idle
  <2>2. QED
    BY <1>1, <1>2, <2>1
<1>3. CASE handler[x] # Idle
  <2> DEFINE s == handler[x]
  <2>1. DOMAIN s = Fields
    BY <1>3 DEF Inv, RequestOK, Working
  <2> HIDE DEF s
  <2>2. [s EXCEPT !.was = {}].at = s.at /\ [s EXCEPT !.was = {}].article = s.article
    BY <2>1 DEF Fields
  <2>3. DOMAIN [s EXCEPT !.was = {}] = Fields
    BY <2>1
  <2>4. DOMAIN Idle # Fields
    BY DEF Idle, Fields
  <2>5. QED
    BY <1>1, <1>3, <2>1, <2>2, <2>3, <2>4 DEF s
<1>4. QED
  BY <1>2, <1>3

\* A step of request h, which goes on as r, keeps prices noted if it loses no article and
\* no recorded price, and whatever price it leaves in a row is noted or will be recorded by r.
LEMMA PricesStep ==
    ASSUME Inv, PricesInv, NEW h \in Handlers, NEW r, Goes(h, r), kinds' = kinds,
           DOMAIN article \subseteq DOMAIN article', history \subseteq history',
           Calm =>
             /\ handler[h].at = "record" =>
                   \A a \in DOMAIN handler[h].article :
                      <<a, handler[h].article[a].price>> \in history'
             /\ r # Idle =>
                   /\ r.at \notin {"delete", "merge"}
                   /\ \A a \in DOMAIN r.article :
                         /\ a \in DOMAIN article'
                         /\ \/ r.at \in {"price", "record"}
                            \/ Noted(a, r.article[a].price, history, handler)
             /\ \A a \in DOMAIN article' :
                   \/ a \in DOMAIN article /\ article'[a].price = article[a].price
                   \/ Noted(a, article'[a].price, history, handler)
                   \/ /\ r # Idle /\ r.at = "record"
                      /\ a \in DOMAIN r.article /\ r.article[a].price = article'[a].price
    PROVE  PricesInv'
<1> SUFFICES ASSUME Calm PROVE PricesNoted'
  BY DEF PricesInv, Calm
<1>1. PricesNoted
  BY DEF PricesInv
<1>2. handler'[h] = r
  BY DEF Goes
<1>3. ASSUME NEW a, NEW p, Noted(a, p, history, handler)
      PROVE  Noted(a, p, history', handler')
  <2>1. CASE <<a, p>> \in history
    BY <2>1 DEF Noted
  <2>2. ASSUME NEW x \in Handlers, handler[x] # Idle, handler[x].at = "record",
               a \in DOMAIN handler[x].article, handler[x].article[a].price = p
        PROVE  Noted(a, p, history', handler')
    <3>1. CASE x = h
      BY <2>2, <3>1 DEF Noted
    <3>2. CASE x # h
      <4>1. /\ handler'[x] # Idle /\ handler'[x].at = "record"
            /\ handler'[x].article = handler[x].article
        BY <2>2, <3>2, OthersStay
      <4>2. QED
        BY <2>2, <4>1 DEF Noted
    <3>3. QED
      BY <3>1, <3>2
  <2>3. QED
    BY <1>3, <2>1, <2>2 DEF Noted
<1>4. ASSUME NEW a \in DOMAIN article' PROVE Noted(a, article'[a].price, history', handler')
  <2>1. CASE r # Idle /\ r.at = "record" /\ a \in DOMAIN r.article
             /\ r.article[a].price = article'[a].price
    BY <2>1, <1>2 DEF Noted
  <2>2. CASE Noted(a, article'[a].price, history, handler)
    BY <2>2, <1>3
  <2>3. CASE a \in DOMAIN article /\ article'[a].price = article[a].price
    <3>1. Noted(a, article[a].price, history, handler)
      BY <2>3, <1>1 DEF PricesNoted
    <3>2. QED
      BY <3>1, <2>3, <1>3
  <2>4. QED
    BY <2>1, <2>2, <2>3
<1>5. ASSUME NEW x \in Handlers, handler'[x] # Idle
      PROVE  /\ handler'[x].at \notin {"delete", "merge"}
             /\ \A a \in DOMAIN handler'[x].article :
                   /\ a \in DOMAIN article'
                   /\ \/ handler'[x].at \in {"price", "record"}
                      \/ Noted(a, handler'[x].article[a].price, history', handler')
  <2>1. CASE x = h
    BY <1>2, <1>3, <1>5, <2>1
  <2>2. CASE x # h
    <3>1. /\ handler[x] # Idle /\ handler'[x].at = handler[x].at
          /\ handler'[x].article = handler[x].article
      BY <1>5, <2>2, OthersStay
    <3>2. /\ handler[x].at \notin {"delete", "merge"}
          /\ \A a \in DOMAIN handler[x].article :
                /\ a \in DOMAIN article
                /\ \/ handler[x].at \in {"price", "record"}
                   \/ Noted(a, handler[x].article[a].price, history, handler)
      BY <3>1, <1>1 DEF PricesNoted
    <3>3. QED
      BY <3>1, <3>2, <1>3
  <2>3. QED
    BY <2>1, <2>2
<1>6. QED
  BY <1>4, <1>5 DEF PricesNoted

\* A step that changes no article and records nothing, after which the request has the rows
\* that it had, none, or one that it has just read.
LEMMA ReadingStep ==
    ASSUME Inv, PricesInv, NEW h \in Handlers, handler[h].at \notin {"price", "record"},
           NEW r, Goes(h, r), UNCHANGED <<article, history, kinds>>,
           \/ r = Idle
           \/ /\ r.at \notin {"delete", "merge"}
              /\ \/ r.article = Empty
                 \/ handler[h] # Idle /\ r.article = handler[h].article
                 \/ \E a \in DOMAIN article : r.article = Row(a, article[a])
    PROVE  PricesInv'
<1> SUFFICES ASSUME Calm, r # Idle
             PROVE  \A a \in DOMAIN r.article :
                       a \in DOMAIN article /\ Noted(a, r.article[a].price, history, handler)
  BY PricesStep
<1>1. PricesNoted
  BY DEF PricesInv
<1>2. CASE r.article = Empty
  BY <1>2 DEF Empty
<1>3. CASE handler[h] # Idle /\ r.article = handler[h].article
  BY <1>1, <1>3 DEF PricesNoted
<1>4. ASSUME NEW b \in DOMAIN article, r.article = Row(b, article[b])
      PROVE  \A a \in DOMAIN r.article :
                a \in DOMAIN article /\ Noted(a, r.article[a].price, history, handler)
  BY <1>1, <1>4 DEF PricesNoted, Row
<1>5. QED
  BY <1>2, <1>3, <1>4

\* While nobody may remove articles, the steps of those who do are not taken.
LEMMA NotCalm ==
    ASSUME ~Calm, kinds' = kinds
    PROVE  PricesInv'
BY DEF PricesInv, Calm

LEMMA ArticleRequestsNote ==
    ASSUME Inv, PricesInv, NEW h \in Handlers, ArticleRequest(h)
    PROVE  PricesInv'
<1>1. handler[h].at \notin {"price", "record"}
  BY DEF ArticleRequest, Begins, At
<1>2. ASSUME NEW lines, Import(h, lines) PROVE PricesInv'
  <2> DEFINE s == Start([kind |-> "import", lines |-> lines], "find")
             r == [s EXCEPT !.lines = lines]
  <2>1. Goes(h, r) /\ UNCHANGED <<article, history, kinds>>
    BY <1>2 DEF Import, NoChange
  <2>2. DOMAIN s = Fields /\ s.at = "find" /\ s.article = Empty
    BY Starts
  <2> HIDE DEF s
  <2>3. r.at = "find" /\ r.article = Empty
    BY <2>2 DEF Fields
  <2> HIDE DEF r
  <2>4. QED
    BY <1>1, <2>1, <2>3, ReadingStep
<1>3. ASSUME NEW line, CreateArticle(h, line) PROVE PricesInv'
  <2> DEFINE s == Start([kind |-> "create"], "insert")
             r == [s EXCEPT !.lines = <<line>>]
  <2>1. Goes(h, r) /\ UNCHANGED <<article, history, kinds>>
    BY <1>3 DEF CreateArticle, NoChange
  <2>2. DOMAIN s = Fields /\ s.at = "insert" /\ s.article = Empty
    BY Starts
  <2> HIDE DEF s
  <2>3. r.at = "insert" /\ r.article = Empty
    BY <2>2 DEF Fields
  <2> HIDE DEF r
  <2>4. QED
    BY <1>1, <2>1, <2>3, ReadingStep
<1>4. ASSUME NEW a \in DOMAIN article, NEW sent, NEW price, NEW clear,
             Update(h, a, sent, price, clear)
      PROVE  PricesInv'
  <2> DEFINE q == [kind |-> "update", id |-> a, sent |-> sent, price |-> price, clear |-> clear]
             at == IF price \in Prices THEN "current" ELSE "write"
             s == Start(q, at)
             r == [s EXCEPT !.article = Row(a, article[a])]
  <2>1. Goes(h, r) /\ UNCHANGED <<article, history, kinds>>
    BY <1>4 DEF Update, NoChange
  <2>2. DOMAIN s = Fields /\ s.at = at
    BY Starts
  <2>3. at \in {"current", "write"}
    OBVIOUS
  <2> HIDE DEF s, at
  <2>4. r.at = at /\ r.article = Row(a, article[a])
    BY <2>2 DEF Fields
  <2> HIDE DEF r
  <2>5. QED
    BY <1>1, <2>1, <2>3, <2>4, ReadingStep
<1>5. ASSUME NEW ids, NEW shown, Flag(h, ids, shown) PROVE PricesInv'
  <2> DEFINE s == Start([kind |-> "flag", shown |-> shown], "flag")
             r == [s EXCEPT !.ids = ids]
  <2>1. Goes(h, r) /\ UNCHANGED <<article, history, kinds>>
    BY <1>5 DEF Flag, NoChange
  <2>2. DOMAIN s = Fields /\ s.at = "flag" /\ s.article = Empty
    BY Starts
  <2> HIDE DEF s
  <2>3. r.at = "flag" /\ r.article = Empty
    BY <2>2 DEF Fields
  <2> HIDE DEF r
  <2>4. QED
    BY <1>1, <2>1, <2>3, ReadingStep
<1>6. ASSUME NEW ids, Begins(h, "delete"), Delete(h, ids) PROVE PricesInv'
  BY <1>6, NotCalm DEF Begins, Calm, Delete, NoChange
<1>7. ASSUME Begins(h, "normalize"), Normalize(h) PROVE PricesInv'
  BY <1>7, NotCalm DEF Begins, Calm, Normalize, NoChange
<1>8. QED
  BY <1>2, <1>3, <1>4, <1>5, <1>6, <1>7 DEF ArticleRequest

\* The first step of a request about periods reads no article.
LEMMA OfferRequestNotes ==
    ASSUME Inv, PricesInv, NEW h \in Handlers, handler[h].at \notin {"price", "record"},
           NEW request, NEW at \in {"list", "offer", "savePeriod", "saveDates"},
           NEW periods, NEW rows, NEW offers, UNCHANGED <<article, history, kinds>>,
           \/ Goes(h, [Start(request, at) EXCEPT !.period = periods, !.offers = offers])
           \/ Goes(h, [Start(request, at) EXCEPT !.listing = rows])
    PROVE  PricesInv'
<1> DEFINE s == Start(request, at)
           r == [s EXCEPT !.period = periods, !.offers = offers]
           t == [s EXCEPT !.listing = rows]
<1>1. Goes(h, r) \/ Goes(h, t)
  OBVIOUS
<1>2. DOMAIN s = Fields /\ s.at = at /\ s.article = Empty
  BY Starts
<1> HIDE DEF s
<1>3. r.at = at /\ r.article = Empty /\ t.at = at /\ t.article = Empty
  BY <1>2 DEF Fields
<1> HIDE DEF r, t
<1>4. QED
  BY <1>1, <1>3, ReadingStep

LEMMA PeriodRequestsNote ==
    ASSUME Inv, PricesInv, NEW h \in Handlers, PeriodRequest(h)
    PROVE  PricesInv'
<1>1. handler[h].at \notin {"price", "record"}
  BY DEF PeriodRequest, Begins, At
<1>2. ASSUME Ends(h), UNCHANGED <<article, history, kinds>> PROVE PricesInv'
  BY <1>1, <1>2, ReadingStep DEF Ends
<1>3. ASSUME NEW dates, NEW offers, CreatePeriod(h, dates, offers) PROVE PricesInv'
  <2>1. PICK p :
           \/ Ends(h)
           \/ Goes(h, [Start([kind |-> "period", id |-> p, offers |-> offers], "offer")
                           EXCEPT !.period = Row(p, dates), !.offers = offers])
    BY <1>3 DEF CreatePeriod
  <2>2. UNCHANGED <<article, history, kinds>>
    BY <1>3 DEF CreatePeriod
  <2>3. QED
    BY <1>1, <1>2, <2>1, <2>2, OfferRequestNotes
<1>4. ASSUME NEW p, NEW sent, NEW lists, NEW offers, UpdatePeriod(h, p, sent, lists, offers)
      PROVE  PricesInv'
  <2> DEFINE q == [kind |-> "period", id |-> p, offers |-> offers]
             at == IF lists THEN "savePeriod" ELSE "saveDates"
             row == [d \in DOMAIN period[p] |->
                        IF d \in DOMAIN sent THEN sent[d] ELSE period[p][d]]
  <2>1. /\ Goes(h, [Start(q, at) EXCEPT !.period = Row(p, row), !.offers = offers])
        /\ UNCHANGED <<article, history, kinds>>
    BY <1>4 DEF UpdatePeriod, NoChange
  <2>2. at \in {"savePeriod", "saveDates"}
    OBVIOUS
  <2> HIDE DEF q, at, row
  <2>3. QED
    BY <1>1, <2>1, <2>2, OfferRequestNotes
<1>5. ASSUME NEW p, RemovePeriod(h, p) PROVE PricesInv'
  BY <1>2, <1>5 DEF RemovePeriod
<1>6. ASSUME NEW p, NEW offers, AddArticlesBatch(h, p, offers) PROVE PricesInv'
  <2>1. PICK new : Goes(h, [Start([kind |-> "listing"], "offer") EXCEPT
                               !.period = Row(p, period[p]), !.offers = new])
    BY <1>6 DEF AddArticlesBatch
  <2>2. UNCHANGED <<article, history, kinds>>
    BY <1>6 DEF AddArticlesBatch, NoChange
  <2>3. QED
    BY <1>1, <2>1, <2>2, OfferRequestNotes
<1>7. ASSUME NEW p, NEW a, NEW price, UpdateArticlePrice(h, p, a, price) PROVE PricesInv'
  <2>1. PICK x : Goes(h, [Start([kind |-> "listing"], "list") EXCEPT !.listing = Row(x, price)])
    BY <1>7 DEF UpdateArticlePrice
  <2>2. UNCHANGED <<article, history, kinds>>
    BY <1>7 DEF UpdateArticlePrice, NoChange
  <2>3. QED
    BY <1>1, <2>1, <2>2, OfferRequestNotes
<1>8. ASSUME NEW p, NEW a, NEW price, AddArticle(h, p, a, price) PROVE PricesInv'
  <2>1. Goes(h, [Start([kind |-> "listing"], "offer") EXCEPT
                    !.period = Row(p, period[p]), !.offers = Row(a, price)])
    BY <1>8 DEF AddArticle
  <2>2. UNCHANGED <<article, history, kinds>>
    BY <1>8 DEF AddArticle, NoChange
  <2>3. QED
    BY <1>1, <2>1, <2>2, OfferRequestNotes
<1>9. ASSUME NEW p, NEW a, RemoveArticle(h, p, a) PROVE PricesInv'
  BY <1>2, <1>9 DEF RemoveArticle
<1>10. QED
  BY <1>3, <1>4, <1>5, <1>6, <1>7, <1>8, <1>9 DEF PeriodRequest

LEMMA ReadsNote ==
    ASSUME Inv, PricesInv, NEW h \in Handlers,
           \/ ReadCurrent(h) \/ Confirm(h) \/ OfferInCurrent(h) \/ SaveOffer(h)
           \/ InsertOffers(h) \/ SavePeriod(h) \/ Withdraw(h) \/ ReadForFlag(h)
    PROVE  PricesInv'
<1> DEFINE r == handler[h]
<1>1. /\ UNCHANGED <<article, history, kinds>>
      /\ r.at \in {"current", "confirm", "again", "list", "offer", "savePeriod", "saveDates",
                   "withdraw", "flag"}
  BY DEF ReadCurrent, Confirm, OfferInCurrent, SaveOffer, InsertOffers, SavePeriod, Withdraw,
     ReadForFlag, At, NoChange, SaveListing
<1>2. r # Idle /\ DOMAIN r = Fields
  BY <1>1 DEF Inv, RequestOK, Working, Idle
<1>3. ASSUME NEW at, at \notin {"delete", "merge"}, NEW x, NEW y,
             \/ Goes(h, [r EXCEPT !.at = at])
             \/ Goes(h, [r EXCEPT !.at = at, !.listing = x])
             \/ Goes(h, [r EXCEPT !.at = at, !.period = x, !.offers = y])
             \/ Goes(h, [r EXCEPT !.ids = x])
      PROVE  PricesInv'
  <2> DEFINE s == [r EXCEPT !.at = at]
             t == [r EXCEPT !.at = at, !.listing = x]
             u == [r EXCEPT !.at = at, !.period = x, !.offers = y]
             v == [r EXCEPT !.ids = x]
  <2>1. \E g \in {s, t, u, v} : Goes(h, g)
    BY <1>3
  <2>2. /\ s.at = at /\ s.article = r.article /\ t.at = at /\ t.article = r.article
        /\ u.at = at /\ u.article = r.article /\ v.at = r.at /\ v.article = r.article
    BY <1>2 DEF Fields
  <2> HIDE DEF s, t, u, v, r
  <2>3. PICK g \in {s, t, u, v} : Goes(h, g)
    BY <2>1
  <2>4. g.at \notin {"delete", "merge"} /\ g.article = r.article
    BY <1>1, <1>3, <2>2
  <2>5. QED
    BY <1>1, <1>2, <2>3, <2>4, ReadingStep DEF r
<1>4. ASSUME Ends(h) PROVE PricesInv'
  BY <1>1, <1>4, ReadingStep DEF Ends
<1>5. CASE ReadCurrent(h)
  BY <1>3, <1>5 DEF ReadCurrent
<1>6. CASE Confirm(h)
  <2>1. PICK at \in {"write", "again"} : Goes(h, [r EXCEPT !.at = at, !.listing = Empty])
    BY <1>6 DEF Confirm
  <2>2. QED
    BY <1>3, <2>1
<1>7. CASE OfferInCurrent(h)
  BY <1>3, <1>7 DEF OfferInCurrent
<1>8. CASE SaveOffer(h)
  BY <1>3, <1>4, <1>8 DEF SaveOffer
<1>9. CASE InsertOffers(h)
  BY <1>3, <1>4, <1>9 DEF InsertOffers
<1>10. CASE SavePeriod(h) \/ Withdraw(h)
  BY <1>3, <1>4, <1>10 DEF SavePeriod, Withdraw
<1>11. CASE ReadForFlag(h)
  <2>1. ASSUME NEW a \in DOMAIN article,
               Goes(h, [r EXCEPT !.at = "saveFlag", !.article = Row(a, article[a])])
        PROVE  PricesInv'
    <3> DEFINE s == [r EXCEPT !.at = "saveFlag", !.article = Row(a, article[a])]
    <3>1. Goes(h, s)
      BY <2>1
    <3>2. s.at = "saveFlag" /\ s.article = Row(a, article[a])
      BY <1>2 DEF Fields
    <3> HIDE DEF s
    <3>3. QED
      BY <1>1, <3>1, <3>2, ReadingStep
  <2>2. QED
    BY <1>3, <1>4, <1>11, <2>1 DEF ReadForFlag
<1>12. QED
  BY <1>5, <1>6, <1>7, <1>8, <1>9, <1>10, <1>11

LEMMA FindNotes ==
    ASSUME Inv, PricesInv, NEW h \in Handlers, FindExistingArticle(h)
    PROVE  PricesInv'
<1> DEFINE r == handler[h]
<1>1. /\ UNCHANGED <<article, history, kinds>> /\ r.at = "find"
      /\ r # Idle /\ DOMAIN r = Fields
  <2>1. UNCHANGED <<article, history, kinds>> /\ At(h, "find")
    BY DEF FindExistingArticle, NoChange
  <2>2. QED
    BY <2>1, AtWork DEF Working, Idle
<1>2. ASSUME Goes(h, [r EXCEPT !.at = "insert"]) PROVE PricesInv'
  <2> DEFINE s == [r EXCEPT !.at = "insert"]
  <2>1. Goes(h, s)
    BY <1>2
  <2>2. s.at = "insert" /\ s.article = r.article
    BY <1>1 DEF Fields
  <2> HIDE DEF s
  <2>3. QED
    BY <1>1, <2>1, <2>2, ReadingStep
<1>3. ASSUME NEW a \in DOMAIN article, NEW row,
             Goes(h, [r EXCEPT !.at = "price", !.article = Row(a, row)])
      PROVE  PricesInv'
  <2> DEFINE s == [r EXCEPT !.at = "price", !.article = Row(a, row)]
  <2>1. Goes(h, s)
    BY <1>3
  <2>2. s.at = "price" /\ s.article = Row(a, row)
    BY <1>1 DEF Fields
  <2>3. DOMAIN Row(a, row) = {a}
    BY DEF Row
  <2> HIDE DEF s
  <2>4. QED
    BY <1>1, <2>1, <2>2, <2>3, PricesStep
<1>4. QED
  BY <1>2, <1>3 DEF FindExistingArticle

\* After its last statement about a line, an import has no article in memory.
LEMMA NextLineForgets ==
    ASSUME NEW h \in Handlers, DOMAIN handler[h] = Fields, NextLine(h)
    PROVE  \E r : Goes(h, r) /\ (r = Idle \/ (r.at = "find" /\ r.article = Empty))
<1> DEFINE r == handler[h]
           s == [r EXCEPT !.at = "find", !.lines = Tail(@), !.article = Empty]
<1>1. Goes(h, Idle) \/ Goes(h, s)
  BY DEF NextLine, Ends
<1>2. s.at = "find" /\ s.article = Empty
  BY DEF Fields
<1> HIDE DEF s
<1>3. QED
  BY <1>1, <1>2, Zenon

LEMMA SavePriceNotes ==
    ASSUME Inv, PricesInv, NEW h \in Handlers, SavePrice(h)
    PROVE  PricesInv'
<1> DEFINE r == handler[h]
           s == [r EXCEPT !.at = "record"]
<1>1. Working(r, used, kinds) /\ r.at = "price" /\ r # Idle /\ DOMAIN r = Fields
  BY AtWork DEF SavePrice, Working, Idle
<1>2. PICK found \in loaded[h], a \in DOMAIN r.article :
         /\ SaveArticle(found.article, a, r.article[a], {"price"})
         /\ IF Refused(article, found.article, a) THEN NextLine(h) ELSE Goes(h, s)
  BY DEF SavePrice
<1>3. /\ UNCHANGED <<history, kinds>> /\ DOMAIN article \subseteq DOMAIN article'
      /\ \A x \in DOMAIN article : x # a => article'[x] = article[x]
      /\ DOMAIN article' \subseteq DOMAIN article \cup {a}
      /\ a \in DOMAIN article' /\ a \notin DOMAIN article => article'[a] = r.article[a]
  BY <1>2, SavedRows
<1>4. Calm => \A x \in DOMAIN r.article : x \in DOMAIN article
  BY <1>1 DEF PricesInv, PricesNoted
<1>5. s.at = "record" /\ s.article = r.article /\ s # Idle
  <2>1. s.at = "record" /\ s.article = r.article
    BY <1>1 DEF Fields
  <2>2. QED
    BY <2>1 DEF Idle
<1>6. CASE Refused(article, found.article, a)
  <2>1. a \in DOMAIN article /\ article'[a] = article[a]
    BY <1>2, <1>6, SavedRows DEF Refused
  <2>2. PICK z : Goes(h, z) /\ (z = Idle \/ (z.at = "find" /\ z.article = Empty))
    BY <1>1, <1>2, <1>6, NextLineForgets
  <2>3. DOMAIN Empty = {}
    BY DEF Empty
  <2> HIDE DEF r, s
  <2>4. QED
    BY <1>1, <1>3, <2>1, <2>2, <2>3, PricesStep DEF r
<1>7. CASE ~Refused(article, found.article, a)
  <2>1. a \in DOMAIN article => article'[a].price = r.article[a].price
    <3>1. ASSUME a \in DOMAIN article PROVE article'[a].price = r.article[a].price
      <4>1. article'[a] = ArticleColumns(article[a], found.article[a], r.article[a], {"price"})
        BY <1>2, <1>7, <3>1, SavedRows DEF Refused
      <4>2. article[a] \in ArticleRow /\ r.article[a] \in ArticleRow
        BY <1>1, <3>1 DEF Inv, TablesOK, Working, ArticlesOK, GoodRow
      <4>3. QED
        BY <4>1, <4>2, ColumnsOf
    <3>2. QED
      BY <3>1
  <2>2. Goes(h, s)
    BY <1>2, <1>7
  <2> HIDE DEF r, s
  <2>3. QED
    BY <1>1, <1>3, <1>4, <1>5, <2>1, <2>2, PricesStep DEF r
<1>8. QED
  BY <1>6, <1>7

LEMMA InsertNotes ==
    ASSUME Inv, PricesInv, NEW h \in Handlers, Insert(h)
    PROVE  PricesInv'
<1> DEFINE r == handler[h]
<1>1. r.at = "insert" /\ DOMAIN r = Fields
  BY AtWork DEF Insert, Working
<1>2. PICK a, row :
         /\ article' = Over(Row(a, row), article)
         /\ UNCHANGED <<history, kinds>>
         /\ Goes(h, [r EXCEPT !.at = "record", !.article = Row(a, article'[a])])
  BY DEF Insert, InsertArticle
<1> DEFINE s == [r EXCEPT !.at = "record", !.article = Row(a, row)]
<1>3. /\ DOMAIN article' = DOMAIN article \cup {a}
      /\ \A x \in DOMAIN article' : article'[x] = IF x = a THEN row ELSE article[x]
  BY <1>2 DEF Over, Row
<1>4. Goes(h, s)
  BY <1>2, <1>3
<1>5. /\ s.at = "record" /\ DOMAIN s.article = {a} /\ s.article[a] = row
      /\ s # Idle
  <2>1. s.at = "record" /\ s.article = Row(a, row)
    BY <1>1 DEF Fields
  <2>2. QED
    BY <2>1 DEF Idle, Row
<1> HIDE DEF s
<1>6. QED
  BY <1>1, <1>2, <1>3, <1>4, <1>5, PricesStep

LEMMA RecordNotes ==
    ASSUME Inv, PricesInv, NEW h \in Handlers, SavePriceHistory(h)
    PROVE  PricesInv'
<1> DEFINE r == handler[h]
<1>1. r # Idle /\ DOMAIN r = Fields
  BY AtWork DEF SavePriceHistory, Working, Idle
<1>2. /\ history' = history \cup {<<a, r.article[a].price>> :
                                     a \in DOMAIN r.article \cap DOMAIN article}
      /\ UNCHANGED <<article, kinds>>
      /\ NextLine(h)
  BY DEF SavePriceHistory
<1>3. ASSUME Calm
      PROVE  \A a \in DOMAIN r.article : <<a, r.article[a].price>> \in history'
  BY <1>1, <1>2, <1>3 DEF PricesInv, PricesNoted
<1>4. PICK z : Goes(h, z) /\ (z = Idle \/ (z.at = "find" /\ z.article = Empty))
  BY <1>1, <1>2, NextLineForgets
<1>5. DOMAIN Empty = {}
  BY DEF Empty
<1>6. history \subseteq history'
  BY <1>2
<1>7. QED
  BY <1>2, <1>3, <1>4, <1>5, <1>6, PricesStep

\* The price of a row after a save is the one that it had or that of the object.
LEMMA SavedPrices ==
    ASSUME Inv, NEW found, NEW a, NEW object \in ArticleRow, NEW sent,
           SaveArticle(found, a, object, sent)
    PROVE  \A x \in DOMAIN article' :
              \/ x \in DOMAIN article /\ article'[x].price = article[x].price
              \/ x = a /\ article'[x].price = object.price
<1> SUFFICES ASSUME NEW x \in DOMAIN article'
             PROVE  \/ x \in DOMAIN article /\ article'[x].price = article[x].price
                    \/ x = a /\ article'[x].price = object.price
  OBVIOUS
<1>1. CASE x # a \/ x \notin DOMAIN article \/ a \notin DOMAIN found
  BY <1>1, SavedRows
<1>2. CASE x = a /\ x \in DOMAIN article /\ a \in DOMAIN found
  <2>1. article'[a] = ArticleColumns(article[a], found[a], object, sent)
    BY <1>2, SavedRows
  <2>2. article[a] \in ArticleRow
    BY <1>2 DEF Inv, TablesOK, ArticlesOK, GoodRow
  <2>3. QED
    BY <1>2, <2>1, <2>2, ColumnsOf
<1>3. QED
  BY <1>1, <1>2

LEMMA WriteNotes ==
    ASSUME Inv, PricesInv, NEW h \in Handlers, Write(h)
    PROVE  PricesInv'
<1> DEFINE r == handler[h]
           a == r.request.id
           row == Changed(r.article[a], r.request)
           s == [r EXCEPT !.at = "record", !.article = Row(a, row)]
<1>1. Working(r, used, kinds) /\ r.at = "write" /\ r # Idle
  BY AtWork DEF Write, Working, Idle
<1>2. PICK found, sent :
         /\ SaveArticle(found.article, a, row, sent)
         /\ IF r.request.price \in Prices /\ ~Refused(article, found.article, a)
            THEN Goes(h, s) ELSE Goes(h, Idle)
  BY DEF Write, Ends
<1>3. /\ a \in DOMAIN r.article /\ GoodRow(r.article[a], kinds) /\ SentOK(r.request.sent)
      /\ r.request.clear => "clear" \in kinds
  BY <1>1 DEF Working, Updating, UpdateOK, ArticlesOK
<1>4. /\ row \in ArticleRow
      /\ r.request.price \notin Prices => row.price = r.article[a].price
  BY <1>3, ChangedGood DEF GoodRow
<1>5. /\ UNCHANGED <<history, kinds>> /\ DOMAIN article \subseteq DOMAIN article'
  BY <1>2, SavedRows
<1>6. \A x \in DOMAIN article' :
         \/ x \in DOMAIN article /\ article'[x].price = article[x].price
         \/ x = a /\ article'[x].price = row.price
  BY <1>2, <1>4, SavedPrices
<1>7. Calm => a \in DOMAIN article /\ Noted(a, r.article[a].price, history, handler)
  BY <1>1, <1>3 DEF PricesInv, PricesNoted
<1>8. DOMAIN r = Fields
  BY <1>1 DEF Working
<1>9. Refused(article, found.article, a) => article'[a] = article[a] /\ a \in DOMAIN article
  BY <1>2, SavedRows DEF Refused
<1> HIDE DEF r, a, row
<1>10. s.at = "record" /\ DOMAIN s.article = {a} /\ s.article[a] = row
  <2>1. s.at = "record" /\ s.article = Row(a, row)
    BY <1>8 DEF Fields
  <2>2. QED
    BY <2>1 DEF Row
<1>11. s # Idle
  BY <1>10 DEF Idle
<1> HIDE DEF s
<1>12. CASE r.request.price \in Prices /\ ~Refused(article, found.article, a)
  BY <1>1, <1>2, <1>5, <1>6, <1>7, <1>10, <1>11, <1>12, PricesStep DEF r
<1>13. CASE r.request.price \notin Prices
  BY <1>1, <1>2, <1>4, <1>5, <1>6, <1>7, <1>13, PricesStep DEF r
<1>14. CASE Refused(article, found.article, a)
  BY <1>1, <1>2, <1>5, <1>6, <1>9, <1>14, PricesStep DEF r
<1>15. QED
  BY <1>12, <1>13, <1>14

LEMMA SaveFlagNotes ==
    ASSUME Inv, PricesInv, NEW h \in Handlers, SaveFlag(h)
    PROVE  PricesInv'
<1> DEFINE r == handler[h]
<1>1. Working(r, used, kinds) /\ r.at = "saveFlag" /\ r # Idle /\ DOMAIN r = Fields
  BY AtWork DEF SaveFlag, Working, Idle
<1>2. PICK found \in loaded[h], a \in DOMAIN r.article :
         /\ SaveArticle(found.article, a, [r.article[a] EXCEPT !.shown = r.request.shown], {})
         /\ \/ Ends(h)
            \/ Goes(h, [r EXCEPT !.at = "flag", !.ids = @ \ {a}, !.article = Empty])
  BY DEF SaveFlag
<1> DEFINE row == [r.article[a] EXCEPT !.shown = r.request.shown]
           s == [r EXCEPT !.at = "flag", !.ids = @ \ {a}, !.article = Empty]
<1>3. row.price = r.article[a].price /\ row \in ArticleRow
  BY <1>1 DEF Working, ArticlesOK, GoodRow, ArticleRow
<1>4. UNCHANGED <<history, kinds>> /\ DOMAIN article \subseteq DOMAIN article'
  BY <1>2, SavedRows
<1>5. \A x \in DOMAIN article' :
         \/ x \in DOMAIN article /\ article'[x].price = article[x].price
         \/ x = a /\ article'[x].price = row.price
  <2>1. SaveArticle(found.article, a, row, {})
    BY <1>2
  <2> HIDE DEF row
  <2>2. QED
    BY <1>3, <2>1, SavedPrices
<1>6. Calm => a \in DOMAIN article /\ Noted(a, r.article[a].price, history, handler)
  BY <1>1 DEF PricesInv, PricesNoted
<1>7. s.at = "flag" /\ s.article = Empty
  BY <1>1 DEF Fields
<1>8. DOMAIN Empty = {}
  BY DEF Empty
<1>9. Goes(h, Idle) \/ Goes(h, s)
  BY <1>2 DEF Ends
<1> HIDE DEF r, row, s
<1>10. CASE Goes(h, Idle)
  BY <1>1, <1>3, <1>4, <1>5, <1>6, <1>10, PricesStep DEF r
<1>11. CASE Goes(h, s)
  BY <1>1, <1>3, <1>4, <1>5, <1>6, <1>7, <1>8, <1>11, PricesStep DEF r
<1>12. QED
  BY <1>9, <1>10, <1>11

LEMMA NextNotes == Inv /\ PricesInv /\ [CatalogueNext]_catalogueVars => PricesInv'
<1> SUFFICES ASSUME Inv, PricesInv, [CatalogueNext]_catalogueVars PROVE PricesInv'
  OBVIOUS
<1>1. CASE UNCHANGED catalogueVars
  BY <1>1 DEF catalogueVars, PricesInv, PricesNoted, Calm
<1>2. CASE Restart
  BY <1>2, NotCalm DEF Restart, Calm, NoChange
<1>3. ASSUME NEW h \in Handlers, DeleteNext(h) \/ Merge(h) \/ RemoveDuplicate(h)
      PROVE  PricesInv'
  <2>1. handler[h].at \in {"delete", "merge"}
    BY <1>3 DEF DeleteNext, Merge, RemoveDuplicate, At
  <2>2. kinds' = kinds
    BY <1>3, SavedRows DEF DeleteNext, Merge, RemoveDuplicate, RemoveArticles, NoChange
  <2>3. ~Calm
    BY <2>1 DEF PricesInv, PricesNoted, Idle
  <2>4. QED
    BY <2>2, <2>3, NotCalm
<1>4. ASSUME NEW h \in Handlers, Goon(h) PROVE PricesInv'
  BY <1>3, <1>4, FindNotes, SavePriceNotes, InsertNotes, RecordNotes, WriteNotes, SaveFlagNotes,
     ReadsNote DEF Goon
<1>5. ASSUME NEW h \in Handlers, Load(h) PROVE PricesInv'
  BY <1>5 DEF Load, NoChange, PricesInv, PricesNoted, Calm
<1>6. QED
  BY <1>1, <1>2, <1>4, <1>5, ArticleRequestsNote, PeriodRequestsNote
     DEF CatalogueNext, NextStatement

LEMMA StartNoted == CatalogueStart => PricesInv
BY DEF CatalogueStart, PricesInv, PricesNoted, Noted

LEMMA NotedPrices == Inv /\ PricesInv => PricesAreRecorded
BY DEF PricesInv, PricesNoted, Noted, Calm, PricesAreRecorded, Quiet, At

-----------------------------------------------------------------------------
(* What a request has done so far, when nothing but it has changed the tables.  A request  *)
(* makes many statements, so Halfway says, for each place where it may be, what it has     *)
(* done to the tables that it began on.  Every statement of the request brings it to the   *)
(* next place; a statement of another request either changes nothing or makes it forget    *)
(* those tables.                                                                           *)

\* The tables as they are.
Now == [article |-> article, history |-> history, period |-> period, listing |-> listing]

ListedIn(f, p) == {x \in DOMAIN f : x[1] = p}

OfferedIn(f, p, a) == {x \in DOMAIN f : x[1] = p /\ x[2] = a}

\* A request r that replaces the offers of a period, begun on the tables t: first the old
\* offers are there, then none.
Replacing(r, t, now) ==
    LET id == r.request.id
    IN  /\ id \in PeriodIds
        /\ DOMAIN r.period = {id} /\ r.offers = r.request.offers
        /\ IsFiniteSet(DOMAIN r.offers)
        /\ \/ r.at \in {"savePeriod", "saveDates"} /\ now.listing = t.listing
           \/ /\ r.at = "withdraw" /\ id \in DOMAIN now.period
              /\ now.listing = t.listing
           \/ /\ r.at = "offer" /\ id \in DOMAIN now.period
              /\ now.listing = Without(t.listing, ListedIn(t.listing, id))

\* The oldest articles of each normalised name.
Oldest(rows) ==
    {a \in DOMAIN rows : \A b \in DOMAIN rows : Norm[rows[b].name] = Norm[rows[a].name] => a <= b}

\* The articles `was` when the names of those in left are still to be merged, and when
\* those in ids are still to be removed.
Merged(was, left, ids) ==
    LET done == Oldest(was) \ left
    IN  [a \in left \cup ids \cup done |->
           IF a \in done THEN [was[a] EXCEPT !.name = Norm[@]] ELSE was[a]]

\* A normalisation: the names that it has still to merge are as they were, the articles that
\* it is about to remove have an older one of their name, of the other names the oldest is
\* left.
Merging(r, t, now) ==
    LET was == t.article
        left == DOMAIN r.article
    IN  /\ r.at = "merge"
        /\ DOMAIN was \subseteq ArticleIds
        /\ left \subseteq DOMAIN was /\ \A a \in left : r.article[a] = was[a]
        /\ \A a \in left, b \in DOMAIN was : Norm[was[b].name] = Norm[was[a].name] => b \in left
        /\ r.ids \subseteq DOMAIN was \ (left \cup Oldest(was))
        /\ now.article = Merged(was, left, r.ids)

\* What is offered once a price has been brought to the current period.
Reached(id, price, t, now) ==
    /\ Open(now.period) = {} => now.listing = t.listing
    /\ \A p \in PeriodIds : CurrentPeriods(now.period) = {p} =>
          \E n \in 1..Copies :
             /\ now.listing = Over(Row(<<p, id, n>>, price), t.listing)
             /\ OfferedIn(t.listing, p, id) = {} \/ <<p, id, n>> \in OfferedIn(t.listing, p, id)

\* An update of the price of an article.
Pricing(r, t, now) ==
    LET id == r.request.id
        price == r.request.price
    IN  /\ id \in DOMAIN now.article /\ DOMAIN r.article = {id} /\ r.lines = <<>>
        /\ \/ r.at = "current" /\ now.listing = t.listing
           \/ /\ r.at = "again" /\ now.listing = t.listing
              /\ \A p \in PeriodIds :
                    CurrentPeriods(now.period) = {p} => OfferedIn(t.listing, p, id) = {}
           \/ /\ r.at = "list" /\ now.listing = t.listing
              /\ \E p \in CurrentPeriods(now.period), n \in 1..Copies :
                    <<p, id, n>> \in DOMAIN t.listing /\ r.listing = Row(<<p, id, n>>, price)
           \/ /\ r.at = "confirm" /\ Reached(id, price, t, now)
              /\ \A x \in DOMAIN r.listing : x[1] \in DOMAIN now.period
           \/ /\ r.at = "offer" /\ now.listing = t.listing
              /\ r.offers = Row(id, price)
              /\ \E p \in CurrentPeriods(now.period) :
                    DOMAIN r.period = {p} /\ OfferedIn(t.listing, p, id) = {}
           \/ r.at = "write" /\ Reached(id, price, t, now)
           \/ /\ r.at = "record" /\ Reached(id, price, t, now)
              /\ now.article[id].price = price /\ r.article[id].price = price

\* The articles with a hash.
Having(rows, hash) == {a \in DOMAIN rows : rows[a].hash = hash}

KeyOf(line) == HashKey[line.name]

\* The articles after k lines of an import, which found the articles `was`.
Stored(lines, k, was, rows) ==
    /\ \A i \in 1..k :
          LET old == Having(was, KeyOf(lines[i]))
              new == Having(rows, KeyOf(lines[i]))
          IN  /\ IF old = {} THEN \E a \in new : new = {a} ELSE new = old
              /\ (\A j \in i + 1..k : KeyOf(lines[j]) # KeyOf(lines[i]))
                    => \E a \in new : rows[a].price = lines[i].price
    /\ \A hash \in Hashes : (\A i \in 1..k : KeyOf(lines[i]) # hash)
          => Having(rows, hash) = Having(was, hash)
    /\ \A a \in DOMAIN was :
          /\ a \in DOMAIN rows /\ rows[a].hash = was[a].hash /\ rows[a].name = was[a].name
          /\ (\A i \in 1..k : was[a].hash # KeyOf(lines[i])) => rows[a] = was[a]

Recorded(lines, k, now) ==
    \A i \in 1..k : \E a \in Having(now.article, KeyOf(lines[i])) :
       <<a, lines[i].price>> \in now.history

\* An import that has come to line i.
Importing(r, t, now) ==
    LET lines == r.request.lines
        rows == now.article
    IN  /\ lines \in Seq(Line)
        /\ \E i \in 1..Len(lines) :
             /\ Len(r.lines) = Len(lines) - i + 1
             /\ \A j \in 1..Len(r.lines) : r.lines[j] = lines[i + j - 1]
             /\ Recorded(lines, i - 1, now)
             /\ \/ r.at = "find" /\ Stored(lines, i - 1, t.article, rows)
                \/ /\ r.at = "insert" /\ Stored(lines, i - 1, t.article, rows)
                   /\ Having(rows, KeyOf(lines[i])) = {}
                \/ /\ r.at = "price" /\ Stored(lines, i - 1, t.article, rows)
                   /\ \E a \in Having(rows, KeyOf(lines[i])) :
                         r.article = Row(a, [rows[a] EXCEPT !.price = lines[i].price])
                \/ /\ r.at = "record" /\ Stored(lines, i, t.article, rows)
                   /\ \E a \in Having(rows, KeyOf(lines[i])) :
                         DOMAIN r.article = {a} /\ r.article[a].price = lines[i].price

\* What request r has done to the tables t that it began on.
Halfway(r, t, now) ==
    /\ r.request.kind = "period" => Replacing(r, t, now)
    /\ r.request.kind = "normalize" => Merging(r, t, now)
    /\ r.request.kind = "update" /\ r.request.price \in Prices => Pricing(r, t, now)
    /\ r.request.kind = "import" => Importing(r, t, now)

Undisturbed == \A h \in Handlers : \A t \in handler[h].was : Halfway(handler[h], t, Now)

-----------------------------------------------------------------------------
(* One request at a time *)

LEMMA OneRequest ==
    ASSUME Inv, Undisturbed, NEW h \in Handlers, NEW r, Goes(h, r),
           \A t \in r.was : Halfway(r, t, Now')
    PROVE  Undisturbed'
<1>1. handler'[h] = r
  BY DEF Goes
<1>2. ASSUME NEW x \in Handlers, x # h, NEW t \in handler'[x].was
      PROVE  Halfway(handler'[x], t, Now')
  <2> DEFINE s == handler[x]
  <2>1. "was" \in DOMAIN s
    BY DEF Inv, RequestOK, Working, Fields, Idle
  <2>2. handler'[x] = IF tables' = tables THEN s ELSE [s EXCEPT !.was = {}]
    BY <1>2 DEF Goes
  <2> HIDE DEF s
  <2>3. [s EXCEPT !.was = {}].was = {}
    BY <2>1
  <2>4. tables' = tables /\ handler'[x] = s
    BY <1>2, <2>2, <2>3
  <2>5. Now' = Now
    BY <2>4 DEF tables, Now
  <2>6. Halfway(s, t, Now)
    BY <1>2, <2>4 DEF Undisturbed, s
  <2>7. QED
    BY <2>4, <2>5, <2>6
<1>3. QED
  BY <1>1, <1>2 DEF Undisturbed

\* A request that ends has nothing to show for.
LEMMA EndingStep ==
    ASSUME Inv, Undisturbed, NEW h \in Handlers, Ends(h)
    PROVE  Undisturbed'
<1>1. Idle.was = {}
  BY DEF Idle
<1>2. QED
  BY <1>1, OneRequest DEF Ends

\* The statements that a request may come to, by where it is.
LEMMA Stages ==
    ASSUME NEW h \in Handlers, Goon(h)
    PROVE  LET at == handler[h].at
           IN  /\ at # "idle"
               /\ at = "find" => FindExistingArticle(h)
               /\ at = "price" => SavePrice(h)
               /\ at = "insert" => Insert(h)
               /\ at = "record" => SavePriceHistory(h)
               /\ at = "list" => SaveOffer(h)
               /\ at = "offer" => InsertOffers(h)
               /\ at = "current" => ReadCurrent(h)
               /\ at = "confirm" => Confirm(h)
               /\ at = "again" => OfferInCurrent(h)
               /\ at = "write" => Write(h)
               /\ at = "merge" => Merge(h) \/ RemoveDuplicate(h)
               /\ at \in {"savePeriod", "saveDates"} => SavePeriod(h)
               /\ at = "withdraw" => Withdraw(h)
<1>1. ASSUME NEW at, handler[h].at = at
      PROVE  /\ FindExistingArticle(h) => at = "find"
             /\ SavePrice(h) => at = "price"
             /\ Insert(h) => at = "insert"
             /\ SavePriceHistory(h) => at = "record"
             /\ SaveOffer(h) => at = "list"
             /\ InsertOffers(h) => at = "offer"
             /\ ReadCurrent(h) => at = "current"
             /\ Confirm(h) => at = "confirm"
             /\ OfferInCurrent(h) => at = "again"
             /\ Write(h) => at = "write"
             /\ ReadForFlag(h) => at = "flag"
             /\ SaveFlag(h) => at = "saveFlag"
             /\ DeleteNext(h) => at = "delete"
             /\ Merge(h) \/ RemoveDuplicate(h) => at = "merge"
             /\ SavePeriod(h) => at = "savePeriod" \/ at = "saveDates"
             /\ Withdraw(h) => at = "withdraw"
  BY <1>1 DEF At, FindExistingArticle, SavePrice, Insert, SavePriceHistory, SaveOffer,
     InsertOffers, ReadCurrent, Confirm, OfferInCurrent, Write, ReadForFlag, SaveFlag,
     DeleteNext, Merge, RemoveDuplicate, SavePeriod, Withdraw
<1> DEFINE at == handler[h].at
<1>2. PICK b : b = at
  OBVIOUS
<1> HIDE DEF at
<1>3. QED
  BY <1>1, <1>2 DEF Goon, at

\* A request that goes on is the same request, begun on the same tables.
Same(q, r) == r.request = q.request /\ r.was = q.was

LEMMA SameFields ==
    ASSUME NEW q, DOMAIN q = Fields
    PROVE  /\ \A at : Same(q, [q EXCEPT !.at = at])
           /\ \A at, f : Same(q, [q EXCEPT !.at = at, !.article = f])
           /\ \A at, s, f : Same(q, [q EXCEPT !.at = at, !.lines = s, !.article = f])
           /\ \A at, f : Same(q, [q EXCEPT !.at = at, !.listing = f])
           /\ \A at, f, g : Same(q, [q EXCEPT !.at = at, !.period = f, !.offers = g])
           /\ \A ids : Same(q, [q EXCEPT !.ids = ids])
           /\ \A at, ids, f : Same(q, [q EXCEPT !.at = at, !.ids = ids, !.article = f])
           /\ \A ids, f : Same(q, [q EXCEPT !.article = f, !.ids = ids])
BY DEF Fields, Same

LEMMA SameNextLine ==
    ASSUME NEW h \in Handlers, DOMAIN handler[h] = Fields, NextLine(h)
    PROVE  Ends(h) \/ \E r : Goes(h, r) /\ Same(handler[h], r)
<1> DEFINE q == handler[h]
           s == [q EXCEPT !.at = "find", !.lines = Tail(@), !.article = Empty]
<1>1. Ends(h) \/ Goes(h, s)
  BY DEF NextLine
<1>2. Same(q, s)
  BY SameFields
<1> HIDE DEF s
<1>3. QED
  BY <1>1, <1>2, Zenon

LEMMA SameRequest ==
    ASSUME Inv, NEW h \in Handlers, Goon(h)
    PROVE  Ends(h) \/ \E r : Goes(h, r) /\ Same(handler[h], r)
<1> DEFINE q == handler[h]
           On == Ends(h) \/ \E r : Goes(h, r) /\ Same(q, r)
<1>1. DOMAIN q = Fields
  BY Stages, AtWork DEF At, Working
<1>2. /\ \A at : Same(q, [q EXCEPT !.at = at])
      /\ \A at, f : Same(q, [q EXCEPT !.at = at, !.article = f])
      /\ \A at, s, f : Same(q, [q EXCEPT !.at = at, !.lines = s, !.article = f])
      /\ \A at, f : Same(q, [q EXCEPT !.at = at, !.listing = f])
      /\ \A at, f, g : Same(q, [q EXCEPT !.at = at, !.period = f, !.offers = g])
      /\ \A ids : Same(q, [q EXCEPT !.ids = ids])
      /\ \A at, ids, f : Same(q, [q EXCEPT !.at = at, !.ids = ids, !.article = f])
      /\ \A ids, f : Same(q, [q EXCEPT !.article = f, !.ids = ids])
  BY <1>1, SameFields
<1>3. ASSUME FindExistingArticle(h) PROVE On
  <2> DEFINE s(a) == [q EXCEPT !.at = "price",
                  !.article = Row(a, [article[a] EXCEPT !.price = Head(q.lines).price])]
  <2>1. Goes(h, [q EXCEPT !.at = "insert"]) \/ \E a : Goes(h, s(a))
    BY <1>3 DEF FindExistingArticle
  <2>2. \A a : Same(q, s(a))
    BY <1>2
  <2> HIDE DEF s
  <2>3. QED
    BY <2>1, <2>2, <1>2, Zenon
<1>4. SavePrice(h) => On
  BY <1>1, <1>2, SameNextLine, Zenon DEF SavePrice
<1>5. Insert(h) => On
  BY <1>2, Zenon DEF Insert
<1>6. SavePriceHistory(h) => On
  BY <1>1, SameNextLine, Zenon DEF SavePriceHistory
<1>7. SaveOffer(h) => On
  BY <1>2, Zenon DEF SaveOffer
<1>8. ASSUME InsertOffers(h) PROVE On
  <2>1. \/ Ends(h)
        \/ Goes(h, [q EXCEPT !.at = "write", !.period = Empty, !.offers = Empty])
    BY <1>8 DEF InsertOffers
  <2>2. QED
    BY <2>1, <1>2
<1>9. ReadCurrent(h) => On
  BY <1>2, Zenon DEF ReadCurrent
<1>10. Confirm(h) => On
  BY <1>2, Zenon DEF Confirm
<1>11. ASSUME OfferInCurrent(h) PROVE On
  <2> DEFINE s(p) == [q EXCEPT !.at = "offer", !.period = Row(p, period[p]),
                  !.offers = Row(q.request.id, q.request.price)]
  <2>1. Goes(h, [q EXCEPT !.at = "write"]) \/ \E p : Goes(h, s(p))
    BY <1>11 DEF OfferInCurrent
  <2>2. \A p : Same(q, s(p))
    BY <1>2
  <2> HIDE DEF s
  <2>3. QED
    BY <2>1, <2>2, <1>2, Zenon
<1>12. ASSUME Write(h) PROVE On
  <2>1. \/ Ends(h)
        \/ \E f : Goes(h, [q EXCEPT !.at = "record", !.article = f])
    BY <1>12 DEF Write
  <2>2. QED
    BY <2>1, <1>2
<1>13. ReadForFlag(h) => On
  BY <1>2, Zenon DEF ReadForFlag
<1>14. ASSUME SaveFlag(h) PROVE On
  <2> DEFINE s(a) == [q EXCEPT !.at = "flag", !.ids = @ \ {a}, !.article = Empty]
  <2>1. Ends(h) \/ \E a : Goes(h, s(a))
    BY <1>14 DEF SaveFlag
  <2>2. \A a : Same(q, s(a))
    BY <1>2
  <2> HIDE DEF s
  <2>3. QED
    BY <2>1, <2>2, <1>2, Zenon
<1>15. DeleteNext(h) => On
  BY <1>2, Zenon DEF DeleteNext
<1>16. Merge(h) => On
  BY <1>2, Zenon DEF Merge, NextName
<1>17. RemoveDuplicate(h) => On
  BY <1>2, Zenon DEF RemoveDuplicate
<1>18. SavePeriod(h) => On
  BY <1>2, Zenon DEF SavePeriod
<1>19. Withdraw(h) => On
  BY <1>2, Zenon DEF Withdraw
<1>20. QED
  BY <1>3, <1>4, <1>5, <1>6, <1>7, <1>8, <1>9, <1>10, <1>11, <1>12, <1>13, <1>14, <1>15,
     <1>16, <1>17, <1>18, <1>19 DEF Goon

\* The tables of articles and of offers are functions, so that a table whose rows are those
\* of another is that table.
IsTabular(f) == f = [x \in DOMAIN f |-> f[x]]

Tabular == IsTabular(article) /\ IsTabular(listing)

-----------------------------------------------------------------------------
(* Tables stay functions *)

LEMMA MadeTabular == ASSUME NEW f, NEW g PROVE IsTabular(Over(f, g)) /\ IsTabular(Without(f, g))
BY DEF IsTabular, Over, Without

LEMMA StatementsTabular ==
    ASSUME Tabular
    PROVE  /\ NoChange => Tabular'
           /\ \A f, a, row, sent : SaveArticle(f, a, row, sent) => Tabular'
           /\ \A a, line : InsertArticle(line, a) => Tabular'
           /\ \A D : RemoveArticles(D) => Tabular'
           /\ \A rows : SaveListing(rows) => Tabular'
           /\ \A D : listing' = Without(listing, D) /\ article' = article => Tabular'
           /\ UNCHANGED <<article, listing>> => Tabular'
<1>1. \A f, g : IsTabular(Over(f, g)) /\ IsTabular(Without(f, g))
  BY MadeTabular
<1>2. IsTabular(article) /\ IsTabular(listing)
  BY DEF Tabular
<1>3. IsTabular(article)' /\ IsTabular(listing)' => Tabular'
  BY DEF Tabular
<1>4. UNCHANGED <<article, listing>> => Tabular'
  BY <1>2, <1>3 DEF IsTabular
<1>5. /\ \A f, g : article' \in {Over(f, g), Without(f, g)} => IsTabular(article)'
      /\ \A f, g : listing' \in {Over(f, g), Without(f, g)} => IsTabular(listing)'
      /\ article' = article => IsTabular(article)'
      /\ listing' = listing => IsTabular(listing)'
  BY <1>1, <1>2 DEF IsTabular
<1>6. NoChange => Tabular'
  BY <1>4 DEF NoChange
<1>7. \A f, a, row, sent : SaveArticle(f, a, row, sent) => Tabular'
  BY <1>3, <1>5 DEF SaveArticle, Saved
<1>8. ASSUME NEW a, NEW line, InsertArticle(line, a) PROVE Tabular'
  <2>1. listing' = listing /\ \E row : article' = Over(Row(a, row), article)
    BY <1>8 DEF InsertArticle
  <2>2. QED
    BY <2>1, <1>3, <1>5
<1>9. \A D : RemoveArticles(D) => Tabular'
  BY <1>3, <1>5 DEF RemoveArticles
<1>10. \A rows : SaveListing(rows) => Tabular'
  BY <1>3, <1>5 DEF SaveListing
<1>11. \A D : listing' = Without(listing, D) /\ article' = article => Tabular'
  BY <1>3, <1>5
<1>12. QED
  BY <1>4, <1>6, <1>7, <1>8, <1>9, <1>10, <1>11

LEMMA NextTabular == Tabular /\ [CatalogueNext]_catalogueVars => Tabular'
<1> SUFFICES ASSUME Tabular, [CatalogueNext]_catalogueVars PROVE Tabular'
  OBVIOUS
<1>1. /\ NoChange => Tabular'
      /\ \A f, a, row, sent : SaveArticle(f, a, row, sent) => Tabular'
      /\ \A a, line : InsertArticle(line, a) => Tabular'
      /\ \A D : RemoveArticles(D) => Tabular'
      /\ \A rows : SaveListing(rows) => Tabular'
      /\ \A D : listing' = Without(listing, D) /\ article' = article => Tabular'
      /\ UNCHANGED <<article, listing>> => Tabular'
  BY StatementsTabular
<1>2. ASSUME NEW h \in Handlers, ArticleRequest(h) PROVE Tabular'
  BY <1>1, <1>2, Zenon DEF ArticleRequest, Import, CreateArticle, Update, Flag, Delete, Normalize
<1>3. ASSUME NEW h \in Handlers, PeriodRequest(h) PROVE Tabular'
  BY <1>1, <1>3 DEF PeriodRequest, CreatePeriod, UpdatePeriod, RemovePeriod,
     AddArticlesBatch, UpdateArticlePrice, AddArticle, RemoveArticle
<1>4. ASSUME NEW h \in Handlers, Goon(h) PROVE Tabular'
  <2>1. FindExistingArticle(h) \/ ReadCurrent(h) \/ Confirm(h) \/ OfferInCurrent(h)
          \/ ReadForFlag(h) => Tabular'
    BY <1>1 DEF FindExistingArticle, ReadCurrent, Confirm, OfferInCurrent, ReadForFlag
  <2>2. SavePrice(h) \/ SaveFlag(h) => Tabular'
    BY <1>1, Zenon DEF SavePrice, SaveFlag
  <2>3. Write(h) => Tabular'
    BY <1>1 DEF Write
  <2>4. Insert(h) => Tabular'
    BY <1>1, Zenon DEF Insert
  <2>5. SavePriceHistory(h) \/ SavePeriod(h) => Tabular'
    BY <1>1 DEF SavePriceHistory, SavePeriod
  <2>6. InsertOffers(h) => Tabular'
    BY <1>1 DEF InsertOffers
  <2>7. DeleteNext(h) \/ RemoveDuplicate(h) => Tabular'
    BY <1>1, Zenon DEF DeleteNext, RemoveDuplicate
  <2>8. Merge(h) => Tabular'
    BY <1>1, Zenon DEF Merge
  <2>9. Withdraw(h) => Tabular'
    BY <1>1 DEF Withdraw
  <2>10. ASSUME SaveOffer(h) PROVE Tabular'
    <3>1. article' = article
      BY <2>10 DEF SaveOffer
    <3>2. listing' = listing \/ \E f : listing' = Over(f, listing)
      BY <2>10 DEF SaveOffer, Saved
    <3>3. QED
      BY <3>1, <3>2, <1>1, MadeTabular DEF Tabular, IsTabular
  <2>11. QED
    BY <1>4, <2>1, <2>2, <2>3, <2>4, <2>5, <2>6, <2>7, <2>8, <2>9, <2>10 DEF Goon
<1>5. CASE UNCHANGED catalogueVars
  BY <1>1, <1>5 DEF catalogueVars
<1>6. QED
  BY <1>1, <1>2, <1>3, <1>4, <1>5 DEF CatalogueNext, NextStatement, Load, Restart

-----------------------------------------------------------------------------
(* New requests begin on the tables as they are *)

LEMMA Begun ==
    ASSUME NEW request, NEW at
    PROVE  /\ Start(request, at).was = {Now}
           /\ Start(request, at).request = request
           /\ DOMAIN Start(request, at) = Fields
BY DEF Start, Now, Fields

\* Of requests of the other kinds nothing is said.
LEMMA OtherKinds ==
    ASSUME Inv, Undisturbed, NEW h \in Handlers, NEW r, Goes(h, r),
           r.request.kind \in {"create", "flag", "delete", "listing"}
    PROVE  Undisturbed'
<1>1. \A t \in r.was : Halfway(r, t, Now')
  BY DEF Halfway
<1>2. QED
  BY <1>1, OneRequest

LEMMA ImportBegins ==
    ASSUME Inv, Undisturbed, NEW h \in Handlers, NEW lines \in Batches, Import(h, lines)
    PROVE  Undisturbed'
<1> DEFINE q == [kind |-> "import", lines |-> lines]
           s == Start(q, "find")
           r == [s EXCEPT !.lines = lines]
<1>1. Goes(h, r) /\ Now' = Now
  BY DEF Import, NoChange, Now
<1>2. s.was = {Now} /\ s.request = q /\ DOMAIN s = Fields /\ s.at = "find"
  BY Begun, Starts
<1> HIDE DEF s
<1>3. r.was = {Now} /\ r.request = q /\ r.at = "find" /\ r.lines = lines
  BY <1>2 DEF Fields
<1> HIDE DEF r
<1>4. lines \in Seq(Line) /\ lines # <<>>
  BY BatchesAreLines
<1>5. 1 \in 1..Len(lines) /\ Len(lines) = Len(lines) - 1 + 1
  BY <1>4, LenProperties
<1>6. \A j \in 1..Len(lines) : lines[j] = lines[1 + j - 1]
  OBVIOUS
<1>7. Recorded(lines, 1 - 1, Now) /\ Stored(lines, 1 - 1, Now.article, Now.article)
  BY DEF Recorded, Stored
<1>8. Importing(r, Now, Now)
  BY <1>3, <1>4, <1>5, <1>6, <1>7 DEF Importing
<1>9. Halfway(r, Now, Now)
  BY <1>3, <1>8 DEF Halfway
<1>10. QED
  BY <1>1, <1>3, <1>9, OneRequest

LEMMA UpdateBegins ==
    ASSUME Inv, Undisturbed, NEW h \in Handlers, NEW a, NEW sent, NEW price, NEW clear,
           Update(h, a, sent, price, clear)
    PROVE  Undisturbed'
<1> DEFINE q == [kind |-> "update", id |-> a, sent |-> sent, price |-> price, clear |-> clear]
           at == IF price \in Prices THEN "current" ELSE "write"
           s == Start(q, at)
           r == [s EXCEPT !.article = Row(a, article[a])]
<1>1. Goes(h, r) /\ Now' = Now /\ a \in DOMAIN article
  BY DEF Update, NoChange, Now
<1>2. /\ s.was = {Now} /\ s.request = q /\ DOMAIN s = Fields /\ s.at = at
      /\ s.lines = <<>>
  BY Begun, Starts
<1> HIDE DEF s
<1>3. /\ r.was = {Now} /\ r.request = q /\ r.at = at /\ r.lines = <<>>
      /\ r.article = Row(a, article[a])
  BY <1>2 DEF Fields
<1> HIDE DEF r
<1>4. DOMAIN r.article = {a} /\ a \in DOMAIN Now.article
  BY <1>1, <1>3 DEF Row, Now
<1>5. price \in Prices => Pricing(r, Now, Now)
  BY <1>3, <1>4 DEF Pricing
<1>6. Halfway(r, Now, Now)
  BY <1>3, <1>5 DEF Halfway
<1>7. QED
  BY <1>1, <1>3, <1>6, OneRequest

LEMMA NormalizeBegins ==
    ASSUME Inv, Tabular, Undisturbed, NEW h \in Handlers, Normalize(h)
    PROVE  Undisturbed'
<1> DEFINE q == [kind |-> "normalize"]
           s == Start(q, "merge")
           r == [s EXCEPT !.article = article]
<1>1. Goes(h, r) /\ Now' = Now
  BY DEF Normalize, NoChange, Now
<1>2. s.was = {Now} /\ s.request = q /\ DOMAIN s = Fields /\ s.at = "merge" /\ s.ids = {}
  BY Begun, Starts
<1> HIDE DEF s
<1>3. r.was = {Now} /\ r.request = q /\ r.at = "merge" /\ r.ids = {} /\ r.article = article
  BY <1>2 DEF Fields
<1> HIDE DEF r
<1>4. Now.article = article /\ DOMAIN article \subseteq ArticleIds
  BY DEF Now, Inv, TablesOK, ArticlesOK
<1>5. article = [a \in DOMAIN article |-> article[a]]
  BY DEF Tabular, IsTabular
<1>6. Merging(r, Now, Now)
  <2>1. Oldest(article) \ DOMAIN article = {}
    BY DEF Oldest
  <2>2. Merged(article, DOMAIN article, {}) = [a \in DOMAIN article |-> article[a]]
    BY <2>1 DEF Merged
  <2>3. article = Merged(article, DOMAIN article, {})
    BY <1>5, <2>2, Zenon
  <2>4. {} \subseteq DOMAIN article \ (DOMAIN article \cup Oldest(article))
    OBVIOUS
  <2>5. QED
    BY <1>3, <1>4, <2>3, <2>4 DEF Merging
<1>7. Halfway(r, Now, Now)
  BY <1>3, <1>6 DEF Halfway
<1>8. QED
  BY <1>1, <1>3, <1>7, OneRequest

LEMMA UpdatePeriodBegins ==
    ASSUME Inv, Undisturbed, NEW h \in Handlers, NEW p, NEW sent, NEW lists,
           NEW offers \in Offers, UpdatePeriod(h, p, sent, lists, offers)
    PROVE  Undisturbed'
<1> DEFINE q == [kind |-> "period", id |-> p, offers |-> offers]
           at == IF lists THEN "savePeriod" ELSE "saveDates"
           row == [d \in DOMAIN period[p] |-> IF d \in DOMAIN sent THEN sent[d] ELSE period[p][d]]
           s == Start(q, at)
           r == [s EXCEPT !.period = Row(p, row), !.offers = offers]
<1>1. p \in PeriodIds /\ Now' = Now /\ at \in {"savePeriod", "saveDates"}
  BY DEF UpdatePeriod, NoChange, Now, Inv, TablesOK, PeriodsOK
<1>2. Goes(h, r)
  BY DEF UpdatePeriod
<1>3. s.was = {Now} /\ s.request = q /\ DOMAIN s = Fields /\ s.at = at
  BY Begun, Starts
<1> HIDE DEF s, row
<1>4. /\ r.was = {Now} /\ r.request = q /\ r.at = at /\ r.offers = offers
      /\ r.period = Row(p, row)
  BY <1>3 DEF Fields
<1> HIDE DEF r, at
<1>5. DOMAIN r.period = {p}
  BY <1>4 DEF Row
<1>6. Replacing(r, Now, Now)
  BY <1>1, <1>4, <1>5, OffersAreOK DEF Replacing
<1>7. Halfway(r, Now, Now)
  BY <1>4, <1>6 DEF Halfway
<1>8. QED
  BY <1>1, <1>2, <1>4, <1>7, OneRequest

\* No period has offers before it is there.
LEMMA CreatePeriodBegins ==
    ASSUME Inv, Tabular, Undisturbed, NEW h \in Handlers, NEW dates, NEW offers \in Offers,
           CreatePeriod(h, dates, offers)
    PROVE  Undisturbed'
<1>1. PICK p \in PeriodIds \ used :
         /\ period' = Over(Row(p, dates), period)
         /\ UNCHANGED <<article, history, listing, kinds>>
         /\ \/ Ends(h)
            \/ Goes(h, [Start([kind |-> "period", id |-> p, offers |-> offers], "offer")
                             EXCEPT !.period = Row(p, dates), !.offers = offers])
  BY DEF CreatePeriod
<1> DEFINE q == [kind |-> "period", id |-> p, offers |-> offers]
           s == Start(q, "offer")
           r == [s EXCEPT !.period = Row(p, dates), !.offers = offers]
<1>2. s.was = {Now} /\ s.request = q /\ DOMAIN s = Fields /\ s.at = "offer"
  BY Begun, Starts
<1> SUFFICES ASSUME Goes(h, r) PROVE Undisturbed'
  BY <1>1, EndingStep
<1> HIDE DEF s
<1>3. /\ r.was = {Now} /\ r.request = q /\ r.at = "offer" /\ r.offers = offers
      /\ r.period = Row(p, dates)
  BY <1>2 DEF Fields
<1>4. Goes(h, r)
  OBVIOUS
<1> HIDE DEF r
<1>5. DOMAIN r.period = {p} /\ p \in DOMAIN period'
  BY <1>1, <1>3 DEF Row, Over
<1>6. ListedIn(listing, p) = {}
  BY <1>1 DEF ListedIn, Inv, TablesOK, PeriodsOK, Refers
<1>7. listing = Without(listing, ListedIn(listing, p))
  <2>1. listing = [x \in DOMAIN listing |-> listing[x]]
    BY DEF Tabular, IsTabular
  <2>2. QED
    BY <1>6, <2>1 DEF Without
<1>8. Now.listing = listing /\ Now'.listing = listing /\ Now'.period = period'
  BY <1>1 DEF Now
<1>9. Replacing(r, Now, Now')
  BY <1>1, <1>3, <1>5, <1>7, <1>8, OffersAreOK DEF Replacing
<1>10. Halfway(r, Now, Now')
  BY <1>3, <1>9 DEF Halfway
<1>11. QED
  BY <1>3, <1>4, <1>10, OneRequest

LEMMA ArticleRequestBegins ==
    ASSUME Inv, Tabular, Undisturbed, NEW h \in Handlers, ArticleRequest(h)
    PROVE  Undisturbed'
<1>1. ASSUME NEW line, CreateArticle(h, line) PROVE Undisturbed'
  <2> DEFINE s == Start([kind |-> "create"], "insert")
             r == [s EXCEPT !.lines = <<line>>]
  <2>1. Goes(h, r)
    BY <1>1 DEF CreateArticle
  <2>2. s.request.kind = "create" /\ DOMAIN s = Fields
    BY Begun
  <2> HIDE DEF s
  <2>3. r.request.kind = "create"
    BY <2>2 DEF Fields
  <2> HIDE DEF r
  <2>4. QED
    BY <2>1, <2>3, OtherKinds
<1>2. ASSUME NEW request, NEW at, NEW ids, request.kind \in {"flag", "delete"},
             Goes(h, [Start(request, at) EXCEPT !.ids = ids])
      PROVE  Undisturbed'
  <2> DEFINE s == Start(request, at)
             r == [s EXCEPT !.ids = ids]
  <2>1. Goes(h, r)
    BY <1>2
  <2>2. s.request = request /\ DOMAIN s = Fields
    BY Begun
  <2> HIDE DEF s
  <2>3. r.request = request
    BY <2>2 DEF Fields
  <2> HIDE DEF r
  <2>4. QED
    BY <1>2, <2>1, <2>3, OtherKinds
<1>3. ASSUME NEW ids, NEW shown, Flag(h, ids, shown) PROVE Undisturbed'
  BY <1>3, <1>2 DEF Flag
<1>4. ASSUME NEW ids, Delete(h, ids) PROVE Undisturbed'
  BY <1>4, <1>2 DEF Delete
<1>5. QED
  BY <1>1, <1>3, <1>4, ImportBegins, UpdateBegins, NormalizeBegins DEF ArticleRequest

LEMMA PeriodRequestBegins ==
    ASSUME Inv, Tabular, Undisturbed, NEW h \in Handlers, PeriodRequest(h)
    PROVE  Undisturbed'
<1>1. ASSUME NEW at, NEW f, NEW g,
             \/ Goes(h, [Start([kind |-> "listing"], at) EXCEPT !.listing = f])
             \/ Goes(h, [Start([kind |-> "listing"], at) EXCEPT !.period = f, !.offers = g])
      PROVE  Undisturbed'
  <2> DEFINE s == Start([kind |-> "listing"], at)
             r1 == [s EXCEPT !.listing = f]
             r2 == [s EXCEPT !.period = f, !.offers = g]
  <2>1. Goes(h, r1) \/ Goes(h, r2)
    BY <1>1
  <2>2. s.request.kind = "listing" /\ DOMAIN s = Fields
    BY Begun
  <2> HIDE DEF s
  <2>3. r1.request.kind = "listing" /\ r2.request.kind = "listing"
    BY <2>2 DEF Fields
  <2> HIDE DEF r1, r2
  <2>4. QED
    BY <2>1, <2>3, OtherKinds
<1>2. ASSUME NEW p, NEW a, NEW price, UpdateArticlePrice(h, p, a, price) PROVE Undisturbed'
  BY <1>1, <1>2 DEF UpdateArticlePrice
<1>3. ASSUME NEW p, NEW a, NEW price, AddArticle(h, p, a, price) PROVE Undisturbed'
  BY <1>1, <1>3 DEF AddArticle
<1>4. ASSUME NEW p, NEW offers, AddArticlesBatch(h, p, offers) PROVE Undisturbed'
  BY <1>1, <1>4 DEF AddArticlesBatch
<1>5. ASSUME NEW p, RemovePeriod(h, p) \/ \E a : RemoveArticle(h, p, a) PROVE Undisturbed'
  BY <1>5, EndingStep DEF RemovePeriod, RemoveArticle
<1>6. QED
  BY <1>2, <1>3, <1>4, <1>5, UpdatePeriodBegins, CreatePeriodBegins DEF PeriodRequest

\* A request that does nothing but go on to another place.
LEMMA MovesOn ==
    ASSUME NEW h \in Handlers, NEW at, DOMAIN handler[h] = Fields,
           Goes(h, [handler[h] EXCEPT !.at = at])
    PROVE  LET q == handler[h]
               r == handler'[h]
           IN  /\ r.at = at /\ r.request = q.request
               /\ r.article = q.article /\ r.period = q.period /\ r.listing = q.listing
               /\ r.lines = q.lines /\ r.ids = q.ids /\ r.offers = q.offers
<1> DEFINE q == handler[h]
           s == [q EXCEPT !.at = at]
<1>1. handler'[h] = s /\ DOMAIN q = Fields
  BY DEF Goes
<1> HIDE DEF q
<1>2. /\ s.at = at /\ s.request = q.request
      /\ s.article = q.article /\ s.period = q.period /\ s.listing = q.listing
      /\ s.lines = q.lines /\ s.ids = q.ids /\ s.offers = q.offers
  BY <1>1 DEF Fields
<1> HIDE DEF s
<1>3. QED
  BY <1>1, <1>2 DEF q

LEMMA Ended == ASSUME NEW h \in Handlers, Ends(h) PROVE handler'[h].was = {}
BY DEF Ends, Goes, Idle

-----------------------------------------------------------------------------
(* The agreement of what is selected, of what is in memory and of the rows *)

\* A new request has read rows as they are, and begins alone when requests do.
NewRequest(h) ==
    /\ article' = article /\ kinds' = kinds
    /\ "alone" \in kinds => \A x \in Handlers : At(x, "idle")
    /\ \E r : /\ Goes(h, r)
              /\ r = Idle \/ r.was # {}
              /\ r # Idle => \A a \in DOMAIN r.article :
                                a \in DOMAIN article /\ r.article[a] = article[a]

LEMMA BeginsAlone ==
    ASSUME NEW h, NEW kind, Begins(h, kind), article' = article, kinds' = kinds,
           NEW r, Goes(h, r), r = Idle \/ r.was = {Now},
           r # Idle => \/ r.article = article \/ r.article = Empty
                       \/ \E a \in DOMAIN article : r.article = Row(a, article[a])
    PROVE  NewRequest(h)
<1>1. r = Idle \/ r.was # {}
  OBVIOUS
<1>2. r # Idle => \A a \in DOMAIN r.article :
                     a \in DOMAIN article /\ r.article[a] = article[a]
  BY DEF Empty, Row
<1>3. QED
  BY <1>1, <1>2 DEF NewRequest, Begins

LEMMA ArticleRequestIsNew ==
    ASSUME NEW h \in Handlers, ArticleRequest(h)
    PROVE  NewRequest(h)
<1>1. \A request, at :
         /\ Start(request, at).was = {Now} /\ DOMAIN Start(request, at) = Fields
         /\ Start(request, at).article = Empty
  BY DEF Start, Now, Fields
<1>2. NoChange => article' = article /\ kinds' = kinds
  BY DEF NoChange
<1>3. ASSUME NEW kind, Begins(h, kind), NEW lines, Import(h, lines) PROVE NewRequest(h)
  <2> DEFINE s == Start([kind |-> "import", lines |-> lines], "find")
             r == [s EXCEPT !.lines = lines]
  <2>1. Goes(h, r) /\ NoChange
    BY <1>3 DEF Import
  <2>2. s.was = {Now} /\ DOMAIN s = Fields /\ s.article = Empty
    BY <1>1
  <2> HIDE DEF s
  <2>3. r.was = {Now} /\ r.article = Empty
    BY <2>2 DEF Fields
  <2> HIDE DEF r
  <2>4. QED
    BY <1>2, <1>3, <2>1, <2>3, BeginsAlone
<1>4. ASSUME NEW kind, Begins(h, kind), NEW line, CreateArticle(h, line) PROVE NewRequest(h)
  <2> DEFINE s == Start([kind |-> "create"], "insert")
             r == [s EXCEPT !.lines = <<line>>]
  <2>1. Goes(h, r) /\ NoChange
    BY <1>4 DEF CreateArticle
  <2>2. s.was = {Now} /\ DOMAIN s = Fields /\ s.article = Empty
    BY <1>1
  <2> HIDE DEF s
  <2>3. r.was = {Now} /\ r.article = Empty
    BY <2>2 DEF Fields
  <2> HIDE DEF r
  <2>4. QED
    BY <1>2, <1>4, <2>1, <2>3, BeginsAlone
<1>5. ASSUME NEW kind, Begins(h, kind), NEW a, NEW sent, NEW price, NEW clear,
             Update(h, a, sent, price, clear)
      PROVE  NewRequest(h)
  <2>1. PICK request, at :
           /\ Goes(h, [Start(request, at) EXCEPT !.article = Row(a, article[a])])
           /\ NoChange /\ a \in DOMAIN article
    BY <1>5 DEF Update
  <2> DEFINE s == Start(request, at)
             r == [s EXCEPT !.article = Row(a, article[a])]
  <2>2. s.was = {Now} /\ DOMAIN s = Fields
    BY <1>1
  <2>3. Goes(h, r)
    BY <2>1
  <2> HIDE DEF s
  <2>4. r.was = {Now} /\ r.article = Row(a, article[a])
    BY <2>2 DEF Fields
  <2> HIDE DEF r
  <2>5. QED
    BY <1>2, <1>5, <2>1, <2>3, <2>4, BeginsAlone
<1>6. ASSUME NEW kind, Begins(h, kind), NEW request, NEW at, NEW ids, NoChange,
             Goes(h, [Start(request, at) EXCEPT !.ids = ids])
      PROVE  NewRequest(h)
  <2> DEFINE s == Start(request, at)
             r == [s EXCEPT !.ids = ids]
  <2>1. s.was = {Now} /\ DOMAIN s = Fields /\ s.article = Empty
    BY <1>1
  <2>2. Goes(h, r)
    BY <1>6
  <2> HIDE DEF s
  <2>3. r.was = {Now} /\ r.article = Empty
    BY <2>1 DEF Fields
  <2> HIDE DEF r
  <2>4. QED
    BY <1>2, <1>6, <2>2, <2>3, BeginsAlone
<1>7. ASSUME NEW kind, Begins(h, kind), NEW ids, NEW shown,
             Flag(h, ids, shown) \/ Delete(h, ids)
      PROVE  NewRequest(h)
  BY <1>6, <1>7 DEF Flag, Delete
<1>8. ASSUME NEW kind, Begins(h, kind), Normalize(h) PROVE NewRequest(h)
  <2> DEFINE s == Start([kind |-> "normalize"], "merge")
             r == [s EXCEPT !.article = article]
  <2>1. Goes(h, r) /\ NoChange
    BY <1>8 DEF Normalize
  <2>2. s.was = {Now} /\ DOMAIN s = Fields
    BY <1>1
  <2> HIDE DEF s
  <2>3. r.was = {Now} /\ r.article = article
    BY <2>2 DEF Fields
  <2> HIDE DEF r
  <2>4. QED
    BY <1>2, <1>8, <2>1, <2>3, BeginsAlone
<1>9. QED
  BY <1>3, <1>4, <1>5, <1>7, <1>8 DEF ArticleRequest

LEMMA PeriodRequestIsNew ==
    ASSUME NEW h \in Handlers, PeriodRequest(h)
    PROVE  NewRequest(h)
<1>1. \A request, at :
         /\ Start(request, at).was = {Now} /\ DOMAIN Start(request, at) = Fields
         /\ Start(request, at).article = Empty
  BY DEF Start, Now, Fields
<1>2. NoChange => article' = article /\ kinds' = kinds
  BY DEF NoChange
<1>3. ASSUME NEW kind, Begins(h, kind), article' = article, kinds' = kinds, Ends(h)
      PROVE  NewRequest(h)
  BY <1>3, BeginsAlone DEF Ends
<1>4. ASSUME NEW kind, Begins(h, kind), article' = article, kinds' = kinds,
             NEW request, NEW at, NEW f, NEW g,
             \/ Goes(h, [Start(request, at) EXCEPT !.period = f, !.offers = g])
             \/ Goes(h, [Start(request, at) EXCEPT !.listing = f])
      PROVE  NewRequest(h)
  <2> DEFINE s == Start(request, at)
  <2>1. s.was = {Now} /\ DOMAIN s = Fields /\ s.article = Empty
    BY <1>1
  <2>2. PICK r : /\ Goes(h, r)
                 /\ r \in {[s EXCEPT !.period = f, !.offers = g], [s EXCEPT !.listing = f]}
    BY <1>4
  <2> HIDE DEF s
  <2>3. r.was = {Now} /\ r.article = Empty
    BY <2>1, <2>2 DEF Fields
  <2>4. QED
    BY <1>4, <2>2, <2>3, BeginsAlone
<1>5. ASSUME NEW kind, Begins(h, kind), NEW dates, NEW offers, CreatePeriod(h, dates, offers)
      PROVE  NewRequest(h)
  <2>1. /\ article' = article /\ kinds' = kinds
        /\ \/ Ends(h)
           \/ \E p, request : Goes(h, [Start(request, "offer") EXCEPT
                                          !.period = Row(p, dates), !.offers = offers])
    BY <1>5 DEF CreatePeriod
  <2>2. QED
    BY <1>3, <1>4, <1>5, <2>1
<1>6. ASSUME NEW kind, Begins(h, kind), NEW p, NEW sent, NEW lists, NEW offers,
             UpdatePeriod(h, p, sent, lists, offers)
      PROVE  NewRequest(h)
  <2>1. /\ NoChange
        /\ \E request, at, f : Goes(h, [Start(request, at) EXCEPT
                                           !.period = f, !.offers = offers])
    BY <1>6 DEF UpdatePeriod
  <2>2. QED
    BY <1>2, <1>4, <1>6, <2>1
<1>7. ASSUME NEW kind, Begins(h, kind), NEW p, NEW offers, AddArticlesBatch(h, p, offers)
      PROVE  NewRequest(h)
  <2>1. /\ NoChange
        /\ \E request, f, g : Goes(h, [Start(request, "offer") EXCEPT
                                          !.period = f, !.offers = g])
    BY <1>7 DEF AddArticlesBatch
  <2>2. QED
    BY <1>2, <1>4, <1>7, <2>1
<1>8. ASSUME NEW kind, Begins(h, kind), NEW p, NEW a, NEW price,
             UpdateArticlePrice(h, p, a, price) \/ AddArticle(h, p, a, price)
      PROVE  NewRequest(h)
  <2>1. /\ NoChange
        /\ \E request, at, f, g :
              \/ Goes(h, [Start(request, at) EXCEPT !.period = f, !.offers = g])
              \/ Goes(h, [Start(request, at) EXCEPT !.listing = f])
    BY <1>8 DEF UpdateArticlePrice, AddArticle
  <2>2. QED
    BY <1>2, <1>4, <1>8, <2>1
<1>9. ASSUME NEW kind, Begins(h, kind), NEW p,
             RemovePeriod(h, p) \/ \E a : RemoveArticle(h, p, a)
      PROVE  NewRequest(h)
  BY <1>3, <1>9 DEF RemovePeriod, RemoveArticle
<1>10. QED
  BY <1>5, <1>6, <1>7, <1>8, <1>9 DEF PeriodRequest

LEMMA SameKinds ==
    ASSUME NEW h \in Handlers, Goon(h)
    PROVE  kinds' = kinds
<1>1. \A found, a, object, sent : SaveArticle(found, a, object, sent) => kinds' = kinds
  BY DEF SaveArticle
<1>2. FindExistingArticle(h) \/ SavePrice(h) \/ Insert(h) \/ SavePriceHistory(h) => kinds' = kinds
  BY <1>1 DEF FindExistingArticle, SavePrice, Insert, InsertArticle, SavePriceHistory, NoChange
<1>3. SaveOffer(h) \/ InsertOffers(h) => kinds' = kinds
  BY DEF SaveOffer, InsertOffers, SaveListing
<1>4. ReadCurrent(h) \/ Confirm(h) \/ OfferInCurrent(h) \/ Write(h) => kinds' = kinds
  BY <1>1 DEF ReadCurrent, Confirm, OfferInCurrent, Write, NoChange
<1>5. ReadForFlag(h) \/ SaveFlag(h) \/ DeleteNext(h) => kinds' = kinds
  BY <1>1 DEF ReadForFlag, SaveFlag, DeleteNext, RemoveArticles, NoChange
<1>6. Merge(h) \/ RemoveDuplicate(h) => kinds' = kinds
  BY <1>1 DEF Merge, RemoveDuplicate, RemoveArticles, NoChange
<1>7. SavePeriod(h) \/ Withdraw(h) => kinds' = kinds
  BY DEF SavePeriod, Withdraw
<1>8. QED
  BY <1>2, <1>3, <1>4, <1>5, <1>6, <1>7 DEF Goon

LEMMA WasIsThere == ASSUME Inv, NEW x \in Handlers PROVE "was" \in DOMAIN handler[x]
BY DEF Inv, RequestOK, Working, Fields, Idle

\* A statement of h leaves it with nothing selected; the others have the tables as they
\* were, or have been disturbed.
LEMMA FreshStays ==
    ASSUME Inv, Agreement, NEW h \in Handlers, NEW r, Goes(h, r),
           loaded' = [loaded EXCEPT ![h] = {}]
    PROVE  DOMAIN loaded' = Handlers /\ \A x \in Handlers : Fresh(x)'
<1>1. DOMAIN loaded = Handlers /\ DOMAIN loaded' = Handlers
  BY DEF Agreement
<1>2. Fresh(h)'
  BY <1>1 DEF Fresh
<1>3. ASSUME NEW x \in Handlers, x # h PROVE Fresh(x)'
  <2>1. loaded'[x] = loaded[x]
    BY <1>1, <1>3
  <2>2. CASE tables' = tables
    <3>1. handler'[x] = handler[x]
      BY <1>3, <2>2 DEF Goes
    <3>2. article' = article /\ period' = period /\ listing' = listing
      BY <2>2 DEF tables
    <3>3. Fresh(x)
      BY DEF Agreement
    <3>4. QED
      BY <2>1, <3>1, <3>2, <3>3 DEF Fresh
  <2>3. CASE tables' # tables
    <3> DEFINE q == handler[x]
    <3>1. handler'[x] = [q EXCEPT !.was = {}] /\ "was" \in DOMAIN q
      BY <1>3, <2>3, WasIsThere DEF Goes
    <3> HIDE DEF q
    <3>2. handler'[x].was = {}
      BY <3>1
    <3>3. QED
      BY <3>2 DEF Fresh
  <2>4. QED
    BY <2>2, <2>3
<1>4. QED
  BY <1>1, <1>2, <1>3

LEMMA AloneStays ==
    ASSUME Inv, Agreement, NEW h \in Handlers,
           kinds' = kinds, NEW r, Goes(h, r), r = Idle \/ r.was # {},
           "alone" \in kinds => \A x \in Handlers \ {h} : At(x, "idle")
    PROVE  Alone'
<1> SUFFICES ASSUME "alone" \in kinds
             PROVE  /\ \A x \in Handlers : handler'[x].at # "idle" => x = h
                    /\ handler'[h].at # "idle" => handler'[h].was # {}
  BY DEF Alone, At
<1>1. ASSUME NEW x \in Handlers, x # h PROVE handler'[x].at = "idle"
  <2>1. handler[x].at = "idle"
    BY <1>1 DEF At
  <2>2. handler'[x] = Idle \/ handler'[x].at = handler[x].at
    BY <1>1, OthersStay
  <2>3. QED
    BY <2>1, <2>2 DEF Idle
<1>2. handler'[h] = r
  BY DEF Goes
<1>3. QED
  BY <1>1, <1>2 DEF Idle

\* Of ids that are not used, or of duplicates, there is a least one.
LEMMA LeastOf ==
    ASSUME NEW S \in SUBSET Nat, S # {}
    PROVE  Min(S) \in S /\ \A x \in S : Min(S) <= x
<1> DEFINE R == OpToRel(<, Nat)
<1>1. R = {p \in Nat \X Nat : p[1] < p[2]}
  BY DEF OpToRel
<1>2. IsWellFoundedOn(R, Nat)
  BY NatLessThanWellFounded
<1> HIDE DEF R
<1>3. PICK x \in S : \A y \in S : ~(<<y, x>> \in R)
  BY <1>2, WFMin
<1>4. ASSUME NEW y \in S PROVE x <= y
  <2>1. x \in Nat /\ y \in Nat /\ <<y, x>> \notin R
    BY <1>3
  <2>2. <<y, x>> \in R <=> y < x
    BY <1>1, <2>1
  <2>3. QED
    BY <2>1, <2>2
<1>5. QED
  BY <1>4 DEF Min

\* After a step of h, which goes on as r, the articles have the names `next`, which has
\* those that they had.
LEMMA NamesMove ==
    ASSUME Inv, NEW names, NEW next, AllNames(names), NEW h \in Handlers, NEW r, Goes(h, r),
           \A f : DOMAIN f \subseteq used /\ NamesAre(f, names) => NamesAre(f, next),
           NamesAre(article', next), r # Idle => NamesAre(r.article, next)
    PROVE  AllNames(next)'
<1>1. handler'[h] = r
  BY DEF Goes
<1>2. ASSUME NEW x \in Handlers, x # h, handler'[x] # Idle
      PROVE  NamesAre(handler'[x].article, next)
  <2>1. handler[x] # Idle /\ handler'[x].article = handler[x].article
    BY <1>2, OthersStay
  <2>2. NamesAre(handler[x].article, names)
    BY <2>1 DEF AllNames
  <2>3. DOMAIN handler[x].article \subseteq used
    BY <2>1 DEF Inv, RequestOK, Working, ArticlesOK
  <2>4. QED
    BY <2>1, <2>2, <2>3
<1>3. \A x \in Handlers : handler'[x] # Idle => NamesAre(handler'[x].article, next)
  BY <1>1, <1>2
<1>4. QED
  BY <1>3 DEF AllNames, NamesAre

\* A save of a row with the name of its article keeps the name.
LEMMA SaveNames ==
    ASSUME TablesOK, NEW names, NamesAre(article, names), NEW found, NEW a,
           NEW object \in ArticleRow, NEW sent, Norm[object.name] = names[a],
           SaveArticle(found, a, object, sent)
    PROVE  NamesAre(article', names)
<1> SUFFICES ASSUME NEW x \in DOMAIN article' PROVE Norm[article'[x].name] = names[x]
  BY DEF NamesAre
<1>1. \A y \in DOMAIN article : article[y] \in ArticleRow /\ Norm[article[y].name] = names[y]
  BY DEF TablesOK, ArticlesOK, GoodRow, NamesAre
<1>2. CASE x # a
  <2>1. x \in DOMAIN article /\ article'[x] = article[x]
    BY <1>2, SavedRows
  <2>2. QED
    BY <1>1, <2>1
<1>3. CASE x = a /\ a \notin DOMAIN article
  BY <1>3, SavedRows
<1>4. CASE x = a /\ a \in DOMAIN article
  <2>1. \/ article'[a] = article[a]
        \/ article'[a] = ArticleColumns(article[a], found[a], object, sent)
    BY <1>4, SavedRows
  <2>2. Norm[ArticleColumns(article[a], found[a], object, sent).name] = names[a]
    <3> DEFINE now == article[a]
               name == ArticleColumns(now, found[a], object, sent).name
    <3>1. now \in ArticleRow /\ Norm[now.name] = names[a]
      BY <1>1, <1>4
    <3> HIDE DEF now
    <3>2. /\ name = <<name[1], name[2]>>
          /\ name[1] \in {now.name[1], object.name[1]}
          /\ name[2] \in {now.name[2], object.name[2]}
      BY <3>1, ColumnsOf
    <3> HIDE DEF name
    <3>3. name[1] = now.name[1] \/ name[1] = object.name[1]
      BY <3>2
    <3>4. name[2] = now.name[2] \/ name[2] = object.name[2]
      BY <3>2
    <3>5. now.name \in Names /\ object.name \in Names /\ Norm[now.name] = Norm[object.name]
      BY <3>1 DEF ArticleRow
    <3>6. Norm[<<name[1], name[2]>>] = Norm[now.name]
      BY <3>3, <3>4, <3>5, MixedName
    <3>7. QED
      BY <3>1, <3>2, <3>6 DEF name, now
  <2>3. QED
    BY <1>1, <1>4, <2>1, <2>2
<1>5. QED
  BY <1>2, <1>3, <1>4

\* The names stay with the rows, and r has rows of these names in memory.
NamesKept(h, names) ==
    /\ NamesAre(article', names)
    /\ \E r : Goes(h, r) /\ (r = Idle \/ NamesAre(r.article, names))

LEMMA NextLineNames ==
    ASSUME NEW h \in Handlers, DOMAIN handler[h] = Fields, NextLine(h), NEW names
    PROVE  \E r : Goes(h, r) /\ (r = Idle \/ NamesAre(r.article, names))
<1> DEFINE q == handler[h]
           s == [q EXCEPT !.at = "find", !.lines = Tail(@), !.article = Empty]
<1>1. s.article = Empty
  BY DEF Fields
<1>2. Goes(h, Idle) \/ Goes(h, s)
  BY DEF NextLine, Ends
<1> HIDE DEF s
<1>3. NamesAre(s.article, names)
  BY <1>1 DEF NamesAre, Empty
<1>4. QED
  BY <1>2, <1>3

\* The statements that read or save articles keep the names, when nobody renames.
LEMMA ArticleNames ==
    ASSUME Inv, "rename" \notin kinds, NEW names, AllNames(names), NEW h \in Handlers,
           \/ FindExistingArticle(h) \/ SavePrice(h) \/ SavePriceHistory(h)
           \/ Write(h) \/ ReadForFlag(h) \/ SaveFlag(h)
    PROVE  NamesKept(h, names)
<1> DEFINE q == handler[h]
<1>1. /\ Working(q, used, kinds) /\ DOMAIN q = Fields /\ q # Idle
      /\ q.at \in {"find", "price", "record", "write", "flag", "saveFlag"}
  <2>1. PICK at \in {"find", "price", "record", "write", "flag", "saveFlag"} : At(h, at)
    BY DEF FindExistingArticle, SavePrice, SavePriceHistory, Write, ReadForFlag, SaveFlag
  <2>2. QED
    BY <2>1, AtWork DEF Working, Idle
<1>2. NamesAre(article, names) /\ NamesAre(q.article, names)
  BY <1>1 DEF AllNames
<1>3. /\ \A a \in DOMAIN article : article[a] \in ArticleRow
      /\ \A a \in DOMAIN q.article : q.article[a] \in ArticleRow
  BY <1>1 DEF Inv, TablesOK, Working, ArticlesOK, GoodRow
<1>4. article' = article => NamesAre(article', names)
  BY <1>2
<1>5. ASSUME NEW found, NEW a \in DOMAIN q.article, NEW object \in ArticleRow, NEW sent,
             Norm[object.name] = Norm[q.article[a].name],
             SaveArticle(found, a, object, sent)
      PROVE  NamesAre(article', names)
  <2>1. Norm[object.name] = names[a]
    BY <1>2, <1>5 DEF NamesAre
  <2>2. QED
    BY <1>2, <1>5, <2>1, SaveNames DEF Inv
<1>6. ASSUME NEW at PROVE NamesAre([q EXCEPT !.at = at].article, names)
  BY <1>1, <1>2 DEF Fields
<1>7. ASSUME NEW a, NEW row, Norm[row.name] = names[a] PROVE NamesAre(Row(a, row), names)
  BY <1>7 DEF NamesAre, Row
<1>8. CASE FindExistingArticle(h)
  <2> DEFINE price == Head(q.lines).price
             row(a) == [article[a] EXCEPT !.price = price]
             s(a) == [q EXCEPT !.at = "price", !.article = Row(a, row(a))]
  <2>1. /\ article' = article
        /\ \/ Goes(h, [q EXCEPT !.at = "insert"])
           \/ \E a \in DOMAIN article : Goes(h, s(a))
    BY <1>8 DEF FindExistingArticle, NoChange
  <2>2. ASSUME NEW a \in DOMAIN article PROVE NamesAre(s(a).article, names)
    <3>1. row(a).name = article[a].name
      BY <1>3 DEF ArticleRow
    <3> HIDE DEF row
    <3>2. s(a).article = Row(a, row(a))
      BY <1>1 DEF Fields
    <3> HIDE DEF s
    <3>3. Norm[row(a).name] = names[a]
      BY <1>2, <3>1 DEF NamesAre
    <3>4. QED
      BY <1>7, <3>2, <3>3
  <2> HIDE DEF s
  <2>3. \E r : Goes(h, r) /\ NamesAre(r.article, names)
    BY <1>6, <2>1, <2>2
  <2>4. QED
    BY <1>4, <2>1, <2>3 DEF NamesKept
<1>9. CASE SavePrice(h)
  <2>1. PICK found, a :
           /\ found \in loaded[h] /\ a \in DOMAIN q.article
           /\ SaveArticle(found.article, a, q.article[a], {"price"})
           /\ NextLine(h) \/ Goes(h, [q EXCEPT !.at = "record"])
    BY <1>9 DEF SavePrice
  <2>2. NamesAre(article', names)
    BY <1>3, <1>5, <2>1
  <2>3. \E r : Goes(h, r) /\ (r = Idle \/ NamesAre(r.article, names))
    BY <1>1, <1>6, <2>1, NextLineNames
  <2>4. QED
    BY <2>2, <2>3 DEF NamesKept
<1>10. CASE SavePriceHistory(h)
  <2>1. article' = article /\ NextLine(h)
    BY <1>10 DEF SavePriceHistory
  <2>2. QED
    BY <1>1, <1>4, <2>1, NextLineNames DEF NamesKept
<1>11. CASE Write(h)
  <2> DEFINE a == q.request.id
             old == q.article[a]
             request == q.request
             row == Changed(old, request)
             s == [q EXCEPT !.at = "record", !.article = Row(a, row)]
  <2>1. PICK found, sent :
           /\ SaveArticle(found.article, a, row, sent)
           /\ Goes(h, s) \/ Goes(h, Idle)
    BY <1>11 DEF Write, Ends
  <2>2. /\ a \in DOMAIN q.article /\ GoodRow(old, kinds) /\ SentOK(request.sent)
        /\ request.clear => "clear" \in kinds
        /\ request.sent = Empty
    <3>1. q.at = "write"
      BY <1>11 DEF Write, At
    <3>2. UpdateOK(q, kinds)
      BY <1>1, <3>1 DEF Working, Updating
    <3>3. QED
      BY <1>1, <3>2 DEF UpdateOK, Working, ArticlesOK
  <2>3. row \in ArticleRow /\ row.name = old.name
    <3> HIDE DEF old, request
    <3>1. GoodRow(Changed(old, request), kinds) /\ Changed(old, request).name = old.name
      BY <2>2, ChangedGood
    <3>2. QED
      BY <3>1 DEF GoodRow, row
  <2> HIDE DEF row
  <2>4. NamesAre(article', names)
    BY <1>5, <2>1, <2>2, <2>3
  <2>5. s.article = Row(a, row)
    BY <1>1 DEF Fields
  <2> HIDE DEF s
  <2>6. Norm[row.name] = names[a]
    BY <1>2, <2>2, <2>3 DEF NamesAre
  <2>7. NamesAre(s.article, names)
    BY <1>7, <2>5, <2>6
  <2>8. QED
    BY <2>1, <2>4, <2>7 DEF NamesKept
<1>12. CASE ReadForFlag(h)
  <2> DEFINE s(a) == [q EXCEPT !.at = "saveFlag", !.article = Row(a, article[a])]
             l(a) == [q EXCEPT !.ids = @ \ {a}]
  <2>1. /\ article' = article
        /\ \/ \E a \in DOMAIN article : Goes(h, s(a))
           \/ Goes(h, Idle)
           \/ \E a : Goes(h, l(a))
    BY <1>12 DEF ReadForFlag, NoChange, Ends
  <2>2. ASSUME NEW a \in DOMAIN article PROVE NamesAre(s(a).article, names)
    <3>1. s(a).article = Row(a, article[a])
      BY <1>1 DEF Fields
    <3>2. QED
      BY <1>2, <1>7, <3>1 DEF NamesAre
  <2>3. ASSUME NEW a PROVE NamesAre(l(a).article, names)
    BY <1>1, <1>2 DEF Fields
  <2> HIDE DEF s, l
  <2>4. \E r : Goes(h, r) /\ (r = Idle \/ NamesAre(r.article, names))
    BY <2>1, <2>2, <2>3
  <2>5. QED
    BY <1>4, <2>1, <2>4 DEF NamesKept
<1>13. CASE SaveFlag(h)
  <2> DEFINE s(a) == [q EXCEPT !.at = "flag", !.ids = @ \ {a}, !.article = Empty]
             row(a) == [q.article[a] EXCEPT !.shown = q.request.shown]
  <2>1. PICK found, a :
           /\ a \in DOMAIN q.article
           /\ SaveArticle(found.article, a, row(a), {})
           /\ Goes(h, Idle) \/ Goes(h, s(a))
    BY <1>13 DEF SaveFlag, Ends
  <2>2. row(a) \in ArticleRow /\ row(a).name = q.article[a].name
    <3>1. q.request.shown \in BOOLEAN
      BY <1>1, <1>13 DEF Working, SaveFlag, At
    <3>2. QED
      BY <1>3, <2>1, <3>1 DEF ArticleRow
  <2> HIDE DEF row
  <2>3. NamesAre(article', names)
    BY <1>5, <2>1, <2>2
  <2>4. s(a).article = Empty
    BY <1>1 DEF Fields
  <2> HIDE DEF s
  <2>5. NamesAre(s(a).article, names)
    BY <2>4 DEF NamesAre, Empty
  <2>6. QED
    BY <2>1, <2>3, <2>5 DEF NamesKept
<1>14. QED
  BY <1>8, <1>9, <1>10, <1>11, <1>12, <1>13

\* So do the others, which save no article but with its normalised name.
LEMMA OtherNames ==
    ASSUME Inv, "rename" \notin kinds, NEW names, AllNames(names), NEW h \in Handlers,
           \/ SaveOffer(h) \/ InsertOffers(h) \/ ReadCurrent(h) \/ Confirm(h)
           \/ OfferInCurrent(h) \/ DeleteNext(h) \/ Merge(h) \/ RemoveDuplicate(h)
           \/ SavePeriod(h) \/ Withdraw(h)
    PROVE  NamesKept(h, names)
<1> DEFINE q == handler[h]
<1>1. Working(q, used, kinds) /\ DOMAIN q = Fields /\ q # Idle
  <2>1. PICK at \in {"list", "offer", "current", "confirm", "again", "delete", "merge",
                     "savePeriod", "saveDates", "withdraw"} : At(h, at)
    BY DEF SaveOffer, InsertOffers, ReadCurrent, Confirm, OfferInCurrent, DeleteNext, Merge,
       RemoveDuplicate, SavePeriod, Withdraw
  <2>2. QED
    BY <2>1, AtWork DEF Working, Idle
<1>2. NamesAre(article, names) /\ NamesAre(q.article, names)
  BY <1>1 DEF AllNames
<1>3. article' = article => NamesAre(article', names)
  BY <1>2
<1>4. \A D : NamesAre(Without(article, D), names) /\ NamesAre(Without(q.article, D), names)
  BY <1>2 DEF NamesAre, Without
\* The articles in memory stay those.
<1>5. /\ \A at : NamesAre([q EXCEPT !.at = at].article, names)
      /\ \A at, f : NamesAre([q EXCEPT !.at = at, !.listing = f].article, names)
      /\ \A at, f, g : NamesAre([q EXCEPT !.at = at, !.period = f, !.offers = g].article, names)
      /\ \A ids : NamesAre([q EXCEPT !.ids = ids].article, names)
  BY <1>1, <1>2 DEF Fields
<1> DEFINE On == \E r : Goes(h, r) /\ (r = Idle \/ NamesAre(r.article, names))
<1>6. Ends(h) => On
  BY DEF Ends
<1>7. CASE SaveOffer(h)
  <2>1. /\ article' = article
        /\ \/ Ends(h)
           \/ \E at : Goes(h, [q EXCEPT !.at = at])
           \/ \E at, f : Goes(h, [q EXCEPT !.at = at, !.listing = f])
    BY <1>7 DEF SaveOffer
  <2>2. QED
    BY <1>3, <1>5, <1>6, <2>1 DEF NamesKept
<1>8. CASE InsertOffers(h) \/ ReadCurrent(h) \/ Confirm(h) \/ OfferInCurrent(h)
  <2>1. /\ article' = article
        /\ \/ Ends(h)
           \/ \E at : Goes(h, [q EXCEPT !.at = at])
           \/ \E at, f : Goes(h, [q EXCEPT !.at = at, !.listing = f])
           \/ \E at, f, g : Goes(h, [q EXCEPT !.at = at, !.period = f, !.offers = g])
    BY <1>8 DEF InsertOffers, SaveListing, ReadCurrent, Confirm, OfferInCurrent, NoChange
  <2>2. QED
    BY <1>3, <1>5, <1>6, <2>1 DEF NamesKept
<1>9. CASE DeleteNext(h) \/ RemoveDuplicate(h)
  <2>1. /\ \E D : article' = Without(article, D)
        /\ \/ Ends(h)
           \/ \E ids : Goes(h, [q EXCEPT !.ids = ids])
    BY <1>9 DEF DeleteNext, RemoveDuplicate, RemoveArticles
  <2>2. QED
    BY <1>4, <1>5, <1>6, <2>1 DEF NamesKept
<1>10. CASE SavePeriod(h) \/ Withdraw(h)
  <2>1. /\ article' = article
        /\ \/ Ends(h)
           \/ \E at : Goes(h, [q EXCEPT !.at = at])
    BY <1>10 DEF SavePeriod, Withdraw
  <2>2. QED
    BY <1>3, <1>5, <1>6, <2>1 DEF NamesKept
<1>11. CASE Merge(h)
  <2> DEFINE rows == q.article
             row(a) == [rows[a] EXCEPT !.name = Norm[rows[a].name]]
             s(D, ids) == [q EXCEPT !.article = Without(rows, D), !.ids = ids]
  <2>1. PICK keep \in DOMAIN rows :
           /\ \/ article' = article
              \/ \E found : SaveArticle(found, keep, row(keep), {})
           /\ \/ Ends(h)
              \/ \E D, ids : NextName(h, Without(rows, D), ids)
    BY <1>11 DEF Merge, NoChange
  <2>2. row(keep) \in ArticleRow /\ Norm[row(keep).name] = names[keep]
    <3> DEFINE old == rows[keep]
    <3>1. old \in ArticleRow /\ Norm[old.name] = names[keep]
      BY <1>1, <1>2 DEF Working, ArticlesOK, GoodRow, NamesAre
    <3> HIDE DEF old
    <3>2. Norm[old.name] \in Names /\ Norm[Norm[old.name]] = Norm[old.name]
      BY <3>1, NormIsName DEF ArticleRow
    <3>3. /\ [old EXCEPT !.name = Norm[old.name]] \in ArticleRow
          /\ [old EXCEPT !.name = Norm[old.name]].name = Norm[old.name]
      BY <3>1, <3>2 DEF ArticleRow
    <3>4. QED
      BY <3>1, <3>2, <3>3 DEF old
  <2> HIDE DEF row
  <2>3. NamesAre(article', names)
    BY <1>2, <1>3, <2>1, <2>2, SaveNames DEF Inv
  <2>4. \A D, ids : NamesAre(s(D, ids).article, names)
    BY <1>1, <1>4 DEF Fields
  <2>5. Ends(h) \/ \E D, ids : Goes(h, s(D, ids))
    BY <2>1 DEF NextName
  <2> HIDE DEF s
  <2>6. On
    BY <1>6, <2>4, <2>5
  <2>7. QED
    BY <2>3, <2>6 DEF NamesKept
<1>12. QED
  BY <1>7, <1>8, <1>9, <1>10, <1>11

\* A new article has a name of its own.
LEMMA InsertNames ==
    ASSUME Inv, NEW names, AllNames(names), NEW h \in Handlers, Insert(h)
    PROVE  \E next : AllNames(next)'
<1> DEFINE q == handler[h]
<1>1. PICK a, row :
         /\ a = Min(ArticleIds \ used) /\ ArticleIds \ used # {}
         /\ article' = Over(Row(a, row), article)
         /\ Goes(h, [q EXCEPT !.at = "record", !.article = Row(a, article'[a])])
  BY DEF Insert, InsertArticle
<1>2. a \notin used
  <2>1. ArticleIds \ used \in SUBSET Nat
    BY CatalogueAssumption
  <2>2. QED
    BY <1>1, <2>1, LeastOf
<1>3. DOMAIN q = Fields
  BY AtWork DEF Insert, Working
<1> DEFINE next == [x \in used \cup {a} |-> IF x = a THEN Norm[row.name] ELSE names[x]]
           s == [q EXCEPT !.at = "record", !.article = Row(a, article'[a])]
<1>4. s.article = Row(a, row)
  <2>1. article'[a] = row
    BY <1>1 DEF Over, Row
  <2>2. QED
    BY <1>3, <2>1 DEF Fields
<1>5. Goes(h, s)
  BY <1>1
<1> HIDE DEF s
<1>6. \A f : DOMAIN f \subseteq used /\ NamesAre(f, names) => NamesAre(f, next)
  BY <1>2 DEF NamesAre
<1>7. NamesAre(article', next)
  BY <1>1, <1>2 DEF NamesAre, Over, Row, AllNames, Inv, TablesOK, ArticlesOK
<1>8. NamesAre(s.article, next)
  BY <1>4 DEF NamesAre, Row
<1> HIDE DEF next
<1>9. QED
  BY <1>5, <1>6, <1>7, <1>8, NamesMove

LEMMA NamesStay ==
    ASSUME Inv, Agreement, NEW h \in Handlers, kinds' = kinds, NewRequest(h) \/ Goon(h)
    PROVE  SameNames'
<1> SUFFICES ASSUME "rename" \notin kinds PROVE \E next : AllNames(next)'
  BY DEF SameNames
<1>1. PICK names : AllNames(names)
  BY DEF Agreement, SameNames
<1>2. ASSUME NEW r, Goes(h, r), NamesAre(article', names), r = Idle \/ NamesAre(r.article, names)
      PROVE  AllNames(names)'
  BY <1>1, <1>2, NamesMove
<1>3. ASSUME NewRequest(h) PROVE AllNames(names)'
  <2>1. PICK r :
           /\ Goes(h, r)
           /\ r # Idle => \A a \in DOMAIN r.article :
                             a \in DOMAIN article /\ r.article[a] = article[a]
    BY <1>3 DEF NewRequest
  <2>2. NamesAre(article, names) /\ article' = article
    BY <1>1, <1>3 DEF AllNames, NewRequest
  <2>3. r = Idle \/ NamesAre(r.article, names)
    BY <2>1, <2>2 DEF NamesAre
  <2>4. QED
    BY <1>2, <2>1, <2>2, <2>3
<1>4. NamesKept(h, names) => AllNames(names)'
  BY <1>2 DEF NamesKept
<1>5. ASSUME Goon(h) PROVE \E next : AllNames(next)'
  BY <1>1, <1>4, <1>5, ArticleNames, OtherNames, InsertNames DEF Goon
<1>6. QED
  BY <1>3, <1>5

LEMMA LoadAgrees ==
    ASSUME Agreement, NEW h \in Handlers, Load(h)
    PROVE  Agreement'
<1> DEFINE q == handler[h]
           found == [article |-> Only(article, DOMAIN q.article),
                     period |-> Only(period, DOMAIN q.period),
                     listing |-> Only(listing, DOMAIN q.listing)]
<1>1. /\ loaded' = [loaded EXCEPT ![h] = {found}] /\ handler' = handler
      /\ article' = article /\ period' = period /\ listing' = listing /\ kinds' = kinds
  BY DEF Load, NoChange
<1>2. DOMAIN loaded = Handlers /\ DOMAIN loaded' = Handlers
  BY <1>1 DEF Agreement
<1>3. Fresh(h)'
  BY <1>1, <1>2 DEF Fresh
<1> HIDE DEF found
<1>4. ASSUME NEW x \in Handlers, x # h PROVE Fresh(x)'
  <2>1. loaded'[x] = loaded[x] /\ Fresh(x)
    BY <1>1, <1>2, <1>4 DEF Agreement
  <2>2. QED
    BY <1>1, <2>1 DEF Fresh
<1>5. Alone' /\ SameNames'
  BY <1>1 DEF Agreement, Alone, At, SameNames, AllNames
<1>6. QED
  BY <1>2, <1>3, <1>4, <1>5 DEF Agreement

LEMMA NextAgrees == Inv /\ Agreement /\ [CatalogueNext]_catalogueVars => Agreement'
<1> SUFFICES ASSUME Inv, Agreement, [CatalogueNext]_catalogueVars PROVE Agreement'
  OBVIOUS
<1>1. CASE UNCHANGED catalogueVars
  <2>1. /\ loaded' = loaded /\ handler' = handler
        /\ article' = article /\ period' = period /\ listing' = listing /\ kinds' = kinds
    BY <1>1 DEF catalogueVars
  <2>2. QED
    BY <2>1 DEF Agreement, Fresh, Alone, At, SameNames, AllNames
<1>2. CASE Restart
  <2>1. /\ handler' = [h \in Handlers |-> Idle] /\ loaded' = [h \in Handlers |-> {}]
        /\ article' = article /\ kinds' = kinds
    BY <1>2 DEF Restart, NoChange
  <2>2. SameNames'
    <3>1. \A names : AllNames(names) => AllNames(names)'
      BY <2>1 DEF AllNames
    <3>2. QED
      BY <2>1, <3>1 DEF Agreement, SameNames
  <2>3. (\A h \in Handlers : Fresh(h))' /\ Alone'
    BY <2>1 DEF Fresh, Alone, At, Idle
  <2>4. QED
    BY <2>1, <2>2, <2>3 DEF Agreement
<1>3. ASSUME NEW h \in Handlers, NextStatement(h) PROVE Agreement'
  <2>1. /\ NewRequest(h) \/ Goon(h)
        /\ loaded' = [loaded EXCEPT ![h] = {}]
    BY <1>3, ArticleRequestIsNew, PeriodRequestIsNew DEF NextStatement
  <2>2. kinds' = kinds
    BY <2>1, SameKinds DEF NewRequest
  <2>3. PICK r : /\ Goes(h, r) /\ (r = Idle \/ ("alone" \in kinds => r.was # {}))
                 /\ "alone" \in kinds => \A x \in Handlers \ {h} : At(x, "idle")
    <3>1. CASE NewRequest(h)
      BY <3>1 DEF NewRequest
    <3>2. CASE Goon(h)
      <4>1. handler[h].at # "idle"
        BY <3>2, Stages
      <4>2. "alone" \in kinds =>
               handler[h].was # {} /\ \A x \in Handlers \ {h} : At(x, "idle")
        BY <4>1 DEF Agreement, Alone, At
      <4>3. QED
        BY <3>2, <4>2, SameRequest DEF Ends, Same
    <3>3. QED
      BY <2>1, <3>1, <3>2
  <2>4. DOMAIN loaded' = Handlers /\ \A x \in Handlers : Fresh(x)'
    BY <2>1, <2>3, FreshStays
  <2>5. Alone'
    <3>1. CASE "alone" \in kinds
      BY <2>2, <2>3, <3>1, AloneStays
    <3>2. CASE "alone" \notin kinds
      BY <2>2, <3>2 DEF Alone
    <3>3. QED
      BY <3>1, <3>2
  <2>6. SameNames'
    BY <2>1, <2>2, NamesStay
  <2>7. QED
    BY <2>4, <2>5, <2>6 DEF Agreement
<1>4. QED
  BY <1>1, <1>2, <1>3, LoadAgrees DEF CatalogueNext

LEMMA StartAgrees == CatalogueStart => Agreement
<1> SUFFICES ASSUME CatalogueStart PROVE Agreement
  OBVIOUS
<1>1. /\ handler = [h \in Handlers |-> Idle] /\ loaded = [h \in Handlers |-> {}]
  BY DEF CatalogueStart
<1>2. (\A h \in Handlers : Fresh(h)) /\ Alone
  BY <1>1 DEF Fresh, Alone, At, Idle
<1>3. SameNames
  <2> DEFINE names == [a \in DOMAIN article |-> Norm[article[a].name]]
  <2>1. AllNames(names)
    BY <1>1 DEF AllNames, NamesAre
  <2>2. QED
    BY <2>1 DEF SameNames
<1>4. QED
  BY <1>1, <1>2, <1>3 DEF Agreement

-----------------------------------------------------------------------------
(* What is saved by a request that nobody has disturbed *)

LEMMA FreshArticle ==
    ASSUME Inv, Agreement, NEW h \in Handlers, handler[h].was # {}, NEW found \in loaded[h],
           NEW a \in DOMAIN handler[h].article, NEW object \in ArticleRow, NEW sent,
           SaveArticle(found.article, a, object, sent)
    PROVE  /\ ~Refused(article, found.article, a)
           /\ article' = Over(Row(a, object), article)
           /\ UNCHANGED <<history, period, listing>>
<1>1. found.article = Only(article, DOMAIN handler[h].article)
  BY DEF Agreement, Fresh
<1>2. /\ a \in DOMAIN article <=> a \in DOMAIN found.article
      /\ a \in DOMAIN article => found.article[a] = article[a]
  BY <1>1 DEF Only
<1> DEFINE row == IF a \in DOMAIN article
                  THEN ArticleColumns(article[a], found.article[a], object, sent) ELSE object
<1>3. row = object
  <2>1. a \in DOMAIN article => article[a] \in ArticleRow
    BY DEF Inv, TablesOK, ArticlesOK, GoodRow
  <2>2. QED
    BY <1>2, <2>1, UpdateOfFound
<1>4. article' = Saved(article, found.article, a, row) /\ UNCHANGED <<history, period, listing>>
  BY DEF SaveArticle
<1> HIDE DEF row
<1>5. QED
  BY <1>2, <1>3, <1>4 DEF Saved, Refused

LEMMA FreshPeriod ==
    ASSUME Agreement, NEW h \in Handlers, handler[h].was # {}, SavePeriod(h),
           NEW id, DOMAIN handler[h].period = {id}
    PROVE  /\ id \in DOMAIN period' /\ listing' = listing
           /\ Ends(h) \/ Goes(h, [handler[h] EXCEPT !.at = "withdraw"])
<1> DEFINE q == handler[h]
           row(found) == IF id \in DOMAIN period
                         THEN Columns(period[id], found.period[id], q.period[id], {})
                         ELSE q.period[id]
<1>1. PICK found \in loaded[h] :
         /\ period' = Saved(period, found.period, id, row(found))
         /\ listing' = listing
         /\ Ends(h) \/ Goes(h, [q EXCEPT !.at = "withdraw"])
  BY DEF SavePeriod
<1>2. found.period = Only(period, {id})
  <2>1. found = [article |-> Only(article, DOMAIN q.article),
                 period |-> Only(period, DOMAIN q.period),
                 listing |-> Only(listing, DOMAIN q.listing)]
    BY DEF Agreement, Fresh
  <2>2. found.period = Only(period, DOMAIN q.period)
    BY <2>1
  <2>3. QED
    BY <2>2
<1> HIDE DEF row
<1>3. period' = Over(Row(id, row(found)), period)
  BY <1>1, <1>2 DEF Saved, Only
<1>4. QED
  BY <1>1, <1>3 DEF Over, Row

LEMMA FreshOffer ==
    ASSUME Agreement, NEW h \in Handlers, handler[h].was # {}, SaveOffer(h),
           handler[h].request.kind # "listing",
           NEW x \in DOMAIN listing, Refers(x), NEW price, handler[h].listing = Row(x, price)
    PROVE  /\ listing' = Over(Row(x, price), listing)
           /\ article' = article /\ period' = period
           /\ Goes(h, [handler[h] EXCEPT !.at = "confirm"])
<1>1. DOMAIN handler[h].listing = {x} /\ handler[h].listing[x] = price
  BY DEF Row
<1>2. PICK found \in loaded[h] :
         /\ listing' = Saved(listing, found.listing, x, price)
         /\ article' = article /\ period' = period
         /\ IF Refused(listing, found.listing, x)
            THEN Goes(h, [handler[h] EXCEPT !.at = "write", !.listing = Empty])
            ELSE Goes(h, [handler[h] EXCEPT !.at = "confirm"])
  <2>1. PICK found, r :
           /\ found \in loaded[h] /\ r \in DOMAIN handler[h].listing
           /\ listing' = IF Refers(r)
                         THEN Saved(listing, found.listing, r, handler[h].listing[r])
                         ELSE listing
           /\ article' = article /\ period' = period
           /\ IF \/ Refused(listing, found.listing, r)
                 \/ r \notin DOMAIN found.listing /\ ~Refers(r)
              THEN Goes(h, [handler[h] EXCEPT !.at = "write", !.listing = Empty])
              ELSE Goes(h, [handler[h] EXCEPT !.at = "confirm"])
    BY DEF SaveOffer
  <2>2. r = x
    BY <1>1, <2>1
  <2>3. QED
    BY <1>1, <2>1, <2>2
<1>3. found.listing = Only(listing, {x})
  BY <1>1 DEF Agreement, Fresh
<1>4. x \in DOMAIN found.listing
  BY <1>3 DEF Only
<1>5. QED
  BY <1>2, <1>4 DEF Saved, Refused

-----------------------------------------------------------------------------
(* Replacing the offers of a period *)

LEMMA PeriodGoesOn ==
    ASSUME Inv, Agreement, NEW h \in Handlers, Goon(h), handler[h].was # {},
           handler[h].request.kind = "period",
           NEW t, Replacing(handler[h], t, Now), handler'[h].was # {},
           Same(handler[h], handler'[h])
    PROVE  Replacing(handler'[h], t, Now')
<1> DEFINE q == handler[h]
           r == handler'[h]
           id == q.request.id
<1>1. DOMAIN q = Fields
  BY Stages, AtWork DEF At, Working
<1>2. /\ id \in PeriodIds /\ DOMAIN q.period = {id} /\ q.offers = q.request.offers
      /\ IsFiniteSet(DOMAIN q.offers)
      /\ r.request = q.request
  BY DEF Replacing, Same
<1>3. Now.listing = listing /\ Now'.listing = listing' /\ Now'.period = period'
  BY DEF Now
<1>4. ASSUME q.at \in {"savePeriod", "saveDates"}, Now.listing = t.listing
      PROVE  Replacing(r, t, Now')
  <2>1. SavePeriod(h)
    BY <1>4, Stages
  <2>2. id \in DOMAIN period' /\ listing' = listing
    BY <1>2, <2>1, FreshPeriod
  <2>3. Goes(h, [q EXCEPT !.at = "withdraw"])
    BY <1>2, <2>1, FreshPeriod, Ended
  <2>4. r.at = "withdraw" /\ r.period = q.period /\ r.offers = q.offers
    BY <1>1, <2>3, MovesOn
  <2>5. QED
    BY <1>2, <1>3, <1>4, <2>2, <2>4 DEF Replacing
<1>5. ASSUME q.at = "withdraw", id \in DOMAIN Now.period, Now.listing = t.listing
      PROVE  Replacing(r, t, Now')
  <2>1. Withdraw(h)
    BY <1>5, Stages
  <2>2. Goes(h, [q EXCEPT !.at = "offer"])
    BY <2>1, Ended DEF Withdraw
  <2>3. r.at = "offer" /\ r.period = q.period /\ r.offers = q.offers
    BY <1>1, <2>2, MovesOn
  <2>4. listing' = Without(listing, RowsOf(id)) /\ period' = period
    BY <1>2, <2>1 DEF Withdraw
  <2>5. RowsOf(id) = ListedIn(listing, id)
    BY DEF RowsOf, ListedIn
  <2>6. id \in DOMAIN period'
    BY <1>5, <2>4 DEF Now
  <2>7. QED
    BY <1>2, <1>3, <1>5, <2>3, <2>4, <2>5, <2>6 DEF Replacing
<1>6. ASSUME q.at = "offer" PROVE FALSE
  <2>1. InsertOffers(h)
    BY <1>6, Stages
  <2>2. Ends(h)
    BY <2>1 DEF InsertOffers
  <2>3. QED
    BY <2>2, Ended
<1>7. QED
  BY <1>4, <1>5, <1>6 DEF Replacing

-----------------------------------------------------------------------------
(* Bringing a new price to the current period *)

LEMMA CurrentAreOpen ==
    ASSUME NEW f
    PROVE  CurrentPeriods(f) \subseteq Open(f) /\ Open(f) \subseteq DOMAIN f
BY DEF CurrentPeriods, Open

\* When nothing is open, or nothing is the one current period, nothing has to be offered.
LEMMA NothingToReach ==
    ASSUME NEW id, NEW price, NEW t, NEW now, now.listing = t.listing,
           \A p : CurrentPeriods(now.period) # {p}
    PROVE  Reached(id, price, t, now)
BY DEF Reached

\* One row of a current period is saved or inserted.
LEMMA OneRowReaches ==
    ASSUME NEW id, NEW price, NEW t, NEW now,
           NEW p \in CurrentPeriods(now.period), NEW n \in 1..Copies,
           now.listing = Over(Row(<<p, id, n>>, price), t.listing),
           OfferedIn(t.listing, p, id) = {} \/ <<p, id, n>> \in DOMAIN t.listing
    PROVE  Reached(id, price, t, now)
<1>1. Open(now.period) # {}
  BY CurrentAreOpen
<1>2. <<p, id, n>> \in DOMAIN t.listing => <<p, id, n>> \in OfferedIn(t.listing, p, id)
  BY DEF OfferedIn
<1>3. \A x : CurrentPeriods(now.period) = {x} => x = p
  OBVIOUS
<1>4. QED
  BY <1>1, <1>2, <1>3 DEF Reached

\* The row of one new offer.
LEMMA OneNewRow ==
    ASSUME NEW p, NEW id, NEW price, RoomFor(p, Row(id, price))
    PROVE  \E n \in 1..Copies : NewRows(p, Row(id, price)) = Row(<<p, id, n>>, price)
<1> DEFINE offers == Row(id, price)
           free(a) == CHOOSE n \in 1..Copies : <<p, a, n>> \notin DOMAIN listing \cup Held
           n == free(id)
           x == <<p, id, n>>
<1>1. DOMAIN offers = {id} /\ offers[id] = price
  BY DEF Row
<1>2. n \in 1..Copies
  BY <1>1 DEF RoomFor
<1>3. NewRows(p, offers) = [r \in {<<p, a, free(a)>> : a \in DOMAIN offers} |-> offers[r[2]]]
  BY DEF NewRows
<1>4. {<<p, a, free(a)>> : a \in DOMAIN offers} = {x}
  BY <1>1
<1> HIDE DEF offers, free, n
<1>5. x[2] = id
  OBVIOUS
<1> HIDE DEF x
<1>6. [r \in {x} |-> offers[r[2]]] = Row(x, price)
  BY <1>1, <1>5 DEF Row
<1>7. NewRows(p, offers) = Row(x, price)
  BY <1>3, <1>4, <1>6
<1>8. QED
  BY <1>2, <1>7 DEF x, offers

LEMMA PriceGoesOn ==
    ASSUME Inv, Agreement, NEW h \in Handlers, Goon(h), handler[h].was # {},
           handler[h].request.kind = "update", handler[h].request.price \in Prices,
           NEW t, Pricing(handler[h], t, Now), handler'[h].was # {},
           Same(handler[h], handler'[h])
    PROVE  Pricing(handler'[h], t, Now')
<1> DEFINE q == handler[h]
           r == handler'[h]
           id == q.request.id
           price == q.request.price
<1>1. DOMAIN q = Fields /\ Working(q, used, kinds)
  BY Stages, AtWork DEF At, Working
<1>2. /\ r.request = q.request /\ q.lines = <<>>
      /\ id \in DOMAIN article /\ DOMAIN q.article = {id}
  BY DEF Pricing, Same, Now
<1>3. /\ Now.listing = listing /\ Now'.listing = listing'
      /\ Now.period = period /\ Now'.period = period'
      /\ Now.article = article /\ Now'.article = article'
  BY DEF Now
<1>4. NoChange => Now' = Now
  BY DEF NoChange, Now
<1>5. \A p : RowsFor(p, id) = OfferedIn(listing, p, id)
  BY DEF RowsFor, RowsOf, OfferedIn
<1>6. ASSUME q.at = "current", listing = t.listing PROVE Pricing(r, t, Now')
  <2>1. ReadCurrent(h)
    BY <1>6, Stages
  <2>2. Now' = Now
    BY <1>4, <2>1 DEF ReadCurrent
  <2>3. ASSUME Open(period) = {}, Goes(h, [q EXCEPT !.at = "write"]) PROVE Pricing(r, t, Now')
    <3>1. r.at = "write" /\ r.article = q.article /\ r.lines = q.lines
      BY <1>1, <2>3, MovesOn
    <3>2. \A p : CurrentPeriods(period) # {p}
      BY <2>3, CurrentAreOpen
    <3>3. Reached(id, price, t, Now)
      BY <1>3, <1>6, <3>2, NothingToReach
    <3>4. QED
      BY <1>2, <1>3, <2>2, <3>1, <3>3 DEF Pricing
  <2>4. ASSUME NEW p \in CurrentPeriods(period), RowsFor(p, id) = {},
               Goes(h, [q EXCEPT !.at = "again"])
        PROVE  Pricing(r, t, Now')
    <3>1. r.at = "again" /\ r.article = q.article /\ r.lines = q.lines
      BY <1>1, <2>4, MovesOn
    <3>2. \A x \in PeriodIds : CurrentPeriods(period) = {x} => OfferedIn(listing, x, id) = {}
      BY <1>5, <2>4
    <3>3. QED
      BY <1>2, <1>3, <1>6, <2>2, <3>1, <3>2 DEF Pricing
  <2>5. ASSUME NEW p \in CurrentPeriods(period), NEW row \in RowsFor(p, id),
               Goes(h, [q EXCEPT !.at = "list", !.listing = Row(row, price)])
        PROVE  Pricing(r, t, Now')
    <3>1. row \in DOMAIN listing /\ row \in ListingIds /\ row[1] = p /\ row[2] = id
      BY DEF Inv, TablesOK, ListingOK, RowsFor, RowsOf
    <3>2. PICK n \in 1..Copies : row = <<p, id, n>>
      BY <3>1 DEF ListingIds
    <3>3. handler'[h] = [q EXCEPT !.at = "list", !.listing = Row(row, price)]
      BY <2>5 DEF Goes
    <3>4. /\ r.at = "list" /\ r.listing = Row(row, price)
          /\ r.article = q.article /\ r.lines = q.lines
      BY <1>1, <3>3 DEF Fields
    <3>5. QED
      BY <1>2, <1>3, <1>6, <2>2, <3>1, <3>2, <3>4 DEF Pricing
  <2>6. QED
    BY <2>1, <2>3, <2>4, <2>5 DEF ReadCurrent
<1>7. ASSUME q.at = "again", listing = t.listing,
             \A p \in PeriodIds : CurrentPeriods(period) = {p} => OfferedIn(listing, p, id) = {}
      PROVE  Pricing(r, t, Now')
  <2>1. OfferInCurrent(h)
    BY <1>7, Stages
  <2>2. Now' = Now
    BY <1>4, <2>1 DEF OfferInCurrent
  <2>3. ASSUME Open(period) = {} \/ \E p \in CurrentPeriods(period) : RowsFor(p, id) # {},
               Goes(h, [q EXCEPT !.at = "write"])
        PROVE  Pricing(r, t, Now')
    <3>1. r.at = "write" /\ r.article = q.article /\ r.lines = q.lines
      BY <1>1, <2>3, MovesOn
    <3>2. \A p : CurrentPeriods(period) # {p}
      <4>1. CurrentPeriods(period) \subseteq PeriodIds
        BY CurrentAreOpen DEF Inv, TablesOK, PeriodsOK
      <4>2. QED
        BY <1>5, <1>7, <2>3, <4>1, CurrentAreOpen
    <3>3. Reached(id, price, t, Now)
      BY <1>3, <1>7, <3>2, NothingToReach
    <3>4. QED
      BY <1>2, <1>3, <2>2, <3>1, <3>3 DEF Pricing
  <2>4. ASSUME NEW p \in CurrentPeriods(period), RowsFor(p, id) = {},
               Goes(h, [q EXCEPT !.at = "offer", !.period = Row(p, period[p]),
                                 !.offers = Row(id, price)])
        PROVE  Pricing(r, t, Now')
    <3>1. handler'[h] = [q EXCEPT !.at = "offer", !.period = Row(p, period[p]),
                                  !.offers = Row(id, price)]
      BY <2>4 DEF Goes
    <3>2. /\ r.at = "offer" /\ r.offers = Row(id, price) /\ r.period = Row(p, period[p])
          /\ r.article = q.article /\ r.lines = q.lines
      BY <1>1, <3>1 DEF Fields
    <3>3. DOMAIN r.period = {p} /\ OfferedIn(listing, p, id) = {}
      BY <1>5, <2>4, <3>2 DEF Row
    <3>4. QED
      BY <1>2, <1>3, <1>7, <2>2, <3>2, <3>3 DEF Pricing
  <2>5. QED
    BY <2>1, <2>3, <2>4 DEF OfferInCurrent
<1>8. ASSUME q.at = "list", listing = t.listing,
             NEW p \in CurrentPeriods(period), NEW n \in 1..Copies,
             <<p, id, n>> \in DOMAIN listing, q.listing = Row(<<p, id, n>>, price)
      PROVE  Pricing(r, t, Now')
  <2> DEFINE x == <<p, id, n>>
  <2>1. SaveOffer(h)
    BY <1>8, Stages
  <2>2. DOMAIN q.listing = {x} /\ Refers(x) /\ q.listing = Row(x, price)
    BY <1>8 DEF Row, Inv, TablesOK
  <2>3. x \in DOMAIN listing
    BY <1>8
  <2> HIDE DEF x
  <2>4. /\ listing' = Over(Row(x, price), listing) /\ article' = article /\ period' = period
        /\ Goes(h, [q EXCEPT !.at = "confirm"])
    BY <2>1, <2>2, <2>3, FreshOffer
  <2> USE DEF x
  <2>5. /\ r.at = "confirm" /\ r.listing = q.listing /\ r.article = q.article
        /\ r.lines = q.lines
    BY <1>1, <2>4, MovesOn
  <2>6. Reached(id, price, t, Now')
    BY <1>3, <1>8, <2>4, OneRowReaches
  <2>7. \A y \in DOMAIN r.listing : y[1] \in DOMAIN period'
    BY <2>2, <2>4, <2>5 DEF Refers
  <2>8. QED
    BY <1>2, <1>3, <2>4, <2>5, <2>6, <2>7 DEF Pricing
<1>9. ASSUME q.at = "confirm", Reached(id, price, t, Now),
             \A x \in DOMAIN q.listing : x[1] \in DOMAIN period
      PROVE  Pricing(r, t, Now')
  <2>1. Confirm(h)
    BY <1>9, Stages
  <2>2. Now' = Now
    BY <1>4, <2>1 DEF Confirm
  <2>3. handler'[h] = [q EXCEPT !.at = "write", !.listing = Empty]
    BY <1>9, <2>1 DEF Confirm, Goes
  <2>4. r.at = "write" /\ r.article = q.article /\ r.lines = q.lines
    BY <1>1, <2>3 DEF Fields
  <2>5. QED
    BY <1>2, <1>3, <1>9, <2>2, <2>4 DEF Pricing
<1>10. ASSUME q.at = "offer", listing = t.listing, q.offers = Row(id, price),
              NEW p \in CurrentPeriods(period), DOMAIN q.period = {p},
              OfferedIn(listing, p, id) = {}
       PROVE  Pricing(r, t, Now')
  <2>1. InsertOffers(h)
    BY <1>10, Stages
  <2>2. RoomFor(p, Row(id, price)) /\ SaveListing(NewRows(p, Row(id, price)))
    BY <1>10, <2>1 DEF InsertOffers
  <2>3. PICK n \in 1..Copies : NewRows(p, Row(id, price)) = Row(<<p, id, n>>, price)
    BY <2>2, OneNewRow
  <2>4. p \in DOMAIN period
    BY CurrentAreOpen
  <2>5. \A x \in DOMAIN Row(<<p, id, n>>, price) : Refers(x)
    BY <1>2, <2>4 DEF Row, Refers
  <2>6. /\ listing' = Over(Row(<<p, id, n>>, price), listing)
        /\ article' = article /\ period' = period
    BY <2>2, <2>3, <2>5 DEF SaveListing
  <2>7. Reached(id, price, t, Now')
    BY <1>3, <1>10, <2>6, OneRowReaches
  <2>8. handler'[h] = [q EXCEPT !.at = "write", !.period = Empty, !.offers = Empty]
    BY <2>1 DEF InsertOffers, Goes
  <2>9. r.at = "write" /\ r.article = q.article /\ r.lines = q.lines
    BY <1>1, <2>8 DEF Fields
  <2>10. QED
    BY <1>2, <1>3, <2>6, <2>7, <2>9 DEF Pricing
<1>11. ASSUME q.at = "write", Reached(id, price, t, Now) PROVE Pricing(r, t, Now')
  <2> DEFINE row == Changed(q.article[id], q.request)
  <2>1. Write(h)
    BY <1>11, Stages
  <2>2. row \in ArticleRow /\ row.price = price
    <3> DEFINE old == q.article[id]
               request == q.request
    <3>1. /\ GoodRow(old, kinds) /\ SentOK(request.sent)
          /\ request.clear => "clear" \in kinds
      BY <1>1, <1>2, <1>11 DEF Working, Updating, UpdateOK, ArticlesOK
    <3>2. request.price \in Prices
      OBVIOUS
    <3> HIDE DEF old, request
    <3>3. /\ GoodRow(Changed(old, request), kinds)
          /\ Changed(old, request).price = request.price
      BY <3>1, <3>2, ChangedGood
    <3>4. QED
      BY <3>3 DEF old, request, GoodRow
  <2>3. PICK found, sent :
           /\ found \in loaded[h] /\ SaveArticle(found.article, id, row, sent)
           /\ ~Refused(article, found.article, id) =>
                 Goes(h, [q EXCEPT !.at = "record", !.article = Row(id, row)])
    BY <2>1 DEF Write
  <2> HIDE DEF row
  <2>4. /\ article' = Over(Row(id, row), article)
        /\ listing' = listing /\ period' = period
        /\ Goes(h, [q EXCEPT !.at = "record", !.article = Row(id, row)])
    BY <1>2, <2>2, <2>3, FreshArticle
  <2>5. handler'[h] = [q EXCEPT !.at = "record", !.article = Row(id, row)]
    BY <2>4 DEF Goes
  <2>6. r.at = "record" /\ r.article = Row(id, row) /\ r.lines = q.lines
    BY <1>1, <2>5 DEF Fields
  <2>7. DOMAIN r.article = {id} /\ r.article[id].price = price
    BY <2>2, <2>6 DEF Row
  <2>8. id \in DOMAIN article' /\ article'[id].price = price
    BY <2>2, <2>4 DEF Over, Row
  <2>9. Reached(id, price, t, Now')
    BY <1>3, <1>11, <2>4 DEF Reached
  <2>10. QED
    BY <1>2, <1>3, <2>6, <2>7, <2>8, <2>9 DEF Pricing
<1>12. ASSUME q.at = "record" PROVE FALSE
  <2>1. SavePriceHistory(h)
    BY <1>12, Stages
  <2>2. ~(Len(q.lines) > 1)
    BY <1>2
  <2>3. Ends(h)
    BY <2>1, <2>2 DEF SavePriceHistory, NextLine
  <2>4. QED
    BY <2>3, Ended
<1>13. QED
  BY <1>3, <1>6, <1>7, <1>8, <1>9, <1>10, <1>11, <1>12 DEF Pricing

-----------------------------------------------------------------------------
(* Merging the articles of one name *)

\* The articles when of the names in left that of keep has been merged, and its others are
\* still there.
KeptOf(was, left, keep) ==
    [a \in left \cup (Oldest(was) \ left) |->
       IF a = keep \/ a \in Oldest(was) \ left
       THEN [was[a] EXCEPT !.name = Norm[@]] ELSE was[a]]

\* One name is merged: its oldest article is done, the others are to be removed.
LEMMA OneNameMerged ==
    ASSUME NEW was, DOMAIN was \subseteq ArticleIds, NEW left \in SUBSET DOMAIN was,
           \A a \in left, b \in DOMAIN was : Norm[was[b].name] = Norm[was[a].name] => b \in left,
           NEW keep \in left, NEW same,
           same \subseteq left,
           \A a \in left : a \in same <=> Norm[was[a].name] = Norm[was[keep].name],
           \A a \in same : keep <= a
    PROVE  /\ keep \in Oldest(was)
           /\ same \ {keep} \subseteq DOMAIN was \ ((left \ same) \cup Oldest(was))
           /\ Merged(was, left \ same, same \ {keep}) = KeptOf(was, left, keep)
<1>1. DOMAIN was \subseteq Nat
  BY CatalogueAssumption
<1>2. \A b \in DOMAIN was : Norm[was[b].name] = Norm[was[keep].name] => b \in same
  OBVIOUS
<1>3. keep \in Oldest(was)
  BY <1>2 DEF Oldest
<1>4. ASSUME NEW a \in same \cap Oldest(was) PROVE a = keep
  <2>1. a \in Nat /\ keep \in Nat /\ keep <= a
    BY <1>1
  <2>2. a <= keep
    BY DEF Oldest
  <2>3. QED
    BY <2>1, <2>2
<1>5. Oldest(was) \ (left \ same) = (Oldest(was) \ left) \cup {keep}
  BY <1>3, <1>4
<1>6. (left \ same) \cup (same \ {keep}) \cup (Oldest(was) \ (left \ same))
        = left \cup (Oldest(was) \ left)
  BY <1>5
<1> DEFINE old == Oldest(was)
           D == (left \ same) \cup (same \ {keep}) \cup (old \ (left \ same))
<1>7. Merged(was, left \ same, same \ {keep})
        = [a \in D |-> IF a \in old \ (left \ same)
                       THEN [was[a] EXCEPT !.name = Norm[@]] ELSE was[a]]
  BY DEF Merged
<1>8. D = left \cup (old \ left) /\ old \ (left \ same) = (old \ left) \cup {keep}
  BY <1>5, <1>6
<1>9. same \ {keep} \subseteq DOMAIN was \ ((left \ same) \cup old)
  BY <1>4
<1> HIDE DEF D, old
<1>10. Merged(was, left \ same, same \ {keep})
        = [a \in left \cup (old \ left) |->
             IF a = keep \/ a \in old \ left
             THEN [was[a] EXCEPT !.name = Norm[@]] ELSE was[a]]
  BY <1>7, <1>8
<1>11. QED
  BY <1>3, <1>9, <1>10 DEF old, KeptOf

LEMMA OneDuplicateRemoved ==
    ASSUME NEW was, NEW left, NEW ids,
           NEW a \in ids, ids \subseteq DOMAIN was \ (left \cup Oldest(was))
    PROVE  Without(Merged(was, left, ids), {a}) = Merged(was, left, ids \ {a})
<1> DEFINE done == Oldest(was) \ left
           val(x) == IF x \in done THEN [was[x] EXCEPT !.name = Norm[@]] ELSE was[x]
           f == Merged(was, left, ids)
<1>1. /\ f = [x \in left \cup ids \cup done |-> val(x)]
      /\ Merged(was, left, ids \ {a}) = [x \in left \cup (ids \ {a}) \cup done |-> val(x)]
  BY DEF Merged
<1>2. (left \cup ids \cup done) \ {a} = left \cup (ids \ {a}) \cup done
  OBVIOUS
<1> HIDE DEF val, f, done
<1>3. Without(f, {a}) = [x \in (left \cup ids \cup done) \ {a} |-> val(x)]
  BY <1>1 DEF Without
<1>4. QED
  BY <1>1, <1>2, <1>3 DEF f

\* What is in the table after one name is merged, be the kept article saved or not.
LEMMA KeptIsSaved ==
    ASSUME NEW was, NEW left \in SUBSET DOMAIN was, NEW keep \in left,
           was[keep] \in ArticleRow, NEW f, f = Merged(was, left, {}),
           NEW g, \/ g = f /\ was[keep].name = Norm[was[keep].name]
                  \/ g = Over(Row(keep, [was[keep] EXCEPT !.name = Norm[was[keep].name]]), f)
    PROVE  g = KeptOf(was, left, keep)
<1> DEFINE done == Oldest(was) \ left
           D == left \cup done
           row == [was[keep] EXCEPT !.name = Norm[was[keep].name]]
           val(a) == IF a \in done THEN [was[a] EXCEPT !.name = Norm[@]] ELSE was[a]
           new(a) == IF a = keep \/ a \in done
                     THEN [was[a] EXCEPT !.name = Norm[@]] ELSE was[a]
<1>1. f = [a \in D |-> val(a)]
  BY DEF Merged
<1>2. keep \in D /\ new(keep) = row /\ val(keep) = was[keep]
  OBVIOUS
<1>3. \A a \in D : a # keep => new(a) = val(a)
  OBVIOUS
<1>4. was[keep].name = Norm[was[keep].name] => row = was[keep]
  BY DEF ArticleRow
<1> HIDE DEF D, val, new, row
<1>5. CASE g = f /\ was[keep].name = Norm[was[keep].name]
  <2>1. \A a \in D : new(a) = val(a)
    BY <1>2, <1>3, <1>4, <1>5
  <2>2. g = [a \in D |-> new(a)]
    BY <1>1, <1>5, <2>1
  <2>3. QED
    BY <2>2 DEF D, new, KeptOf
<1>6. CASE g = Over(Row(keep, row), f)
  <2>1. /\ DOMAIN Row(keep, row) = {keep} /\ Row(keep, row)[keep] = row
        /\ DOMAIN f = D /\ \A a \in D : f[a] = val(a)
    BY <1>1 DEF Row
  <2>2. {keep} \cup D = D
    BY <1>2
  <2>3. g = [a \in D |-> IF a \in {keep} THEN row ELSE f[a]]
    BY <1>6, <2>1, <2>2 DEF Over
  <2>4. \A a \in D : new(a) = IF a \in {keep} THEN row ELSE f[a]
    BY <1>2, <1>3, <2>1
  <2>5. g = [a \in D |-> new(a)]
    BY <2>3, <2>4
  <2>6. QED
    BY <2>5 DEF D, new, KeptOf
<1>7. QED
  BY <1>5, <1>6 DEF row

\* The steps of a normalisation: it goes on as a normalisation, or leaves the oldest of
\* each name.
LEMMA MergeMerges ==
    ASSUME Inv, Agreement, NEW h \in Handlers, Merge(h), handler[h].was # {},
           NEW t, Merging(handler[h], t, Now),
           DOMAIN handler[h] = Fields, ArticlesOK(handler[h].article, used, kinds)
    PROVE  IF Ends(h) THEN article' = Merged(t.article, {}, {})
           ELSE Same(handler[h], handler'[h]) => Merging(handler'[h], t, Now')
<1> DEFINE q == handler[h]
           r == handler'[h]
           was == t.article
           rows == q.article
           left == DOMAIN rows
<1>1. /\ DOMAIN was \subseteq ArticleIds
      /\ left \subseteq DOMAIN was /\ \A a \in left : rows[a] = was[a]
      /\ \A a \in left, b \in DOMAIN was : Norm[was[b].name] = Norm[was[a].name] => b \in left
      /\ Now.article = Merged(was, left, q.ids)
  BY DEF Merging
<1>2. article = Merged(was, left, {})
  BY <1>1 DEF Merge, Now
<1>3. PICK keep \in left, same \in SUBSET left :
         /\ same = {a \in left : Norm[rows[a].name] = Norm[rows[keep].name]}
         /\ \A a \in same : keep <= a
         /\ \/ rows[keep].name = Norm[rows[keep].name] /\ article' = article
            \/ article' = Over(Row(keep, [rows[keep] EXCEPT !.name = Norm[rows[keep].name]]),
                               article)
         /\ \/ Without(rows, same) = Empty /\ same = {keep} /\ Ends(h)
            \/ Goes(h, [q EXCEPT !.article = Without(rows, same), !.ids = same \ {keep}])
  <2>1. PICK keep \in left : LET same == {a \in left : Norm[rows[a].name] = Norm[rows[keep].name]}
                                 rest == Without(rows, same)
                                 name == Norm[rows[keep].name]
           IN
         /\ \A a \in same : keep <= a
         /\ IF rows[keep].name = name THEN NoChange /\ NextName(h, rest, same \ {keep})
            ELSE \E found \in loaded[h] :
               /\ SaveArticle(found.article, keep, [rows[keep] EXCEPT !.name = name], {})
               /\ IF Refused(article, found.article, keep) THEN Ends(h)
                  ELSE NextName(h, rest, same \ {keep})
    BY DEF Merge
  <2> DEFINE same == {a \in left : Norm[rows[a].name] = Norm[rows[keep].name]}
             rest == Without(rows, same)
             row == [rows[keep] EXCEPT !.name = Norm[rows[keep].name]]
  <2>2. DOMAIN rest = {} => rest = Empty
    BY DEF Without, Empty
  <2>3. same \in SUBSET left /\ keep \in same
    OBVIOUS
  <2>4. row \in ArticleRow
    <3> DEFINE old == rows[keep]
    <3>1. GoodRow(old, kinds)
      BY DEF ArticlesOK
    <3> HIDE DEF old
    <3>2. [old EXCEPT !.name = Norm[old.name]] \in ArticleRow
      BY <3>1, NormKeepsGood DEF GoodRow
    <3>3. QED
      BY <3>2 DEF old
  <2> HIDE DEF rest, row
  <2>5. \/ rows[keep].name = Norm[rows[keep].name] /\ article' = article
        \/ article' = Over(Row(keep, row), article)
    BY <2>1, <2>4, FreshArticle DEF NoChange, row
  <2>6. NextName(h, rest, same \ {keep})
    BY <2>1, <2>4, FreshArticle DEF rest, row
  <2>7. \/ rest = Empty /\ same = {keep} /\ Ends(h)
        \/ Goes(h, [q EXCEPT !.article = rest, !.ids = same \ {keep}])
    BY <2>2, <2>3, <2>6 DEF NextName
  <2>8. QED
    BY <2>1, <2>3, <2>5, <2>7 DEF rest, row
<1>4. /\ same \subseteq left
      /\ \A a \in left : a \in same <=> Norm[was[a].name] = Norm[was[keep].name]
  BY <1>1, <1>3
<1>5. was[keep] = rows[keep] /\ was[keep] \in ArticleRow
  BY <1>1 DEF ArticlesOK, GoodRow
<1>6. \/ article' = article /\ was[keep].name = Norm[was[keep].name]
      \/ article' = Over(Row(keep, [was[keep] EXCEPT !.name = Norm[was[keep].name]]), article)
  BY <1>3, <1>5
<1>7. article' = KeptOf(was, left, keep)
  BY <1>1, <1>2, <1>5, <1>6, KeptIsSaved
<1>8. /\ same \ {keep} \subseteq DOMAIN was \ ((left \ same) \cup Oldest(was))
      /\ Merged(was, left \ same, same \ {keep}) = KeptOf(was, left, keep)
  <2>1. \A a \in same : keep <= a
    BY <1>3
  <2>2. left \in SUBSET DOMAIN was /\ keep \in left
    BY <1>1
  <2>3. DOMAIN was \subseteq ArticleIds
    BY <1>1
  <2>4. \A a \in left, b \in DOMAIN was : Norm[was[b].name] = Norm[was[a].name] => b \in left
    BY <1>1
  <2>5. same \subseteq left
    BY <1>4
  <2>6. \A a \in left : a \in same <=> Norm[was[a].name] = Norm[was[keep].name]
    BY <1>4
  <2> HIDE DEF left, was
  <2>7. QED
    BY <2>1, <2>2, <2>3, <2>4, <2>5, <2>6, OneNameMerged, Zenon
<1>9. article' = Merged(was, left \ same, same \ {keep})
  BY <1>7, <1>8
<1>10. CASE Without(rows, same) = Empty /\ same = {keep} /\ Ends(h)
  <2>1. DOMAIN Without(rows, same) = left \ same /\ DOMAIN Empty = {}
    BY DEF Without, Empty
  <2>2. left \ same = {} /\ same \ {keep} = {}
    BY <1>10, <2>1
  <2>3. QED
    BY <1>9, <1>10, <2>2
<1>11. ASSUME Goes(h, [q EXCEPT !.article = Without(rows, same), !.ids = same \ {keep}])
       PROVE  /\ ~Ends(h)
              /\ Same(q, r) => Merging(r, t, Now')
  <2> DEFINE f == Without(rows, same)
             s == [q EXCEPT !.article = f, !.ids = same \ {keep}]
  <2>1. r = s
    BY <1>11 DEF Goes
  <2>2. DOMAIN f = left \ same /\ \A a \in DOMAIN f : f[a] = rows[a]
    BY DEF Without
  <2>3. q.at = "merge" /\ DOMAIN q = Fields
    BY DEF Merging
  <2> HIDE DEF f, q
  <2>4. /\ s.article = f /\ s.ids = same \ {keep} /\ s.at = "merge"
        /\ DOMAIN s = Fields
    BY <2>3 DEF Fields
  <2> HIDE DEF s
  <2>5. r # Idle
    BY <2>1, <2>4 DEF Idle, Fields
  <2>6. ~Ends(h)
    BY <2>5 DEF Ends, Goes
  <2>7. \A a \in left \ same, b \in DOMAIN was :
           Norm[was[b].name] = Norm[was[a].name] => b \in left \ same
    BY <1>1, <1>4
  <2>8. Now'.article = Merged(was, left \ same, same \ {keep})
    BY <1>9 DEF Now
  <2>9. r.article = f /\ r.ids = same \ {keep} /\ r.at = "merge"
    BY <2>1, <2>4
  <2>10. /\ DOMAIN r.article = left \ same /\ left \ same \subseteq DOMAIN was
         /\ \A a \in left \ same : r.article[a] = was[a]
    BY <1>1, <2>2, <2>9
  <2>11. Merging(r, t, Now')
    <3> HIDE DEF r, was, left
    <3>1. Merging(r, t, Now') <=>
            /\ r.at = "merge"
            /\ DOMAIN was \subseteq ArticleIds
            /\ DOMAIN r.article \subseteq DOMAIN was
            /\ \A a \in DOMAIN r.article : r.article[a] = was[a]
            /\ \A a \in DOMAIN r.article, b \in DOMAIN was :
                  Norm[was[b].name] = Norm[was[a].name] => b \in DOMAIN r.article
            /\ r.ids \subseteq DOMAIN was \ (DOMAIN r.article \cup Oldest(was))
            /\ Now'.article = Merged(was, DOMAIN r.article, r.ids)
      BY DEF Merging, was
    <3>2. QED
      BY <3>1, <1>1, <1>8, <2>7, <2>8, <2>9, <2>10
  <2>12. QED
    BY <2>6, <2>11
<1>12. QED
  BY <1>3, <1>10, <1>11

LEMMA RemovalMerges ==
    ASSUME Inv, NEW h \in Handlers, RemoveDuplicate(h), NEW t, Merging(handler[h], t, Now),
           DOMAIN handler[h] = Fields
    PROVE  IF Ends(h) THEN article' = Merged(t.article, {}, {})
           ELSE Merging(handler'[h], t, Now')
<1> DEFINE q == handler[h]
           r == handler'[h]
           was == t.article
           left == DOMAIN q.article
           a == Min(q.ids)
<1>1. /\ DOMAIN was \subseteq ArticleIds
      /\ left \subseteq DOMAIN was /\ \A b \in left : q.article[b] = was[b]
      /\ \A c \in left, b \in DOMAIN was : Norm[was[b].name] = Norm[was[c].name] => b \in left
      /\ q.ids \subseteq DOMAIN was \ (left \cup Oldest(was))
      /\ article = Merged(was, left, q.ids)
      /\ q.at = "merge"
  BY DEF Merging, Now
<1>2. a \in q.ids
  <2>1. q.ids \subseteq Nat /\ q.ids # {}
    BY <1>1, CatalogueAssumption DEF RemoveDuplicate
  <2>2. QED
    BY <2>1, LeastOf
<1>3. /\ article' = Without(article, {a})
      /\ \/ Ends(h) /\ q.ids = {a} /\ left = {}
         \/ Goes(h, [q EXCEPT !.ids = @ \ {a}])
  BY DEF RemoveDuplicate, RemoveArticles
<1> HIDE DEF a
<1>4. article' = Merged(was, left, q.ids \ {a})
  BY <1>1, <1>2, <1>3, OneDuplicateRemoved
<1>5. CASE Ends(h) /\ q.ids = {a} /\ left = {}
  <2>1. q.ids \ {a} = {}
    BY <1>5
  <2>2. QED
    BY <1>4, <1>5, <2>1
<1>6. ASSUME Goes(h, [q EXCEPT !.ids = @ \ {a}]) PROVE ~Ends(h) /\ Merging(r, t, Now')
  <2> DEFINE s == [q EXCEPT !.ids = @ \ {a}]
  <2>1. r = s
    BY <1>6 DEF Goes
  <2>2. DOMAIN q = Fields
    OBVIOUS
  <2> HIDE DEF q
  <2>3. /\ s.article = q.article /\ s.ids = q.ids \ {a} /\ s.at = q.at
        /\ DOMAIN s = Fields
    BY <2>2 DEF Fields
  <2> HIDE DEF s
  <2>4. r # Idle
    BY <2>1, <2>3 DEF Idle, Fields
  <2>5. ~Ends(h)
    BY <2>4 DEF Ends, Goes
  <2>6. Now'.article = Merged(was, left, q.ids \ {a})
    BY <1>4 DEF Now
  <2>7. r.article = q.article /\ r.ids = q.ids \ {a} /\ r.at = "merge"
    BY <1>1, <2>1, <2>3
  <2>8. QED
    BY <1>1, <2>5, <2>6, <2>7 DEF Merging
<1>7. QED
  BY <1>3, <1>5, <1>6

-----------------------------------------------------------------------------
(* Importing lines *)

LEMMA KeysAreHashes ==
    ASSUME NEW line \in Line
    PROVE  KeyOf(line) \in Hashes /\ line.price \in Prices
BY DEF Line, KeyOf, Hashes

\* One more line: an article with its hash gets its price, or a new one is made when there
\* is none.
LEMMA OneLineStored ==
    ASSUME NEW lines \in Seq(Line), NEW i \in 1..Len(lines), NEW was, NEW rows,
           Stored(lines, i - 1, was, rows),
           NEW a, NEW f, DOMAIN f = DOMAIN rows \cup {a},
           \A x \in DOMAIN rows : x # a => f[x] = rows[x],
           f[a].hash = KeyOf(lines[i]), f[a].price = lines[i].price,
           \/ a \in Having(rows, KeyOf(lines[i])) /\ f[a].name = rows[a].name
           \/ a \notin DOMAIN rows /\ Having(rows, KeyOf(lines[i])) = {}
    PROVE  /\ Stored(lines, i, was, f)
           /\ \A hash : Having(rows, hash) \subseteq Having(f, hash)
           /\ a \in Having(f, KeyOf(lines[i]))
<1> DEFINE key == KeyOf(lines[i])
           K(j) == KeyOf(lines[j])
<1>1. i \in Nat /\ i >= 1 /\ Len(lines) \in Nat /\ lines[i] \in Line
  BY LenProperties
<1>2. key \in Hashes
  BY <1>1, KeysAreHashes
<1>3. \A j : j \in 1..i <=> (j \in 1..(i - 1) \/ j = i)
  BY <1>1
<1>4. /\ \A j \in 1..(i - 1) :
            /\ IF Having(was, K(j)) = {} THEN \E x \in Having(rows, K(j)) : Having(rows, K(j)) = {x}
               ELSE Having(rows, K(j)) = Having(was, K(j))
            /\ (\A m \in j + 1..(i - 1) : K(m) # K(j))
                  => \E x \in Having(rows, K(j)) : rows[x].price = lines[j].price
      /\ \A hash \in Hashes : (\A j \in 1..(i - 1) : K(j) # hash)
            => Having(rows, hash) = Having(was, hash)
      /\ \A x \in DOMAIN was :
            /\ x \in DOMAIN rows /\ rows[x].hash = was[x].hash /\ rows[x].name = was[x].name
            /\ (\A j \in 1..(i - 1) : was[x].hash # K(j)) => rows[x] = was[x]
  BY DEF Stored
<1>5. a \in Having(rows, key) \/ Having(rows, key) = {}
  OBVIOUS
<1>6. a \in DOMAIN rows <=> a \in Having(rows, key)
  BY DEF Having
<1>7. \A hash : hash # key => Having(f, hash) = Having(rows, hash)
  BY <1>6 DEF Having
<1>8. Having(f, key) = Having(rows, key) \cup {a}
  BY <1>6 DEF Having
<1>9. \A j \in 1..(i - 1) : Having(rows, K(j)) # {}
  BY <1>4
<1> HIDE DEF key, K
<1>10. ASSUME NEW j \in 1..i
       PROVE  IF Having(was, K(j)) = {} THEN \E x \in Having(f, K(j)) : Having(f, K(j)) = {x}
              ELSE Having(f, K(j)) = Having(was, K(j))
  <2>1. CASE K(j) # key
    <3>1. j \in 1..(i - 1)
      BY <1>3, <2>1 DEF K, key
    <3>2. QED
      BY <3>1, <2>1, <1>4, <1>7
  <2>2. ASSUME K(j) = key, NEW m \in 1..(i - 1), K(m) = key
        PROVE  IF Having(was, K(j)) = {} THEN \E x \in Having(f, K(j)) : Having(f, K(j)) = {x}
               ELSE Having(f, K(j)) = Having(was, K(j))
    <3>1. a \in Having(rows, key)
      BY <1>5, <1>9, <2>2
    <3>2. Having(f, key) = Having(rows, key)
      BY <1>8, <3>1
    <3>3. QED
      BY <3>2, <2>2, <1>4
  <2>3. ASSUME K(j) = key, \A m \in 1..(i - 1) : K(m) # key
        PROVE  IF Having(was, K(j)) = {} THEN \E x \in Having(f, K(j)) : Having(f, K(j)) = {x}
               ELSE Having(f, K(j)) = Having(was, K(j))
    <3>1. Having(rows, key) = Having(was, key)
      BY <2>3, <1>2, <1>4
    <3>2. CASE Having(rows, key) = {}
      BY <3>1, <3>2, <2>3, <1>8
    <3>3. CASE Having(rows, key) # {}
      <4>1. Having(f, key) = Having(rows, key)
        BY <1>5, <1>8, <3>3
      <4>2. QED
        BY <4>1, <3>1, <3>3, <2>3
    <3>4. QED
      BY <3>2, <3>3
  <2>4. QED
    BY <2>1, <2>2, <2>3
<1>11. ASSUME NEW j \in 1..i, \A m \in j + 1..i : K(m) # K(j)
       PROVE  \E x \in Having(f, K(j)) : f[x].price = lines[j].price
  <2>1. CASE j = i
    BY <2>1, <1>8 DEF K, key
  <2>2. CASE j # i
    <3>1. j \in 1..(i - 1) /\ i \in j + 1..i /\ \A m \in j + 1..(i - 1) : m \in j + 1..i
      BY <1>1, <2>2
    <3>2. K(j) # key
      BY <1>11, <3>1 DEF K, key
    <3>3. PICK x \in Having(rows, K(j)) : rows[x].price = lines[j].price
      BY <1>4, <1>11, <3>1
    <3>4. x \in DOMAIN rows /\ rows[x].hash # key /\ rows[x].hash = K(j)
      BY <3>2, <3>3 DEF Having
    <3>5. x # a
      BY <3>4, <1>6 DEF Having
    <3>6. QED
      BY <3>2, <3>3, <3>4, <3>5, <1>7
  <2>3. QED
    BY <2>1, <2>2
<1>12. ASSUME NEW hash \in Hashes, \A j \in 1..i : K(j) # hash
       PROVE  Having(f, hash) = Having(was, hash)
  <2>1. hash # key /\ \A j \in 1..(i - 1) : K(j) # hash
    BY <1>1, <1>3, <1>12 DEF K, key
  <2>2. QED
    BY <2>1, <1>4, <1>7
<1>13. ASSUME NEW x \in DOMAIN was
       PROVE  /\ x \in DOMAIN f /\ f[x].hash = was[x].hash /\ f[x].name = was[x].name
              /\ (\A j \in 1..i : was[x].hash # K(j)) => f[x] = was[x]
  <2>1. x \in DOMAIN rows
    BY <1>4
  <2>2. CASE x # a
    <3>1. f[x] = rows[x]
      BY <2>1, <2>2
    <3>2. (\A j \in 1..i : was[x].hash # K(j)) => \A j \in 1..(i - 1) : was[x].hash # K(j)
      BY <1>3
    <3>3. QED
      BY <3>1, <3>2, <2>1, <1>4
  <2>3. CASE x = a
    <3>1. a \in Having(rows, key)
      BY <2>1, <2>3, <1>6
    <3>2. rows[a].hash = key /\ f[a].name = rows[a].name /\ f[a].hash = key
      BY <3>1 DEF Having, key
    <3>3. was[x].hash = K(i) /\ i \in 1..i
      BY <3>2, <2>3, <1>1, <1>4 DEF K, key
    <3>4. QED
      BY <3>2, <3>3, <2>1, <2>3, <1>4 DEF K, key
  <2>4. QED
    BY <2>2, <2>3
<1>14. Stored(lines, i, was, f)
  BY <1>10, <1>11, <1>12, <1>13 DEF Stored, K
<1>15. \A hash : Having(rows, hash) \subseteq Having(f, hash)
  BY <1>7, <1>8
<1>16. QED
  BY <1>8, <1>14, <1>15 DEF key

\* Prices stay recorded as long as articles and records stay.
LEMMA StaysRecorded ==
    ASSUME NEW lines, NEW k, NEW now, NEW next, Recorded(lines, k, now),
           \A hash : Having(now.article, hash) \subseteq Having(next.article, hash),
           now.history \subseteq next.history
    PROVE  Recorded(lines, k, next)
BY DEF Recorded

LEMMA ImportGoesOn ==
    ASSUME Inv, Agreement, NEW h \in Handlers, Goon(h), handler[h].was # {},
           handler[h].request.kind = "import", NEW t, Importing(handler[h], t, Now),
           Ends(h) \/ Same(handler[h], handler'[h])
    PROVE  IF Ends(h) THEN /\ Stored(handler[h].request.lines, Len(handler[h].request.lines),
                                     t.article, article')
                           /\ Recorded(handler[h].request.lines,
                                       Len(handler[h].request.lines), Now')
           ELSE Importing(handler'[h], t, Now')
<1> DEFINE q == handler[h]
           r == handler'[h]
           lines == q.request.lines
           was == t.article
<1>1. DOMAIN q = Fields /\ Working(q, used, kinds)
  BY Stages, AtWork DEF At, Working
<1>2. ~Ends(h) => r.request = q.request
  BY DEF Same
<1>3. /\ Now.article = article /\ Now'.article = article'
      /\ Now.history = history /\ Now'.history = history'
  BY DEF Now
<1>4. NoChange => Now' = Now
  BY DEF NoChange, Now
<1>5. PICK i \in 1..Len(lines) :
         /\ lines \in Seq(Line)
         /\ Len(q.lines) = Len(lines) - i + 1
         /\ \A j \in 1..Len(q.lines) : q.lines[j] = lines[i + j - 1]
         /\ Recorded(lines, i - 1, Now)
         /\ \/ q.at = "find" /\ Stored(lines, i - 1, was, article)
            \/ /\ q.at = "insert" /\ Stored(lines, i - 1, was, article)
               /\ Having(article, KeyOf(lines[i])) = {}
            \/ /\ q.at = "price" /\ Stored(lines, i - 1, was, article)
               /\ \E a \in Having(article, KeyOf(lines[i])) :
                     q.article = Row(a, [article[a] EXCEPT !.price = lines[i].price])
            \/ /\ q.at = "record" /\ Stored(lines, i, was, article)
               /\ \E a \in Having(article, KeyOf(lines[i])) :
                     DOMAIN q.article = {a} /\ q.article[a].price = lines[i].price
  BY <1>3 DEF Importing
<1> DEFINE key == KeyOf(lines[i])
           row(a) == [article[a] EXCEPT !.price = lines[i].price]
<1>6. Head(q.lines) = lines[i]
  <2>1. i \in Nat /\ i >= 1 /\ i <= Len(lines) /\ Len(lines) \in Nat
    BY <1>5, LenProperties
  <2>2. 1 \in 1..Len(q.lines) /\ i + 1 - 1 = i
    BY <1>5, <2>1
  <2>3. q.lines[1] = lines[i]
    BY <1>5, <2>2
  <2>4. q.lines \in Seq(Line) /\ q.lines # <<>>
    <3>1. q.lines \in Seq(Line)
      BY <1>1 DEF Working
    <3>2. QED
      BY <3>1, <2>2
  <2>5. QED
    BY <2>3, <2>4, HeadTailProperties
<1>7. key = HashKey[lines[i].name]
  BY DEF KeyOf
<1>8. \A a \in DOMAIN article : article[a] \in ArticleRow
  BY DEF Inv, TablesOK, ArticlesOK, GoodRow
\* On to another statement for the same line.
<1>9. ASSUME NEW at, r.at = at, ~Ends(h), r.lines = q.lines,
             at # "record" => Stored(lines, i - 1, was, article'),
             at = "record" => Stored(lines, i, was, article'),
             Recorded(lines, i - 1, Now'),
             \/ at = "find"
             \/ at = "insert" /\ Having(article', key) = {}
             \/ /\ at = "price"
                /\ \E a \in Having(article', key) :
                      r.article = Row(a, [article'[a] EXCEPT !.price = lines[i].price])
             \/ /\ at = "record"
                /\ \E a \in Having(article', key) :
                      DOMAIN r.article = {a} /\ r.article[a].price = lines[i].price
      PROVE  Importing(r, t, Now')
  BY <1>2, <1>3, <1>5, <1>9 DEF Importing
<1>10. ASSUME r.at # "idle" PROVE ~Ends(h)
  BY <1>10 DEF Ends, Goes, Idle
<1>11. ASSUME q.at = "find", Stored(lines, i - 1, was, article)
       PROVE  ~Ends(h) /\ Importing(r, t, Now')
  <2>1. FindExistingArticle(h)
    BY <1>11, Stages
  <2>2. Now' = Now
    BY <1>4, <2>1 DEF FindExistingArticle
  <2>3. article' = article /\ Recorded(lines, i - 1, Now')
    BY <1>3, <1>5, <2>2
  <2>4. ASSUME Having(article, key) = {}, Goes(h, [q EXCEPT !.at = "insert"])
        PROVE  ~Ends(h) /\ Importing(r, t, Now')
    <3>1. r.at = "insert" /\ r.lines = q.lines
      BY <1>1, <2>4, MovesOn
    <3>2. QED
      BY <1>9, <1>10, <1>11, <2>3, <2>4, <3>1
  <2>5. ASSUME NEW a \in Having(article, key),
               Goes(h, [q EXCEPT !.at = "price", !.article = Row(a, row(a))])
        PROVE  ~Ends(h) /\ Importing(r, t, Now')
    <3>1. handler'[h] = [q EXCEPT !.at = "price", !.article = Row(a, row(a))]
      BY <2>5 DEF Goes
    <3>2. r.at = "price" /\ r.lines = q.lines /\ r.article = Row(a, row(a))
      BY <1>1, <3>1 DEF Fields
    <3>3. QED
      BY <1>9, <1>10, <1>11, <2>3, <2>5, <3>2
  <2>6. \A hash : {a \in DOMAIN article : article[a].hash = hash} = Having(article, hash)
    BY DEF Having
  <2>7. \/ Having(article, key) = {} /\ Goes(h, [q EXCEPT !.at = "insert"])
        \/ \E a \in Having(article, key) :
              Goes(h, [q EXCEPT !.at = "price", !.article = Row(a, row(a))])
    BY <1>6, <1>7, <2>1, <2>6 DEF FindExistingArticle
  <2>8. QED
    BY <2>4, <2>5, <2>7
<1>12. ASSUME q.at = "price", Stored(lines, i - 1, was, article),
              NEW a \in Having(article, key), q.article = Row(a, row(a))
       PROVE  ~Ends(h) /\ Importing(r, t, Now')
  <2>1. SavePrice(h)
    BY <1>12, Stages
  <2>2. DOMAIN q.article = {a} /\ q.article[a] = row(a)
    BY <1>12 DEF Row
  <2>3. row(a) \in ArticleRow
    BY <1>1, <2>2 DEF Working, ArticlesOK, GoodRow
  <2>4. /\ article' = Over(Row(a, row(a)), article) /\ history' = history
        /\ Goes(h, [q EXCEPT !.at = "record"])
    <3>1. PICK found, x :
             /\ found \in loaded[h] /\ x \in DOMAIN q.article
             /\ SaveArticle(found.article, x, q.article[x], {"price"})
             /\ ~Refused(article, found.article, x) => Goes(h, [q EXCEPT !.at = "record"])
      BY <2>1 DEF SavePrice
    <3>2. x = a /\ q.article[x] = row(a)
      BY <2>2, <3>1
    <3>3. SaveArticle(found.article, a, row(a), {"price"})
      BY <3>1, <3>2
    <3> HIDE DEF row
    <3>4. /\ ~Refused(article, found.article, a)
          /\ article' = Over(Row(a, row(a)), article) /\ history' = history
      BY <2>2, <2>3, <3>1, <3>3, FreshArticle
    <3>5. QED
      BY <3>1, <3>2, <3>4
  <2>5. r.at = "record" /\ r.lines = q.lines /\ r.article = q.article
    BY <1>1, <2>4, MovesOn
  <2>6. a \in DOMAIN article /\ article[a].hash = key
    BY DEF Having
  <2>7. /\ row(a).hash = key /\ row(a).name = article[a].name
        /\ row(a).price = lines[i].price
    BY <1>8, <2>6 DEF ArticleRow
  <2> HIDE DEF row
  <2>8. /\ DOMAIN article' = DOMAIN article \cup {a}
        /\ \A x \in DOMAIN article : x # a => article'[x] = article[x]
        /\ article'[a] = row(a)
    BY <2>4 DEF Over, Row
  <2>9. /\ Stored(lines, i, was, article')
        /\ \A hash : Having(article, hash) \subseteq Having(article', hash)
        /\ a \in Having(article', key)
    <3>1. /\ article'[a].hash = key /\ article'[a].price = lines[i].price
          /\ article'[a].name = article[a].name
      BY <2>7, <2>8
    <3>2. lines \in Seq(Line) /\ Stored(lines, i - 1, was, article)
      BY <1>5, <1>12
    <3> HIDE DEF lines, was
    <3>3. QED
      BY <2>8, <3>1, <3>2, OneLineStored
  <2>10. Recorded(lines, i - 1, Now')
    BY <1>3, <1>5, <2>4, <2>9, StaysRecorded
  <2>11. DOMAIN r.article = {a} /\ r.article[a].price = lines[i].price
    BY <2>2, <2>5, <2>7
  <2>12. QED
    BY <1>9, <1>10, <2>5, <2>9, <2>10, <2>11
<1>13. ASSUME q.at = "insert", Stored(lines, i - 1, was, article), Having(article, key) = {}
       PROVE  ~Ends(h) /\ Importing(r, t, Now')
  <2> DEFINE new == [name |-> Norm[lines[i].name], hash |-> HashKey[lines[i].name],
                     price |-> lines[i].price, shown |-> FALSE]
  <2>1. Insert(h)
    BY <1>13, Stages
  <2>2. PICK a \in ArticleIds :
           /\ InsertArticle(lines[i], a)
           /\ Goes(h, [q EXCEPT !.at = "record", !.article = Row(a, article'[a])])
    BY <1>6, <2>1 DEF Insert
  <2>3. /\ article' = Over(Row(a, new), article) /\ history' = history
        /\ a = Min(ArticleIds \ used)
    BY <2>2 DEF InsertArticle
  <2>4. a \notin DOMAIN article
    <3>1. ArticleIds \ used \in SUBSET Nat /\ ArticleIds \ used # {}
      BY <2>1, CatalogueAssumption DEF Insert
    <3>2. a \notin used
      BY <2>3, <3>1, LeastOf
    <3>3. QED
      BY <3>2 DEF Inv, TablesOK, ArticlesOK
  <2>5. new.hash = key /\ new.price = lines[i].price
    BY <1>7
  <2> HIDE DEF new
  <2>6. /\ DOMAIN article' = DOMAIN article \cup {a}
        /\ \A x \in DOMAIN article : x # a => article'[x] = article[x]
        /\ article'[a] = new
    BY <2>3 DEF Over, Row
  <2>7. /\ Stored(lines, i, was, article')
        /\ \A hash : Having(article, hash) \subseteq Having(article', hash)
        /\ a \in Having(article', key)
    BY <1>5, <1>13, <2>4, <2>5, <2>6, OneLineStored
  <2>8. Recorded(lines, i - 1, Now')
    BY <1>3, <1>5, <2>3, <2>7, StaysRecorded
  <2>9. handler'[h] = [q EXCEPT !.at = "record", !.article = Row(a, new)]
    BY <2>2, <2>6 DEF Goes
  <2>10. r.at = "record" /\ r.lines = q.lines /\ r.article = Row(a, new)
    BY <1>1, <2>9 DEF Fields
  <2>11. DOMAIN r.article = {a} /\ r.article[a].price = lines[i].price
    BY <2>5, <2>10 DEF Row
  <2>12. QED
    BY <1>9, <1>10, <2>7, <2>8, <2>10, <2>11
\* The price is recorded, and the next line comes, or none.
<1>14. ASSUME q.at = "record", Stored(lines, i, was, article),
              NEW a \in Having(article, key), DOMAIN q.article = {a},
              q.article[a].price = lines[i].price
       PROVE  IF Ends(h) THEN Stored(lines, Len(lines), was, article')
                              /\ Recorded(lines, Len(lines), Now')
              ELSE Importing(r, t, Now')
  <2>1. SavePriceHistory(h)
    BY <1>14, Stages
  <2>2. article' = article /\ history' = history \cup {<<a, lines[i].price>>}
    BY <1>14, <2>1 DEF SavePriceHistory, Having
  <2>3. Recorded(lines, i - 1, Now')
    BY <1>3, <1>5, <2>2, StaysRecorded
  <2>4. i \in Nat /\ i >= 1 /\ i <= Len(lines) /\ Len(lines) \in Nat
    BY <1>5, LenProperties
  <2>5. Recorded(lines, i, Now')
    <3>1. a \in Having(Now'.article, key) /\ <<a, lines[i].price>> \in Now'.history
      BY <1>3, <2>2
    <3>2. \A j \in 1..i : j \in 1..(i - 1) \/ j = i
      BY <2>4
    <3>3. QED
      BY <2>3, <3>1, <3>2 DEF Recorded
  <2>6. CASE i = Len(lines)
    <3>1. ~(Len(q.lines) > 1)
      BY <1>5, <2>4, <2>6
    <3>2. Ends(h)
      BY <2>1, <3>1 DEF SavePriceHistory, NextLine
    <3>3. QED
      BY <1>14, <2>2, <2>5, <2>6, <3>2
  <2>7. CASE i < Len(lines)
    <3> DEFINE rest == Tail(q.lines)
    <3>1. Len(q.lines) > 1
      BY <1>5, <2>4, <2>7
    <3>2. handler'[h] = [q EXCEPT !.at = "find", !.lines = rest, !.article = Empty]
      BY <2>1, <3>1 DEF SavePriceHistory, NextLine, Goes
    <3>3. /\ Len(rest) = Len(q.lines) - 1
          /\ \A j \in 1..Len(rest) : rest[j] = q.lines[j + 1]
      <4>1. q.lines \in Seq(Line)
        BY <1>1 DEF Working
      <4>2. q.lines # <<>>
        BY <3>1
      <4>3. QED
        BY <4>1, <4>2, HeadTailProperties
    <3> HIDE DEF rest
    <3>4. r.at = "find" /\ r.lines = rest
      BY <1>1, <3>2 DEF Fields
    <3>5. i + 1 \in 1..Len(lines) /\ (i + 1) - 1 = i
      BY <2>4, <2>7
    <3> DEFINE n == Len(q.lines)
               l == Len(lines)
               m == Len(rest)
    <3>6. i \in Nat /\ i >= 1 /\ l \in Nat /\ n = l - i + 1 /\ m = n - 1
      BY <1>5, <2>4, <3>3
    <3> HIDE DEF n, l, m
    <3>7. m = l - (i + 1) + 1
      BY <3>6
    <3>8. ASSUME NEW j \in 1..m PROVE rest[j] = lines[(i + 1) + j - 1]
      <4>1. j + 1 \in 1..n /\ i + (j + 1) - 1 = (i + 1) + j - 1
        BY <3>6
      <4>2. q.lines[j + 1] = lines[i + (j + 1) - 1]
        BY <1>5, <4>1 DEF n
      <4>3. rest[j] = q.lines[j + 1]
        BY <3>3 DEF m
      <4>4. QED
        BY <4>1, <4>2, <4>3
    <3>9. Importing(r, t, Now')
      <4> DEFINE k == i + 1
      <4>1. /\ k \in 1..Len(lines) /\ Recorded(lines, k - 1, Now')
            /\ Stored(lines, k - 1, was, article')
        BY <1>14, <2>2, <2>5, <3>5
      <4>2. /\ Len(r.lines) = Len(lines) - k + 1
            /\ \A j \in 1..Len(r.lines) : r.lines[j] = lines[k + j - 1]
        BY <3>4, <3>7, <3>8 DEF l, m
      <4>3. lines \in Seq(Line)
        BY <1>5
      <4> HIDE DEF k
      <4>4. QED
        BY <1>2, <1>3, <1>10, <3>4, <4>1, <4>2, <4>3 DEF Importing
    <3>10. QED
      BY <1>10, <3>4, <3>9
  <2>8. QED
    BY <2>4, <2>6, <2>7
<1>15. QED
  BY <1>5, <1>11, <1>12, <1>13, <1>14

-----------------------------------------------------------------------------
(* All requests *)

LEMMA GoonUndisturbed ==
    ASSUME Inv, Agreement, Undisturbed, NEW h \in Handlers, Goon(h)
    PROVE  Undisturbed'
<1>1. CASE Ends(h)
  BY <1>1, EndingStep
<1>2. ASSUME NEW r, Goes(h, r), Same(handler[h], r) PROVE Undisturbed'
  <2>1. handler'[h] = r
    BY <1>2 DEF Goes
  <2>2. ASSUME NEW t \in r.was PROVE Halfway(r, t, Now')
    <3> DEFINE q == handler[h]
    <3>1. Halfway(q, t, Now) /\ r.request = q.request /\ r.was # {}
      BY <1>2 DEF Undisturbed, Same
    <3>2. ~Ends(h)
      BY <2>1, <3>1, Ended
    <3>3. Working(q, used, kinds) /\ DOMAIN q = Fields
      BY Stages, AtWork DEF At, Working
    <3>4. Same(q, handler'[h]) /\ handler'[h].was # {} /\ q.was # {}
      BY <1>2, <2>1, <3>1 DEF Same
    <3>5. ASSUME q.request.kind = "period" PROVE Replacing(r, t, Now')
      <4>1. Replacing(q, t, Now)
        BY <3>1, <3>5 DEF Halfway
      <4>2. QED
        BY <2>1, <3>4, <3>5, <4>1, PeriodGoesOn
    <3>6. ASSUME q.request.kind = "normalize" PROVE Merging(r, t, Now')
      <4>1. Merging(q, t, Now)
        BY <3>1, <3>6 DEF Halfway
      <4>2. Merge(h) \/ RemoveDuplicate(h)
        BY <4>1, Stages DEF Merging
      <4>3. ArticlesOK(q.article, used, kinds)
        BY <3>3 DEF Working
      <4>4. QED
        BY <2>1, <3>2, <3>3, <3>4, <4>1, <4>2, <4>3, MergeMerges, RemovalMerges
    <3>7. ASSUME q.request.kind = "update", q.request.price \in Prices
          PROVE  Pricing(r, t, Now')
      <4>1. Pricing(q, t, Now)
        BY <3>1, <3>7 DEF Halfway
      <4>2. QED
        BY <2>1, <3>4, <3>7, <4>1, PriceGoesOn
    <3>8. ASSUME q.request.kind = "import" PROVE Importing(r, t, Now')
      <4>1. Importing(q, t, Now)
        BY <3>1, <3>8 DEF Halfway
      <4>2. QED
        BY <2>1, <3>2, <3>4, <3>8, <4>1, ImportGoesOn
    <3>9. QED
      BY <3>1, <3>5, <3>6, <3>7, <3>8 DEF Halfway
  <2>3. QED
    BY <1>2, <2>2, OneRequest
<1>3. QED
  BY <1>1, <1>2, SameRequest

LEMMA NextUndisturbed ==
    Inv /\ Agreement /\ Tabular /\ Undisturbed /\ [CatalogueNext]_catalogueVars
        => Undisturbed'
<1> SUFFICES ASSUME Inv, Agreement, Tabular, Undisturbed, [CatalogueNext]_catalogueVars
             PROVE  Undisturbed'
  OBVIOUS
<1>1. CASE UNCHANGED catalogueVars
  <2>1. handler' = handler /\ Now' = Now
    BY <1>1 DEF catalogueVars, Now
  <2>2. QED
    BY <2>1 DEF Undisturbed
<1>2. CASE Restart
  <2>1. \A h \in Handlers : handler'[h].was = {}
    BY <1>2 DEF Restart, Idle
  <2>2. QED
    BY <2>1 DEF Undisturbed
<1>3. QED
  <2>1. ASSUME NEW h \in Handlers, Load(h) PROVE Undisturbed'
    <3>1. handler' = handler /\ Now' = Now
      BY <2>1 DEF Load, NoChange, Now
    <3>2. QED
      BY <3>1 DEF Undisturbed
  <2>2. ASSUME NEW h \in Handlers, NextStatement(h) PROVE Undisturbed'
    BY <2>2, GoonUndisturbed, ArticleRequestBegins, PeriodRequestBegins DEF NextStatement
  <2>3. QED
    BY <1>1, <1>2, <2>1, <2>2 DEF CatalogueNext

LEMMA StartUndisturbed == CatalogueStart => Tabular /\ Undisturbed
<1> SUFFICES ASSUME CatalogueStart PROVE Tabular /\ Undisturbed
  OBVIOUS
<1>1. \A h \in Handlers : handler[h].was = {}
  BY DEF CatalogueStart, Idle
<1>2. PICK f : article = [a \in DOMAIN article |-> f[a]]
  <2>1. PICK price \in Prices, name \in [DOMAIN article -> Names] :
           article = [a \in DOMAIN article |->
                        [name |-> name[a], hash |-> HashKey[name[a]],
                         price |-> price, shown |-> FALSE]]
    BY DEF CatalogueStart
  <2> DEFINE g == [a \in DOMAIN article |->
                     [name |-> name[a], hash |-> HashKey[name[a]],
                      price |-> price, shown |-> FALSE]]
  <2>2. \A a \in DOMAIN article : g[a] = [name |-> name[a], hash |-> HashKey[name[a]],
                                          price |-> price, shown |-> FALSE]
    OBVIOUS
  <2>3. article = [a \in DOMAIN article |-> g[a]]
    BY <2>1
  <2>4. QED
    BY <2>3
<1>3. IsTabular(article)
  <2>1. DOMAIN article = DOMAIN [a \in DOMAIN article |-> f[a]]
    OBVIOUS
  <2>2. \A a \in DOMAIN article : article[a] = f[a]
    BY <1>2
  <2>3. [a \in DOMAIN article |-> article[a]] = [a \in DOMAIN article |-> f[a]]
    BY <2>2
  <2>4. QED
    BY <1>2, <2>3, Zenon DEF IsTabular
<1>4. IsTabular(listing)
  BY DEF CatalogueStart, IsTabular, Empty
<1>5. QED
  BY <1>1, <1>3, <1>4 DEF Tabular, Undisturbed

-----------------------------------------------------------------------------
(* What requests have done when they end *)

\* Nobody but request h can end it.
LEMMA SomeoneGoes ==
    ASSUME Inv, NEW x \in Handlers, ArticleRequest(x) \/ PeriodRequest(x) \/ Goon(x)
    PROVE  \E r : Goes(x, r)
<1>1. Goon(x) => \E r : Goes(x, r)
  BY SameRequest DEF Ends
<1>2. ArticleRequest(x) => \E r : Goes(x, r)
  BY Zenon DEF ArticleRequest, Import, CreateArticle, Update, Flag, Delete, Normalize
<1>3. ASSUME PeriodRequest(x) PROVE \E r : Goes(x, r)
  <2>1. ASSUME NEW dates, NEW offers, CreatePeriod(x, dates, offers) PROVE \E r : Goes(x, r)
    <3>1. \/ Ends(x)
          \/ \E p : Goes(x, [Start([kind |-> "period", id |-> p, offers |-> offers], "offer")
                               EXCEPT !.period = Row(p, dates), !.offers = offers])
      BY <2>1 DEF CreatePeriod
    <3>2. QED
      BY <3>1, Zenon DEF Ends
  <2>2. ASSUME NEW p, NEW sent, NEW lists, NEW offers, UpdatePeriod(x, p, sent, lists, offers)
        PROVE  \E r : Goes(x, r)
    BY <2>2, Zenon DEF UpdatePeriod
  <2>3. ASSUME NEW p, NEW offers, AddArticlesBatch(x, p, offers) PROVE \E r : Goes(x, r)
    BY <2>3, Zenon DEF AddArticlesBatch
  <2>4. ASSUME NEW p, NEW a, NEW price,
               UpdateArticlePrice(x, p, a, price) \/ AddArticle(x, p, a, price)
        PROVE  \E r : Goes(x, r)
    BY <2>4, Zenon DEF UpdateArticlePrice, AddArticle
  <2>5. ASSUME NEW p, RemovePeriod(x, p) \/ \E a : RemoveArticle(x, p, a)
        PROVE  \E r : Goes(x, r)
    BY <2>5, Zenon DEF RemovePeriod, RemoveArticle, Ends
  <2>6. QED
    BY <1>3, <2>1, <2>2, <2>3, <2>4, <2>5 DEF PeriodRequest
<1>4. QED
  BY <1>1, <1>2, <1>3

LEMMA EndingRequest ==
    ASSUME Inv, Undisturbed, [CatalogueNext]_catalogueVars, NEW h \in Handlers, NEW kind,
           EndsAlone(h, kind)
    PROVE  /\ Goon(h) /\ Ends(h) /\ handler[h].request.kind = kind
           /\ Halfway(handler[h], Before(h), Now)
           /\ DOMAIN handler[h] = Fields /\ Working(handler[h], used, kinds)
<1>1. /\ handler[h].at # "idle" /\ handler'[h] = Idle /\ ~Restart
      /\ handler[h].was # {} /\ handler[h].request.kind = kind
  BY DEF EndsAlone, At
<1>2. handler[h] # Idle
  BY <1>1 DEF Idle
<1>3. PICK x \in Handlers : ArticleRequest(x) \/ PeriodRequest(x) \/ Goon(x)
  BY <1>1, <1>2 DEF CatalogueNext, NextStatement, Load, catalogueVars
<1>4. PICK r : Goes(x, r)
  BY <1>3, SomeoneGoes
<1>5. x = h
  BY <1>1, <1>2, <1>4, OthersStay
<1>6. ArticleRequest(x) \/ PeriodRequest(x) => handler[x].at = "idle"
  BY DEF ArticleRequest, PeriodRequest, Begins, At
<1>7. Goon(h) /\ Ends(h)
  BY <1>1, <1>3, <1>4, <1>5, <1>6 DEF Ends, Goes
<1>8. Before(h) \in handler[h].was
  BY <1>1 DEF Before
<1>9. Halfway(handler[h], Before(h), Now)
  BY <1>8 DEF Undisturbed
<1>10. Working(handler[h], used, kinds) /\ DOMAIN handler[h] = Fields
  BY <1>7, Stages, AtWork DEF At, Working
<1>11. QED
  BY <1>1, <1>7, <1>9, <1>10

LEMMA NormalizationMerged ==
    ASSUME Inv, Agreement, Undisturbed, [CatalogueNext]_catalogueVars, NEW h \in Handlers,
           EndsAlone(h, "normalize")
    PROVE  LET was == Before(h).article
               oldest == {a \in DOMAIN was : \A b \in DOMAIN was :
                             Norm[was[b].name] = Norm[was[a].name] => a <= b}
           IN  article' = [a \in oldest |-> [was[a] EXCEPT !.name = Norm[@]]]
<1> DEFINE t == Before(h)
<1>1. Goon(h) /\ Ends(h) /\ DOMAIN handler[h] = Fields /\ Working(handler[h], used, kinds)
  BY EndingRequest
<1>2. Merging(handler[h], t, Now)
  BY EndingRequest DEF Halfway
<1>3. handler[h].was # {} /\ (Merge(h) \/ RemoveDuplicate(h))
  BY <1>1, <1>2, Stages DEF Merging, EndsAlone
<1> HIDE DEF t
<1>4. article' = Merged(t.article, {}, {})
  BY <1>1, <1>2, <1>3, MergeMerges, RemovalMerges DEF Working
<1>5. QED
  BY <1>4 DEF Merged, Oldest, t

LEMMA ImportFound ==
    ASSUME Inv, Agreement, Undisturbed, [CatalogueNext]_catalogueVars, NEW h \in Handlers,
           EndsAlone(h, "import")
    PROVE  LET lines == handler[h].request.lines
               key(i) == HashKey[lines[i].name]
               having(rows, hash) == {a \in DOMAIN rows : rows[a].hash = hash}
               was == Before(h).article
           IN  /\ \A i \in 1..Len(lines) :
                     LET now == having(article', key(i))
                         old == having(was, key(i))
                     IN  /\ IF old = {} THEN Cardinality(now) = 1 ELSE now = old
                         /\ \E a \in now : <<a, lines[i].price>> \in history'
                         /\ (\A j \in i + 1..Len(lines) : key(j) # key(i))
                               => \E a \in now : article'[a].price = lines[i].price
               /\ \A a \in DOMAIN was :
                     IF \E i \in 1..Len(lines) : was[a].hash = key(i)
                     THEN article'[a].name = was[a].name
                     ELSE article'[a] = was[a]
<1> DEFINE q == handler[h]
           lines == q.request.lines
           was == Before(h).article
           key(i) == HashKey[lines[i].name]
           having(rows, hash) == {a \in DOMAIN rows : rows[a].hash = hash}
<1>1. /\ Goon(h) /\ Ends(h) /\ q.request.kind = "import" /\ handler'[h] = Idle
      /\ q.was # {}
  BY EndingRequest DEF EndsAlone
<1>2. Importing(q, Before(h), Now)
  BY EndingRequest DEF Halfway
<1>3. Stored(lines, Len(lines), was, article') /\ Recorded(lines, Len(lines), Now')
  BY <1>1, <1>2, ImportGoesOn
<1>4. \A i : KeyOf(lines[i]) = key(i)
  BY DEF KeyOf
<1>5. \A rows, hash : Having(rows, hash) = having(rows, hash)
  BY DEF Having
<1>6. Now'.article = article' /\ Now'.history = history'
  BY DEF Now
<1> HIDE DEF lines, was, key, having
<1>7. ASSUME NEW i \in 1..Len(lines)
      PROVE  LET now == having(article', key(i))
                 old == having(was, key(i))
             IN  /\ IF old = {} THEN Cardinality(now) = 1 ELSE now = old
                 /\ \E a \in now : <<a, lines[i].price>> \in history'
                 /\ (\A j \in i + 1..Len(lines) : key(j) # key(i))
                       => \E a \in now : article'[a].price = lines[i].price
  <2> DEFINE now == having(article', key(i))
             old == having(was, key(i))
  <2>1. IF old = {} THEN \E a \in now : now = {a} ELSE now = old
    BY <1>3, <1>4, <1>5 DEF Stored
  <2>2. (\A j \in i + 1..Len(lines) : key(j) # key(i))
          => \E a \in now : article'[a].price = lines[i].price
    BY <1>3, <1>4, <1>5 DEF Stored
  <2>3. \E a \in now : <<a, lines[i].price>> \in history'
    BY <1>3, <1>4, <1>5, <1>6 DEF Recorded
  <2> HIDE DEF now, old
  <2>4. \A a : now = {a} => Cardinality(now) = 1
    BY FS_Singleton
  <2>5. QED
    BY <2>1, <2>2, <2>3, <2>4 DEF now, old
<1>8. ASSUME NEW a \in DOMAIN was
      PROVE  IF \E i \in 1..Len(lines) : was[a].hash = key(i)
             THEN article'[a].name = was[a].name
             ELSE article'[a] = was[a]
  BY <1>3, <1>4 DEF Stored
<1>9. QED
  BY <1>7, <1>8 DEF lines, was, key, having

\* An update of a price ends with the record of the price.
LEMMA PriceEnds ==
    ASSUME Inv, Agreement, NEW h \in Handlers, Goon(h), Ends(h), DOMAIN handler[h] = Fields,
           handler[h].was # {},
           handler[h].request.kind = "update", handler[h].request.price \in Prices,
           NEW t, Pricing(handler[h], t, Now)
    PROVE  handler[h].at = "record"
<1> DEFINE q == handler[h]
<1>1. handler'[h] = Idle
  BY DEF Ends, Goes
<1>2. DOMAIN q = Fields /\ DOMAIN Idle # Fields
  BY DEF Idle, Fields
<1>3. q.at \in {"current", "again", "list", "confirm", "offer", "write", "record"}
  BY DEF Pricing
<1>4. ASSUME NEW r, DOMAIN r = Fields, Goes(h, r) PROVE FALSE
  BY <1>1, <1>2, <1>4 DEF Goes
<1> HIDE DEF q
<1>5. ASSUME q.at = "current" PROVE FALSE
  <2>1. ReadCurrent(h)
    BY <1>5, Stages DEF q
  <2>2. \E r : DOMAIN r = DOMAIN q /\ Goes(h, r)
    BY <2>1 DEF ReadCurrent, q
  <2>3. QED
    BY <2>2, <1>2, <1>4
<1>6. ASSUME q.at = "again" PROVE FALSE
  <2>1. OfferInCurrent(h)
    BY <1>6, Stages DEF q
  <2>2. \/ Goes(h, [q EXCEPT !.at = "write"])
        \/ \E p : Goes(h, [q EXCEPT !.at = "offer", !.period = Row(p, period[p]),
                                    !.offers = Row(q.request.id, q.request.price)])
    BY <2>1 DEF OfferInCurrent, q
  <2>3. QED
    BY <2>2, <1>2, <1>4
<1>7. ASSUME q.at = "list" PROVE FALSE
  <2>1. SaveOffer(h)
    BY <1>7, Stages DEF q
  <2>2. \/ Goes(h, [q EXCEPT !.at = "confirm"])
        \/ Goes(h, [q EXCEPT !.at = "write", !.listing = Empty])
    BY <2>1 DEF SaveOffer, q
  <2>3. QED
    BY <2>2, <1>2, <1>4
<1>8. ASSUME q.at = "confirm" PROVE FALSE
  <2>1. Confirm(h)
    BY <1>8, Stages DEF q
  <2>2. \E at : Goes(h, [q EXCEPT !.at = at, !.listing = Empty])
    BY <2>1 DEF Confirm, q
  <2>3. QED
    BY <2>2, <1>2, <1>4
<1>9. ASSUME q.at = "offer" PROVE FALSE
  <2>1. InsertOffers(h)
    BY <1>9, Stages DEF q
  <2>2. Goes(h, [q EXCEPT !.at = "write", !.period = Empty, !.offers = Empty])
    BY <2>1 DEF InsertOffers, q
  <2>3. QED
    BY <2>2, <1>2, <1>4
<1>10. ASSUME q.at = "write" PROVE FALSE
  <2> DEFINE row == Changed(q.article[q.request.id], q.request)
  <2>1. Write(h)
    BY <1>10, Stages DEF q
  <2>2. Working(q, used, kinds)
    BY <2>1, AtWork DEF Write, q
  <2>3. row \in ArticleRow /\ q.request.id \in DOMAIN q.article
    <3>1. /\ GoodRow(q.article[q.request.id], kinds) /\ SentOK(q.request.sent)
          /\ q.request.clear => "clear" \in kinds
          /\ q.request.id \in DOMAIN q.article
      BY <1>10, <2>2 DEF Working, Updating, UpdateOK, ArticlesOK
    <3>2. QED
      BY <3>1, ChangedGood DEF GoodRow
  <2> HIDE DEF row
  <2>4. PICK found, sent :
           /\ found \in loaded[h] /\ SaveArticle(found.article, q.request.id, row, sent)
           /\ ~Refused(article, found.article, q.request.id) =>
                 Goes(h, [q EXCEPT !.at = "record", !.article = Row(q.request.id, row)])
    BY <2>1 DEF Write, q, row
  <2>5. Goes(h, [q EXCEPT !.at = "record", !.article = Row(q.request.id, row)])
    BY <2>3, <2>4, FreshArticle DEF q
  <2>6. QED
    BY <2>5, <1>2, <1>4
<1>11. QED
  BY <1>3, <1>5, <1>6, <1>7, <1>8, <1>9, <1>10 DEF q

LEMMA PriceReached ==
    ASSUME Inv, Agreement, Undisturbed, [CatalogueNext]_catalogueVars, NEW h \in Handlers,
           EndsAlone(h, "update"), handler[h].request.price \in Prices
    PROVE  LET r == handler[h].request
               was == Before(h)
               offered(p) == {x \in DOMAIN was.listing : x[1] = p /\ x[2] = r.id}
           IN  /\ article'[r.id].price = r.price
               /\ <<r.id, r.price>> \in history'
               /\ Open(period) = {} => listing' = was.listing
               /\ \A p \in PeriodIds : CurrentPeriods(period) = {p} =>
                     \E n \in 1..Copies :
                        /\ listing' = Over(Row(<<p, r.id, n>>, r.price), was.listing)
                        /\ offered(p) = {} \/ <<p, r.id, n>> \in offered(p)
<1> DEFINE q == handler[h]
           r == q.request
           was == Before(h)
<1>1. Goon(h) /\ Ends(h) /\ r.kind = "update" /\ DOMAIN q = Fields /\ q.was # {}
  BY EndingRequest DEF EndsAlone
<1>2. Pricing(q, was, Now)
  BY EndingRequest DEF Halfway
<1> HIDE DEF was
<1>3. q.at = "record"
  BY <1>1, <1>2, PriceEnds
<1>4. SavePriceHistory(h)
  BY <1>1, <1>3, Stages
<1>5. /\ Reached(r.id, r.price, was, Now) /\ r.id \in DOMAIN article /\ DOMAIN q.article = {r.id}
      /\ article[r.id].price = r.price /\ q.article[r.id].price = r.price
  BY <1>2, <1>3 DEF Pricing, Now
<1>6. /\ article' = article /\ listing' = listing /\ period' = period
      /\ <<r.id, r.price>> \in history'
  BY <1>4, <1>5 DEF SavePriceHistory
<1>7. Now.listing = listing /\ Now.period = period
  BY DEF Now
<1> HIDE DEF q
<1>8. \A p : OfferedIn(was.listing, p, r.id) = {x \in DOMAIN was.listing : x[1] = p /\ x[2] = r.id}
  BY DEF OfferedIn
<1>9. QED
  BY <1>5, <1>6, <1>7, <1>8 DEF Reached, q, was

LEMMA ListReplaced ==
    ASSUME Inv, Agreement, Undisturbed, [CatalogueNext]_catalogueVars, NEW h \in Handlers,
           EndsAlone(h, "period"), handler[h].at \in {"withdraw", "offer"}
    PROVE  LET r == handler[h].request
               rows == {x \in DOMAIN listing' : x[1] = r.id}
               was == Before(h).listing
               all == DOMAIN r.offers \subseteq DOMAIN article'
           IN  /\ {<<x[2], listing'[x]>> : x \in rows}
                     = IF all THEN {<<a, r.offers[a]>> : a \in DOMAIN r.offers} ELSE {}
               /\ Cardinality(rows) = IF all THEN Cardinality(DOMAIN r.offers) ELSE 0
               /\ Without(listing', rows) = Without(was, {x \in DOMAIN was : x[1] = r.id})
<1> DEFINE q == handler[h]
           id == q.request.id
           offers == q.request.offers
           rows == {x \in DOMAIN listing' : x[1] = id}
           was == Before(h).listing
           others == Without(was, {x \in DOMAIN was : x[1] = id})
           all == DOMAIN offers \subseteq DOMAIN article'
           Goal == /\ {<<x[2], listing'[x]>> : x \in rows}
                         = IF all THEN {<<a, offers[a]>> : a \in DOMAIN offers} ELSE {}
                   /\ Cardinality(rows) = IF all THEN Cardinality(DOMAIN offers) ELSE 0
                   /\ Without(listing', rows) = others
<1>1. Goon(h) /\ Ends(h) /\ q.request.kind = "period" /\ DOMAIN q = Fields
      /\ Working(q, used, kinds)
  BY EndingRequest
<1>2. Replacing(q, Before(h), Now)
  BY EndingRequest DEF Halfway
<1>3. /\ id \in PeriodIds /\ DOMAIN q.period = {id} /\ q.offers = offers
      /\ IsFiniteSet(DOMAIN offers) /\ OffersOK(offers)
      /\ \/ q.at = "withdraw" /\ listing = was
         \/ /\ q.at = "offer" /\ id \in DOMAIN period
            /\ listing = Without(was, ListedIn(was, id))
  BY <1>1, <1>2 DEF Replacing, Now, Working
<1>4. ListedIn(was, id) = {x \in DOMAIN was : x[1] = id}
  BY DEF ListedIn
<1> HIDE DEF was
<1>5. others = [x \in {y \in DOMAIN was : y[1] # id} |-> was[x]]
  <2>1. DOMAIN was \ {x \in DOMAIN was : x[1] = id} = {y \in DOMAIN was : y[1] # id}
    OBVIOUS
  <2>2. QED
    BY <2>1 DEF Without
\* None are offered: no offers are sent, or one of them is for an article that is gone.
<1>6. ASSUME listing' = others, all => DOMAIN offers = {} PROVE Goal
  <2> HIDE DEF others
  <2>1. rows = {}
    BY <1>5, <1>6
  <2>2. Without(others, {}) = others
    BY <1>5 DEF Without
  <2>3. Cardinality({}) = 0
    BY FS_EmptySet
  <2>4. all => {<<a, offers[a]>> : a \in DOMAIN offers} = {}
    BY <1>6
  <2> HIDE DEF rows, all, offers
  <2>5. {<<x[2], listing'[x]>> : x \in rows} = {}
    BY <2>1
  <2>6. Without(listing', rows) = others
    BY <1>6, <2>1, <2>2
  <2>7. all => Cardinality(DOMAIN offers) = 0
    BY <1>6, <2>3
  <2>8. QED
    BY <2>1, <2>3, <2>4, <2>5, <2>6, <2>7
<1>7. ASSUME q.at = "withdraw", listing = was PROVE Goal
  <2>1. Withdraw(h)
    BY <1>1, <1>7, Stages
  <2>2. listing' = Without(listing, RowsOf(id)) /\ article' = article
    BY <1>3, <2>1 DEF Withdraw
  <2>3. listing' = others
    BY <1>7, <2>2 DEF RowsOf
  <2>4. DOMAIN q.offers = {}
    <3>1. CASE Goes(h, [q EXCEPT !.at = "offer"])
      <4>1. handler'[h].at = "offer" /\ handler'[h] = Idle
        BY <1>1, <3>1, MovesOn DEF Ends, Goes
      <4>2. QED
        BY <4>1 DEF Idle
    <3>2. QED
      BY <2>1, <3>1 DEF Withdraw
  <2>5. QED
    BY <1>3, <1>6, <2>3, <2>4
<1>8. ASSUME q.at = "offer", id \in DOMAIN period, listing = others PROVE Goal
  <2> DEFINE free(a) == CHOOSE n \in 1..Copies : <<id, a, n>> \notin DOMAIN listing \cup Held
             row(a) == <<id, a, free(a)>>
             ids == {row(a) : a \in DOMAIN offers}
             new == [x \in ids |-> offers[x[2]]]
  <2>1. InsertOffers(h)
    BY <1>1, <1>8, Stages
  <2>2. SaveListing(NewRows(id, offers))
    BY <1>3, <2>1 DEF InsertOffers
  <2>3. NewRows(id, offers) = new
    BY DEF NewRows
  <2> HIDE DEF free
  <2>4. \A a : row(a)[1] = id /\ row(a)[2] = a
    OBVIOUS
  <2> HIDE DEF row
  <2>5. DOMAIN new = ids /\ \A a \in DOMAIN offers : row(a) \in ids /\ new[row(a)] = offers[a]
    BY <2>4
  <2>6. article' = article
    BY <2>2 DEF SaveListing
  <2>7. (\A x \in ids : Refers(x)) <=> all
    BY <1>8, <2>4, <2>6 DEF Refers
  <2>8. listing' = IF all THEN Over(new, others) ELSE others
    BY <1>8, <2>2, <2>3, <2>5, <2>7 DEF SaveListing
  <2>9. CASE ~all
    BY <1>6, <2>8, <2>9
  <2>10. CASE all
    <3> DEFINE left == DOMAIN others
    <3>1. left = {y \in DOMAIN was : y[1] # id} /\ \A y \in left : y[1] # id
      BY <1>5
    <3>2. others = [x \in left |-> others[x]]
      BY <1>5
    <3> HIDE DEF others, left, new
    <3>3. /\ DOMAIN listing' = ids \cup left
          /\ \A x \in ids : listing'[x] = new[x]
          /\ \A x \in left : listing'[x] = others[x]
          /\ \A x \in ids : x[1] = id
          /\ ids \cap left = {}
      <4>1. \A x \in ids : x[1] = id
        BY <2>4
      <4>2. ids \cap left = {}
        BY <3>1, <4>1
      <4>3. listing' = [x \in ids \cup left |-> IF x \in ids THEN new[x] ELSE others[x]]
        BY <2>5, <2>8, <2>10 DEF Over, left
      <4>4. QED
        BY <4>1, <4>2, <4>3
    <3>4. rows = ids
      BY <3>1, <3>3
    <3>5. Without(listing', ids) = others
      <4>1. DOMAIN listing' \ ids = left
        BY <3>3
      <4>2. Without(listing', ids) = [x \in left |-> listing'[x]]
        BY <4>1 DEF Without
      <4>3. [x \in left |-> listing'[x]] = [x \in left |-> others[x]]
        BY <3>3
      <4>4. QED
        BY <3>2, <4>2, <4>3
    <3>6. {<<x[2], listing'[x]>> : x \in ids} = {<<a, offers[a]>> : a \in DOMAIN offers}
      <4>1. \A a \in DOMAIN offers : <<row(a)[2], listing'[row(a)]>> = <<a, offers[a]>>
        BY <2>4, <2>5, <3>3
      <4>2. \A x \in ids : \E a \in DOMAIN offers : x = row(a)
        OBVIOUS
      <4>3. \A a \in DOMAIN offers : row(a) \in ids
        OBVIOUS
      <4> HIDE DEF ids
      <4>4. \A x \in ids : <<x[2], listing'[x]>> \in {<<a, offers[a]>> : a \in DOMAIN offers}
        BY <4>1, <4>2
      <4>5. \A a \in DOMAIN offers : <<a, offers[a]>> \in {<<x[2], listing'[x]>> : x \in ids}
        BY <4>1, <4>3
      <4>6. QED
        BY <4>4, <4>5
    <3>7. Cardinality(ids) = Cardinality(DOMAIN offers)
      <4> DEFINE D == DOMAIN offers
                 f == [a \in D |-> row(a)]
      <4>1. IsFiniteSet(D)
        BY <1>3
      <4>2. f \in Bijection(D, ids)
        <5>1. f \in [D -> ids]
          OBVIOUS
        <5>2. \A a, b \in D : f[a] = f[b] => a = b
          BY <2>4
        <5>3. \A x \in ids : \E a \in D : f[a] = x
          OBVIOUS
        <5> HIDE DEF f, ids, D
        <5>4. QED
          BY <5>1, <5>2, <5>3 DEF Bijection, Injection, Surjection, IsInjective
      <4> HIDE DEF f, D, ids
      <4>3. QED
        BY <4>1, <4>2, FS_Bijection DEF D, ExistsBijection
    <3> HIDE DEF ids, rows, all, offers
    <3>8. QED
      BY <2>10, <3>4, <3>5, <3>6, <3>7
  <2>11. QED
    BY <2>9, <2>10
<1>9. Goal
  BY <1>3, <1>4, <1>7, <1>8
<1>10. QED
  BY <1>9 DEF was
=============================================================================
