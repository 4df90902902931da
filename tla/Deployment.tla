----------------------------- MODULE Deployment -----------------------------
(***************************************************************************)
(* A deployment: while the server is down the database is migrated, by     *)
(* this release and by older ones, which write rows in between; then the   *)
(* server starts and answers requests about the catalogue, on the articles *)
(* that the migrations left.                                               *)
(***************************************************************************)
EXTENDS Migrations, Catalogue

CONSTANTS
    OldPrice,    \* the price of the articles that older releases wrote
    OldPeriods   \* the tables of periods that they may leave

ASSUME DeploymentAssumption ==
    /\ OldPrice \in Prices
    /\ OldPeriods \subseteq PartialFunctions(PeriodIds, PeriodRow)
    /\ {} \notin Workloads

vars == <<db, applied, catalogueVars>>

Init ==
    /\ MigrationsInit
    /\ article = Empty /\ history = {} /\ period = Empty /\ listing = Empty
    /\ used = {} /\ kinds = {}
    /\ handler = [h \in Handlers |-> Idle] /\ loaded = [h \in Handlers |-> {}]

Maintain ==
    /\ kinds = {}
    /\ MigrationsNext
    /\ UNCHANGED catalogueVars

\* The articles of older releases are the first rows of the catalogue, in any order, with
\* their names as they were spelt and their hashes.  The rest of the database is forgotten.
StartServer ==
    /\ UpToDate
    /\ kinds = {} /\ kinds' \in Workloads
    /\ period' \in OldPeriods
    /\ \E ids \in SUBSET ArticleIds : \E name \in [ids -> DOMAIN db.articles] :
          /\ \A a \in ids, b \in ArticleIds : b < a => b \in ids
          /\ {name[a] : a \in ids} = DOMAIN db.articles
          /\ Cardinality(ids) = Cardinality(DOMAIN db.articles)
          /\ article' = [a \in ids |-> [name |-> name[a], hash |-> db.articles[name[a]],
                                        price |-> OldPrice, shown |-> FALSE]]
          /\ history' = ids \X {OldPrice}
          /\ used' = ids \cup DOMAIN period'
    /\ db' = NewDatabase /\ applied' = InService
    /\ UNCHANGED <<listing, handler, loaded>>

Serve == CatalogueNext /\ UNCHANGED <<db, applied>>

Next == Maintain \/ StartServer \/ Serve

Spec == Init /\ [][Next]_vars
=============================================================================
