CONSTANTS
    Products <- MCProducts
    Varieties <- MCVarieties
    NoVariety = "none"
    Capitals <- MCCapitals
    Upper <- MCUpper
    Origins <- MCOrigins
    OldArticles <- MCOldArticles
    Releases <- MCReleases
    ArticleIds <- MCArticleIds
    PeriodIds <- MCPeriodIds
    Copies = 2
    Prices = {1, 2}
    Days = {1, 2}
    Today = 1
    Handlers = {h1, h2}
    Batches <- MCBatches
    Changes <- MCChanges
    Calendars <- MCCalendars
    Offers <- MCOffers
    Workloads <- MCWorkloads
    OldPrice = 1
    OldPeriods <- MCOldPeriods
SPECIFICATION Spec
INVARIANTS
    MigrationsTypeOK
    SchemaMatchesEntities
    DeletionRulesMatch
    UpgradesSucceed
    CatalogueTypeOK
    PricesAreRecorded
    HashOfSomeSpelling
PROPERTIES
    RunKeepsRows
    ImportsFindArticles
    UpdatesReachPeriod
    NormalizeMerges
    PeriodListsReplaced
CHECK_DEADLOCK FALSE
