SPECIFICATION Spec
CONSTANTS
    Main = 0
    Workers <- MCWorkers
    BnmPages <- MCBnmPages
    ScPages <- MCScPages
    Portals = {"selangor", "nourl"}
    NoPortal = "nourl"
    Resolutions = {"r1", "r2"}
    Links <- MCLinks
    LocalFiles <- MCLocalFiles
    Base <- MCBase
    PageLinks <- MCPageLinks
    Listings <- MCListings
    MaxRetries = 1
    ListingPages <- MCListingPages
    Parallelism = 2
    Batches <- MCBatches
    Commands <- MCCommands
    Files <- MCFiles
    PageCounts = {0, 2}
    EmbedRetries = 1
    BrowserModes = {TRUE, FALSE}
INVARIANTS PagesOnce EveryTargetCounted StatsAddUp ReportedIsStored
PROPERTIES PrintedIsFinal CommandEnds
