\* A streaming crawl: the receiver may be dropped, the frontier may fail, one request may hang.
SPECIFICATION FairSpec
CONSTANTS
    s = s
    a = a
    b = b
    c = c
    d = d
    Urls <- SiteUrls
    Keys <- SiteKeys
    Hosts <- SiteHosts
    KeyOf <- SiteKeyOf
    HostOf <- SiteHostOf
    Links <- SiteLinks
    Redirects <- SiteRedirects
    Seed = s
    NoUrl = NoUrl
    MaxConcurrent = 2
    MaxPages = 3
    Streaming = TRUE
    HostAware = TRUE
    ShortPops = FALSE
    CallsMayFail = TRUE
    MayPanic = FALSE
    HungUrls = {d}
INVARIANTS TypeOK PageReportedOnce WithinMaxPages InFlightIsRunning EndsForAReason
PROPERTIES RefinesCrawlWork DroppedStreamEnds
\* The crawl stops when it is done.
CHECK_DEADLOCK FALSE
