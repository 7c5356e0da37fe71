\* A fetch task panics.
SPECIFICATION Spec
CONSTANTS
    s = s
    a = a
    b = b
    c = c
    d = d
    Urls <- SiteUrls
    Keys <- SiteKeys
    Hosts <- SiteHosts
    KeyOf <- SiteKeyOf
    HostOf <- SiteHostOf
    Links <- SiteLinks
    Redirects <- SiteRedirects
    Seed = s
    NoUrl = NoUrl
    MaxConcurrent = 2
    MaxPages = 3
    Streaming = FALSE
    HostAware = TRUE
    ShortPops = FALSE
    CallsMayFail = FALSE
    MayPanic = TRUE
    HungUrls = {}
INVARIANTS InFlightIsRunning
\* The crawl stops when it is done.
CHECK_DEADLOCK FALSE
