\* A frontier that cannot pop around hosts and under-delivers, and tasks that panic.
SPECIFICATION FairSpec
CONSTANTS
    s = s
    a = a
    b = b
    c = c
    d = d
    Urls <- SiteUrls
    Keys <- SiteKeys
    Hosts <- SiteHosts
    KeyOf <- SiteKeyOf
    HostOf <- SiteHostOf
    Links <- FanLinks
    Redirects <- SiteRedirects
    Seed = s
    NoUrl = NoUrl
    MaxConcurrent = 2
    MaxPages = 4
    Streaming = FALSE
    HostAware = FALSE
    ShortPops = TRUE
    CallsMayFail = FALSE
    MayPanic = TRUE
    HungUrls = {}
INVARIANTS WithinMaxConcurrent
PROPERTIES Terminates
\* The crawl stops when it is done.
CHECK_DEADLOCK FALSE
