CONSTANTS
    home = home
    page = page
    away = away
    site = site
    other = other
    http = http
    socks = socks
    None = None
    ObjectAt <- MCObjectAt
    DefinedAt <- MCDefinedAt
    Unconfigured = {"robots", "stats"}
    Base <- MCBase
    Custom <- MCCustom
    Urls <- MCUrls
    Site <- MCSite
    Scheme <- MCScheme
    Announced <- MCAnnounced
    DefaultPolicy = "scrapy-default"
    LoginSites = {site}
    Allowed = {site}
    Validated = {home}
    Lasting = {page}
    NoStore = {away}
    Revalidated = {page}
    Zipped = {page}
    Refreshing = {away}
    Baking = {home}
    Socks = {socks}
    Proxies = {http, socks}
    RetryTimes = 1
    RedirectMax = 2
    IgnoreMissing = FALSE
    Starts <- MCStarts
    Inner <- MCInner
    InternalHops = 3
    MaxJourneys = 2
    MaxMeddles = 1
    MaxStreams = 1
    Components = 3
    Streaming = {2}
    HttpErrors = 3
    Filters = {1}
    MaxYields = 1
SPECIFICATION Spec
INVARIANTS
    CopiesCarryTheirOwn
    OutputsSurviveErrors
    DownloadsBounded
    StaleNeedsAReason
PROPERTY JourneyEnds
CHECK_DEADLOCK FALSE
