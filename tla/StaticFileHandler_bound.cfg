CONSTANTS
    w1 = w1
    w2 = w2
    None = None
    Workers = {w1, w2}
    Names <- SmallNames
    Kind <- SmallKind
    Files <- SmallFiles
    Directories <- TheDirectories
    Menus <- SmallMenu
    MaxCacheEntries = 2
    MaxVersions <- OneVersion
    Routes <- TheRoutes
    ParamSegs <- TheParams
    StarSegs <- TheStars
    MarkedSegs <- TheMarked
SPECIFICATION Spec
INVARIANTS
    CacheBounded
