CONSTANTS
    w1 = w1
    w2 = w2
    None = None
    Workers = {w1, w2}
    Names <- AllNames
    Kind <- TheKind
    Files <- TheFiles
    Directories <- TheDirectories
    Menus <- AllMenus
    MaxCacheEntries = 1
    MaxVersions <- FewVersions
    Routes <- TheRoutes
    ParamSegs <- TheParams
    StarSegs <- TheStars
    MarkedSegs <- TheMarked
SPECIFICATION Spec
INVARIANTS
    TypeOK
    EntriesValid
PROPERTIES
    ImplementsRequestService
