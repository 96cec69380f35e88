SPECIFICATION Spec
CONSTANTS
    r1 = r1
    r2 = r2
    p1 = p1
    root = root
    child = child
    leaf = leaf
    photo = photo
    other = other
    spec = spec
    None = None
    Requests <- MCRequests
    Products <- MCProducts
    Categories <- MCCategories
    Names <- MCNames
    Images = {}
    Active = {}
    Titles <- MCTitles
    Prices <- MCPrices
    Paths <- MCPaths
    Specs <- MCSpecs
    Featured <- MCDiscounted
    Discounted <- MCDiscounted
    Sold <- MCSold
    DefaultRate = 4
    FirstTables <- MCFirstTables
    Forms <- MCForms
    Filled <- MCFilled
    Pages <- MCPages
    PageSize = 2
    Rates <- MCRates
    LastSecond = 1
SYMMETRY Symmetry
CHECK_DEADLOCK FALSE
INVARIANTS
    TypeOK
    CachedIsCurrent
    ImagesThere
    SavedWhole
PROPERTIES
    FiltersAgree
