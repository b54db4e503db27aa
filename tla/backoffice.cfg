\* Two saves of banners with two images and two targets; two saves of up to three
\* collections, and two products on the first page; two officers who move the
\* warehouse; two paid orders in days of three hours and months of two days; two
\* forms of a product, and two clerks with two presets; three rows on pages of one,
\* one of which changes while pages are turned. One focus at a time.
SPECIFICATION OfficeSpec
CONSTANTS
    s1 = s1
    s2 = s2
    t1 = t1
    t2 = t2
    Banners = {1, 2}
    Images = {1, 2}
    Targets = {t1, t2}
    Staff = {s1, s2}
    MaxBannerSaves = 3
    MaxSecond = 1
    CollectionSlugs <- AlikeSlugs
    FirstCollections <- TwoCollections
    CollectionSavers = {s1, s2}
    HomeProducts = {1, 2}
    HomeLimit = 1
    MaxCollections = 3
    MaxSortOrder = 1
    MaxHomeChanges = 2
    Warehouses = {1, 2}
    Districts = {1, 2}
    Officers = {s1, s2}
    Pricings = {t1, t2}
    MaxMoves = 3
    PaidOrders = {t1, t2}
    DayLength = 3
    MonthDays = 2
    Ahead = 1
    Horizon = 7
    ListRows = {1, 2, 3}
    ProductShapes <- SmallProducts
    ProductQueries <- SmallQueries
    Prices = {1, 2}
    PageLimit = 1
    LowStock = 1
    MaxListChanges = 1
    Presets = {1, 2}
    PresetNames = {"a", "b"}
    Clerks = {s1, s2}
    MaxValues = 2
    MaxForms = 3
    Places = {1, 2}
    Forms <- SmallForms
CONSTRAINT Bounded
SYMMETRY AlikeInOffice
INVARIANTS
    WindowHolds
    OriginHolds
    ReportsTell
    ProductFormsHold
CHECK_DEADLOCK FALSE
