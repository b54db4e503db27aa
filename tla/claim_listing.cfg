\* Two editors of a tree of three and one new category; two forms of one product
\* and two variants; three products on pages of one; two saves and two requests
\* at the list of filters; two variants of a product whose page is read;
\* two products of five shapes and the filters offered for them.
SPECIFICATION CatalogueSpec
CONSTANTS
    Categories = {1, 2, 3, 4}
    Bases = {"a", "b"}
    Trees <- SmallTrees
    Editors = {1, 2}
    MaxEdits = 2
    MaxClock = 1
    Products <- OneOrTwo
    FormIds = {1, 2}
    Options = {1, 2}
    MaxRows = 2
    MaxVariants = 2
    MaxStock = 1
    MaxSaves = 2
    OptionValues = {1, 2}
    Savers = {1, 2}
    Shoppers = {1, 2}
    Items = {1, 2, 3}
    ItemPrices = {1, 2}
    CreatedAt = {3, 7, 12}
    Limit = 1
    MaxPages = 3
    MaxChanges = 1
    PageVariants = {1, 2}
    Writers = {1, 2}
    LowStock = 1
    MostStock = 2
    MaxContents = 3
    MaxBegun = 3
    ShelfIds = {1, 2}
    Shapes <- SomeShapes
    CategoryPaths <- Paths
    Reserved = {"limit", "q"}
    FloorPrices = {1, 2}
    ShelfTimes = {0, 1, 2}
    PerSecond = 2
    MaxShelfChanges = 1
CONSTRAINT OneClient
INVARIANT
    TagTellsPage
CHECK_DEADLOCK FALSE
