\* One product, two gallery images and one of an option or one and two, a request of the editor at a time.
SPECIFICATION ImageSpec
CONSTANTS
    g1 = g1  g2 = g2  v1 = v1  v2 = v2  red = red
    GalleryImages = {g1, g2}
    OptionImages = {v1, v2}
    NoImage = NoImage
    Options = {red}
    Spaced = {}
    Snapshots <- TwoSnapshots
    Pools <- TwoOfOne
    Requests = {1}
    ImageLimit = 2
INVARIANTS
    ImagesHold
    OrdersProtectImages
    UntouchedFormChangesNothing
PROPERTIES
    RemovedImagesEnd
CHECK_DEADLOCK FALSE
