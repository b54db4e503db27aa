\* One product, two gallery images, two images of options, two requests of the editor.
SPECIFICATION ImageSpec
CONSTANTS
    g1 = g1  g2 = g2  v1 = v1  v2 = v2  red = red
    GalleryImages = {g1, g2}
    OptionImages = {v1, v2}
    NoImage = NoImage
    Options = {red}
    Spaced = {}
    Snapshots <- TwoSnapshots
    Pools <- TwoOfOne
    Requests = {1}
    ImageLimit = 2
INVARIANT
    OrderedImagesKeepFiles
CHECK_DEADLOCK FALSE
