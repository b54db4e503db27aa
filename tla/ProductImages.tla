--------------------------- MODULE ProductImages ---------------------------
(***************************************************************************)
(* The images of one product: files in object storage, rows of             *)
(* product_images and product_variant_images, the Redis copy the shop      *)
(* reads, the ids that orders keep, and the cleanup of what nobody uses.   *)
(*                                                                         *)
(* Four parties work on them without a common lock.  The editor uploads    *)
(* files first and writes their rows in a transaction later, from a form   *)
(* that may be old; a checkout picks an image, from the cache or in two    *)
(* queries that fill it, and inserts its order item later; the cleanup     *)
(* deletes rows in one statement and their files afterwards; the cache     *)
(* expires.  An image's metadata, row and file are born together and share *)
(* one name here.                                                          *)
(***************************************************************************)
EXTENDS Integers, Sequences, FiniteSets

CONSTANTS
    GalleryImages,  \* the names product_images can use
    OptionImages,   \* the names product_variant_images can use
    NoImage,        \* no image
    Options,        \* the options of the variant dimensions
    Spaced,         \* those of a dimension whose name holds a blank
    Snapshots,      \* the option_snapshots of the variants
    Pools,          \* the sets of names that are still unused when it begins
    Requests,       \* the editor's requests that are handled at a time
    ImageLimit      \* PRODUCT_LIMITS.IMAGE_LIMIT

Images == GalleryImages \cup OptionImages

ASSUME ImageAssumption ==
    /\ GalleryImages \cap OptionImages = {}
    /\ NoImage \notin Images
    /\ Spaced \subseteq Options
    /\ ImageLimit \in Nat \ {0}

VARIABLES
    product,        \* whether the product exists, and has dimensions
    row,            \* the state of each image's row
    position,       \* product_images.sort_order
    signature,      \* product_variant_image_signatures: the option shown
    file,           \* the files in object storage
    call,           \* the payload of each request, and how far it is
    reader,         \* what a request of the shop has read so far
    cached,         \* redis: VARIANT_IMAGES(productId)
    ordered,        \* order_items.image_id
    doomed,         \* the files a running cleanup still has to delete
    leaked,         \* history: files that a failure left without a row
    late            \* history: ordered after their row was deleted

imageVars == <<product, row, position, signature, file, call, reader,
               cached, ordered, doomed, leaked, late>>
shopVars == <<reader, ordered, late>>

NoCall == [op |-> "idle"]
NoView == [op |-> "none"]

\* getExistingProductImages; the variant images handleNewAndRemoved... reads.
LiveImages == {i \in Images : row[i] = "live"}
Gallery == LiveImages \cap GalleryImages
Pictured == LiveImages \cap OptionImages

Unused(pool) == {i \in pool : row[i] = "none" /\ ~file[i]}

\* A list of images, each at most once.
Lists(S) == UNION {{l \in [1 .. n -> S] : \A a, b \in 1 .. n : l[a] = l[b] => a = b} : n \in 0 .. Cardinality(S)}
Listed(l) == {l[n] : n \in DOMAIN l}

InitImages ==
    /\ product = "none"
    /\ \E free \in Pools : row = [i \in Images |-> IF i \in free THEN "none" ELSE "gone"]
    /\ position = [i \in GalleryImages |-> 0]
    /\ signature = [i \in OptionImages |-> NoImage]
    /\ file = [i \in Images |-> FALSE]
    /\ call = [r \in Requests |-> NoCall]
    /\ reader = NoView
    /\ cached = NoView
    /\ ordered = {}
    /\ doomed = {}
    /\ leaked = {}
    /\ late = {}

-----------------------------------------------------------------------------
(* The editor.                                                             *)

\* getDetailById and mapProductDetail: the gallery in its order, and each
\* option with the live image that carries its signature.
FormGallery == CHOOSE l \in Lists(Gallery) :
    /\ Listed(l) = Gallery
    /\ \A a, b \in DOMAIN l : a < b => position[l[a]] < position[l[b]]

FormPicture(o) ==
    IF \E i \in Pictured : signature[i] = o THEN CHOOSE i \in Pictured : signature[i] = o
    ELSE NoImage

Form == [op |-> "sent", gallery |-> FormGallery, picture |-> [o \in Options |-> FormPicture(o)],
         multi |-> product = "multi", create |-> FALSE, fresh |-> {}]

\* What a page can send: a form however old, so any image that was ever shown,
\* in any place, and new ones.  The first request creates the product.
Payloads ==
    LET shown == {i \in Images : row[i] # "none"} IN
    {[op |-> "sent", gallery |-> g, picture |-> p, multi |-> m, create |-> product = "none",
      fresh |-> {i \in Unused(Images) : i \in Listed(g) \/ \E o \in Options : p[o] = i}] :
        g \in Lists(GalleryImages \cap (shown \cup Unused(Images))),
        p \in [Options -> (OptionImages \cap (shown \cup Unused(Images))) \cup {NoImage}],
        m \in BOOLEAN}

\* productUpsertSchema: one image at least and ImageLimit at most; a product
\* with one variant has no dimensions, and so no pictures of options.  That two
\* options have two pictures is the editor's doing: the schema would take one.
WellFormed(load) ==
    /\ Len(load.gallery) \in 1 .. ImageLimit
    /\ \A o, q \in Options : load.picture[o] = load.picture[q] => o = q \/ load.picture[o] = NoImage
    /\ ~load.multi => \A o \in Options : load.picture[o] = NoImage

\* prepareProductImages, prepareVariantImages: every file is uploaded before
\* the transaction begins.
Upload(r) ==
    /\ call[r] = NoCall
    /\ product = "none" => \A q \in Requests : call[q] = NoCall
    /\ \E load \in Payloads :
        /\ WellFormed(load)
        /\ call' = [call EXCEPT ![r] = load]
        /\ file' = [i \in Images |-> file[i] \/ i \in load.fresh]
    /\ UNCHANGED <<product, row, position, signature, cached, doomed, leaked, shopVars>>

\* updateProductImages.  A kept image must be a live row of this product; the
\* live images the payload does not name become orphans.
GalleryAccepted(load) == Listed(load.gallery) \ load.fresh \subseteq Gallery

GalleryAfter(load) ==
    [i \in GalleryImages |->
        CASE i \in load.fresh -> "live"
          [] i \in Gallery \ Listed(load.gallery) -> "orphan"
          [] OTHER -> row[i]]

PositionAfter(load) ==
    [i \in GalleryImages |->
        IF i \in Listed(load.gallery) THEN CHOOSE n \in DOMAIN load.gallery : load.gallery[n] = i
        ELSE position[i]]

Kept(load) == {load.picture[o] : o \in Options} \ (load.fresh \cup {NoImage})
OptionOf(load, i) == CHOOSE o \in Options : load.picture[o] = i

\* Slip: the used images are not handed on.
KeptForgotten(load) == {}

\* updateVariantImageSignatures runs only when the product had dimensions and
\* keeps them.  A kept image must be a row of this product: not a live one.
KeptUsed(load) == IF product = "multi" /\ load.multi THEN Kept(load) ELSE {}
PicturesAccepted(load) == \A i \in KeptUsed(load) : row[i] \in {"live", "orphan"}

\* Slip: no orphan step.
PicturesPiledUp(load) == [i \in OptionImages |-> IF i \in load.fresh THEN "live" ELSE row[i]]

\* handleNewAndRemovedVariantImages: the new images are inserted, the live
\* ones that are not used become orphans; an orphan that is used stays one.
\* clearAllVariantImages, when the dimensions go.
PicturesAfter(load) ==
    [i \in OptionImages |->
        CASE i \in load.fresh -> "live"
          [] load.multi /\ i \in Pictured \ KeptUsed(load) -> "orphan"
          [] product = "multi" /\ ~load.multi /\ row[i] = "live" -> "orphan"
          [] OTHER -> row[i]]

SignaturesAfter(load) ==
    [i \in OptionImages |->
        CASE i \in KeptUsed(load) \cup load.fresh -> OptionOf(load, i)
          [] product = "multi" /\ ~load.multi -> NoImage
          [] OTHER -> signature[i]]

\* ProductService.create and update: the transaction, then the invalidation
\* of the cache, which is a step of its own.  A form that is
\* created has no images to keep.
Save(r) ==
    LET load == call[r] IN
    /\ load.op = "sent"
    /\ GalleryAccepted(load)
    /\ PicturesAccepted(load)
    /\ product' = IF load.multi THEN "multi" ELSE "single"
    /\ row' = [i \in Images |-> IF i \in GalleryImages THEN GalleryAfter(load)[i] ELSE PicturesAfter(load)[i]]
    /\ position' = PositionAfter(load)
    /\ signature' = SignaturesAfter(load)
    /\ call' = [call EXCEPT ![r] = IF load.create THEN NoCall ELSE [op |-> "saved"]]
    /\ UNCHANGED <<file, cached, doomed, leaked, shopVars>>

\* An upload fails half way, or the transaction is refused or rolls back: the
\* files uploaded so far stay.
SaveFails(r) ==
    /\ call[r].op = "sent"
    /\ leaked' = leaked \cup call[r].fresh
    /\ call' = [call EXCEPT ![r] = NoCall]
    /\ UNCHANGED <<product, row, position, signature, file, cached, doomed, shopVars>>

\* invalidateVariantImageCache; the process may also end before it.
Invalidate(r) ==
    /\ call[r].op = "saved"
    /\ cached' \in {NoView, cached}
    /\ call' = [call EXCEPT ![r] = NoCall]
    /\ UNCHANGED <<product, row, position, signature, file, doomed, leaked, shopVars>>

-----------------------------------------------------------------------------
(* The shop: getVariantImagesBulk for a cart, a checkout page or           *)
(* confirmCheckout, which goes on to insert an order item.                 *)

ReadCache ==
    /\ reader = NoView
    /\ cached # NoView
    /\ reader' = cached
    /\ UNCHANGED <<product, row, position, signature, file, call, cached, ordered, doomed, leaked, late>>

\* Slip: is_orphan is not looked at.
ReadAllPictures ==
    /\ reader = NoView
    /\ cached = NoView
    /\ product # "none"
    /\ reader' = [op |-> "half", pictures |-> {<<i, signature[i]>> : i \in {j \in OptionImages : row[j] \in {"live", "orphan"}}}]
    /\ UNCHANGED <<product, row, position, signature, file, call, cached, ordered, doomed, leaked, late>>

\* Nothing cached: getProductImagesWithSignatures.
ReadPictures ==
    /\ reader = NoView
    /\ cached = NoView
    /\ product # "none"
    /\ reader' = [op |-> "half", pictures |-> {<<i, signature[i]>> : i \in Pictured}]
    /\ UNCHANGED <<product, row, position, signature, file, call, cached, ordered, doomed, leaked, late>>

Fallback ==
    IF Gallery = {} THEN NoImage
    ELSE CHOOSE i \in Gallery : \A j \in Gallery : position[i] <= position[j]

\* getFallbackImages, a query of its own.
ReadFallback ==
    /\ reader.op = "half"
    /\ reader' = [op |-> "read", pictures |-> reader.pictures, fallback |-> Fallback]
    /\ UNCHANGED <<product, row, position, signature, file, call, cached, ordered, doomed, leaked, late>>

\* cache.set with what was read, whatever was invalidated meanwhile.
FillCache ==
    /\ reader.op = "read"
    /\ cached' = [reader EXCEPT !.op = "view"]
    /\ reader' = cached'
    /\ UNCHANGED <<product, row, position, signature, file, call, ordered, doomed, leaked, late>>

\* A signature's key is normalizeName(dimension), the snapshot's only its
\* lower case: blanks become "_" in one and stay in the other.
Matches(option, snapshot) == option \in snapshot \ Spaced

\* findBestImage: the images whose signature the snapshot matches (all have
\* one, so none is better than another), or else the fallback.
BestImages(view, snapshot) ==
    LET fitting == {p[1] : p \in {q \in view.pictures : Matches(q[2], snapshot)}}
    IN IF fitting = {} THEN {view.fallback} ELSE fitting

\* enrichItemsWithImages and insertOrderItems, at the commit of confirmCheckout.
PlaceItem ==
    /\ reader.op = "view"
    /\ \E snapshot \in Snapshots : \E i \in BestImages(reader, snapshot) \ {NoImage} :
        /\ ordered' = ordered \cup {i}
        /\ late' = IF row[i] = "gone" /\ i \notin ordered THEN late \cup {i} ELSE late
    /\ reader' = NoView
    /\ UNCHANGED <<product, row, position, signature, file, call, cached, doomed, leaked>>

\* A page that only shows the image, or a confirm that fails.
StopReading ==
    /\ reader.op = "view"
    /\ reader' = NoView
    /\ UNCHANGED <<product, row, position, signature, file, call, cached, ordered, doomed, leaked, late>>

\* REDIS_TTL.VARIANT_IMAGES.
CacheExpires ==
    /\ cached # NoView
    /\ cached' = NoView
    /\ UNCHANGED <<product, row, position, signature, file, call, reader, ordered, doomed, leaked, late>>

-----------------------------------------------------------------------------
(* The cleanup jobs, one for each table.                                   *)

\* Slip: the orders are not asked.
AllOrphans(pool) == {i \in pool : row[i] = "orphan"}

\* Orphans in no order item.
Removable(pool) == {i \in pool : row[i] = "orphan" /\ i \notin ordered}

\* Slip: the limit holds for the keys that are returned only.
DeleteMoreRows(pool) ==
    /\ \E old \in SUBSET Removable(pool) :
        /\ old # {}
        /\ row' = [i \in Images |-> IF i \in Removable(pool) THEN "gone" ELSE row[i]]
        /\ signature' = [i \in OptionImages |-> IF i \in Removable(pool) THEN NoImage ELSE signature[i]]
        /\ doomed' = doomed \cup old
    /\ UNCHANGED <<product, position, file, call, cached, leaked, shopVars>>

\* The DELETE ... RETURNING of cleanupOrphanProductImages and of
\* cleanupOrphanVariantImages (whose signatures go by cascade): those that
\* were created 6 hours ago, which may be any of them.
DeleteRows(pool) ==
    /\ \E old \in SUBSET Removable(pool) :
        /\ old # {}
        /\ row' = [i \in Images |-> IF i \in old THEN "gone" ELSE row[i]]
        /\ signature' = [i \in OptionImages |-> IF i \in old THEN NoImage ELSE signature[i]]
        /\ doomed' = doomed \cup old
    /\ UNCHANGED <<product, position, file, call, cached, leaked, shopVars>>

DeleteGalleryRows == DeleteRows(GalleryImages)
\* Slip: a copy that kept the other table's name.
DeleteCopied == DeleteRows(GalleryImages)

DeleteOptionRows == DeleteRows(OptionImages)

DeleteFile(i) ==
    /\ i \in doomed
    /\ file' = [file EXCEPT ![i] = FALSE]
    /\ doomed' = doomed \ {i}
    /\ UNCHANGED <<product, row, position, signature, call, cached, leaked, shopVars>>

\* The storage fails (it is logged, and the row is gone), or the process ends.
DeleteFileFails(i) ==
    /\ i \in doomed
    /\ doomed' = doomed \ {i}
    /\ leaked' = leaked \cup {i}
    /\ UNCHANGED <<product, row, position, signature, file, call, cached, shopVars>>

EditorStep ==
    \E r \in Requests : Upload(r) \/ Save(r) \/ SaveFails(r) \/ Invalidate(r)

ShopStep == ReadCache \/ ReadPictures \/ ReadFallback \/ FillCache \/ PlaceItem \/ StopReading \/ CacheExpires

CleanupStep ==
    \/ DeleteGalleryRows
    \/ DeleteOptionRows
    \/ \E i \in Images : DeleteFile(i) \/ DeleteFileFails(i)

NextImages == EditorStep \/ ShopStep \/ CleanupStep

\* A request of the shop goes on, the cache forgets, the jobs run again and again.
FairImages ==
    /\ WF_imageVars(ReadFallback) /\ WF_imageVars(FillCache)
    /\ WF_imageVars(PlaceItem \/ StopReading)
    /\ WF_imageVars(CacheExpires)
    /\ \A i \in Images : WF_imageVars(DeleteFile(i) \/ DeleteFileFails(i))
    /\ WF_imageVars(DeleteGalleryRows) /\ WF_imageVars(DeleteOptionRows)

ImageSpec == InitImages /\ [][NextImages]_imageVars /\ FairImages

-----------------------------------------------------------------------------
(* Properties.                                                             *)

Sending == UNION {IF call[r].op = "sent" THEN call[r].fresh ELSE {} : r \in Requests}

\* Files and rows live in two systems and no transaction spans them: a live
\* row has its file, and a file without a row is one that a request is about
\* to insert, that a cleanup is about to delete, or that a failure has left.
FilesMatchRows ==
    \A i \in Images :
        /\ row[i] = "live" => file[i]
        /\ file[i] /\ row[i] \in {"none", "gone"} => i \in Sending \cup doomed \cup leaked

\* Whatever forms are saved, in whatever order, no two live images share a
\* place: the sort order of the gallery, or the option they are shown for.
OneImagePerPlace ==
    /\ \A i, j \in Gallery : position[i] = position[j] => i = j
    /\ \A i, j \in Pictured : signature[i] = signature[j] => i = j

\* Rows, files and places agree, whatever was saved, failed or cleaned up.
ImagesHold == FilesMatchRows /\ OneImagePerPlace

\* The image of an order item keeps its file, unless the item was inserted
\* when the cleanup had already deleted the image's row.
OrdersProtectImages == \A i \in ordered : file[i] \/ i \in late

\* What the jobs' "PROTECT: order_items" says: a file that an order shows stays.
OrderedImagesKeepFiles == \A i \in ordered : file[i]

\* When the last image has been removed, the shop's cache soon names live
\* images only, although a request may fill it with what it read before the
\* removal and after the invalidation.
RemovedLeavesCache ==
    <>[](cached.op = "view" =>
            /\ cached.fallback # NoImage => row[cached.fallback] = "live"
            /\ \A p \in cached.pictures : row[p[1]] = "live")

\* Saving the page as it is shown is accepted and changes no image.
UntouchedFormChangesNothing ==
    product # "none" =>
        /\ WellFormed(Form) /\ GalleryAccepted(Form) /\ PicturesAccepted(Form)
        /\ GalleryAfter(Form) = [i \in GalleryImages |-> row[i]]
        /\ PicturesAfter(Form) = [i \in OptionImages |-> row[i]]
        /\ \A i \in Pictured : SignaturesAfter(Form)[i] = signature[i]

\* What is neither shown nor ordered is deleted in the end, row and file, but
\* for the files that a failure leaves.
OrphansEnd == <>[](\A i \in Images : row[i] \in {"orphan", "gone"} /\ file[i] => i \in ordered \cup leaked)

\* What was removed ends: in the shop's cache, in the tables and in S3.
RemovedImagesEnd == RemovedLeavesCache /\ OrphansEnd
=============================================================================
