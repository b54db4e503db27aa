----------------------------- MODULE Marketing -----------------------------
(***************************************************************************)
(* Banners of the home page: each shows an image of a library and leads    *)
(* to a collection or a category.  An image is a row and a file in S3; a   *)
(* banner's row holds its image's by a foreign key, and nothing holds the  *)
(* row it leads to.  An upload happens inside the transaction that saves   *)
(* the banner, which may therefore be a long one.  The shop's clients keep *)
(* the banners under a tag.                                                *)
(***************************************************************************)
EXTENDS Naturals, FiniteSets, FiniteSetsExt, SequencesExt, Ordering

CONSTANTS
    Banners,        \* ids of marketing_banners, in the order they are given
    Images,         \* ids of images_metadata, and keys in S3
    Targets,        \* collections and categories that banners can lead to
    Staff,          \* the requests of administrators in flight
    MaxBannerSaves, \* bound on the forms that are sent
    MaxSecond       \* bound on the time

ASSUME MarketingAssumption ==
    /\ Banners \subseteq Nat /\ Images \subseteq Nat
    /\ IsFiniteSet(Banners)
    /\ MaxSecond \in Nat

VARIABLES
    banner,         \* marketing_banners
    imageRows,      \* images_metadata
    imageFiles,     \* the files in S3
    uploads,        \* the keys that were given out
    targetRows,     \* collections and categories that are there
    office,         \* what each request has done so far
    second,         \* NOW(), cut to a second
    bannerSaves,
    keptBanners,    \* the client's banners, their tag, when they were fetched
    leaked,         \* history: files whose request failed before it was done
    passed          \* history: a save after the fetch that was stamped no later

bannerVars == <<banner, imageRows, imageFiles, uploads, targetRows, office, second,
                bannerSaves, keptBanners, leaked, passed>>

NoBanner == [status |-> "none"]
Resting == [op |-> "resting"]
NothingKept == [at |-> "none"]

Exists(b) == banner[b].status \in {"ACTIVE", "INACTIVE"}
ExistingBanners == {b \in Banners : Exists(b)}

InitMarketing ==
    /\ banner = [b \in Banners |-> NoBanner]
    /\ imageRows = {} /\ imageFiles = {} /\ uploads = {}
    /\ targetRows = Targets
    /\ office = [r \in Staff |-> Resting]
    /\ second = 0
    /\ bannerSaves = 0
    /\ keptBanners = NothingKept
    /\ leaked = {}
    /\ passed = FALSE

-----------------------------------------------------------------------------
(* create and update.  A form names a target that its page has shown, and  *)
(* nobody asks whether it is still there.                                  *)

\* getNextSortOrder.
NextSortOrder ==
    IF ExistingBanners = {} THEN 0 ELSE Max({banner[b].order : b \in ExistingBanners}) + 1

\* The transaction begins; resolveBannerImage uploads a new file, or takes an
\* image of the library.
ResolveImage(r, b, i, t) ==
    /\ office[r] = Resting /\ bannerSaves < MaxBannerSaves
    /\ banner[b].status # "gone"
    /\ \/ i \notin uploads /\ \A j \in Images \ uploads : i <= j
       \/ i \in imageRows
    /\ \A c \in Banners : c < b => banner[c] # NoBanner
    /\ office' = [office EXCEPT ![r] =
           [op |-> "save", banner |-> b, image |-> i, new |-> i \notin uploads,
            target |-> t, since |-> second]]
    /\ uploads' = uploads \cup {i}
    /\ imageFiles' = imageFiles \cup {i}
    /\ bannerSaves' = bannerSaves + 1
    /\ UNCHANGED <<banner, imageRows, targetRows, second, keptBanners, leaked, passed>>

\* Whether a removal of t has already looked for banners.
LookedFor(t) == t \notin targetRows
                \/ \E r \in Staff : office[r].op = "removeTarget" /\ office[r].target = t

\* Who keeps a page that was fetched in this second, or later.
Overtakes(since) == keptBanners # NothingKept /\ since <= keptBanners.at

\* insertBannerImage, assertBannerImageExists and the banner's row, which takes
\* hold of its image.
SaveBanner(r, status) ==
    LET s == office[r] IN
    /\ s.op = "save"
    /\ s.new \/ s.image \in imageRows
    /\ banner[s.banner].status # "gone"
    /\ banner' = [banner EXCEPT ![s.banner] =
           [status |-> status, image |-> s.image, target |-> s.target, stamp |-> s.since,
            order |-> IF Exists(s.banner) THEN banner[s.banner].order ELSE NextSortOrder,
            unseen |-> LookedFor(s.target)]]
    /\ imageRows' = imageRows \cup {s.image}
    /\ office' = [office EXCEPT ![r] = Resting]
    /\ passed' = (passed \/ Overtakes(s.since))
    /\ UNCHANGED <<imageFiles, uploads, targetRows, second, bannerSaves, keptBanners, leaked>>

\* An image or a banner that is gone, or a process that stops: the file stays.
SaveBannerFails(r) ==
    /\ office[r].op = "save"
    /\ office' = [office EXCEPT ![r] = Resting]
    /\ leaked' = IF office[r].new THEN leaked \cup {office[r].image} ELSE leaked
    /\ UNCHANGED <<banner, imageRows, imageFiles, uploads, targetRows, second, bannerSaves,
                   keptBanners, passed>>

-----------------------------------------------------------------------------
(* The commands of one statement.                                          *)

RemoveBanner(b) ==
    /\ Exists(b)
    /\ banner' = [banner EXCEPT ![b] = [status |-> "gone"]]
    /\ UNCHANGED <<imageRows, imageFiles, uploads, targetRows, office, second, bannerSaves,
                   keptBanners, leaked, passed>>

\* Each banner the form lists gets the place it has there.
ReorderBanner(form) ==
    /\ ToSet(form) \cap ExistingBanners # {}
    /\ bannerSaves < MaxBannerSaves
    /\ bannerSaves' = bannerSaves + 1
    /\ banner' = [b \in Banners |->
           IF Exists(b) /\ b \in ToSet(form)
           THEN [banner[b] EXCEPT !.order = CHOOSE n \in DOMAIN form : form[n] = b, !.stamp = second]
           ELSE banner[b]]
    /\ passed' = (passed \/ Overtakes(second))
    /\ UNCHANGED <<imageRows, imageFiles, uploads, targetRows, office, second, keptBanners, leaked>>

-----------------------------------------------------------------------------
(* removeBannerImage.                                                      *)

SnapShotBannerImage(r, i) ==
    /\ office[r] = Resting
    /\ i \in imageRows
    /\ office' = [office EXCEPT ![r] = [op |-> "removeImage", image |-> i]]
    /\ UNCHANGED <<banner, imageRows, imageFiles, uploads, targetRows, second, bannerSaves,
                   keptBanners, leaked, passed>>

\* Slip: a refused DELETE does not end the request.
RemoveMetadataRegardless(r) ==
    LET i == office[r].image IN
    /\ office[r].op = "removeImage"
    /\ office' = [office EXCEPT ![r] = [op |-> "removeFile", image |-> i]]
    /\ imageRows' = IF \A b \in ExistingBanners : banner[b].image # i THEN imageRows \ {i} ELSE imageRows
    /\ UNCHANGED <<banner, imageFiles, uploads, targetRows, second, bannerSaves, keptBanners,
                   leaked, passed>>

\* The foreign key refuses the DELETE while a banner shows the image.
RemoveMetadata(r) ==
    LET i == office[r].image
        free == \A b \in ExistingBanners : banner[b].image # i
    IN  /\ office[r].op = "removeImage"
        /\ office' = [office EXCEPT ![r] =
               IF free THEN [op |-> "removeFile", image |-> i] ELSE Resting]
        /\ imageRows' = IF free THEN imageRows \ {i} ELSE imageRows
        /\ UNCHANGED <<banner, imageFiles, uploads, targetRows, second, bannerSaves, keptBanners,
                       leaked, passed>>

DeleteBannerFile(r) ==
    /\ office[r].op = "removeFile"
    /\ imageFiles' = imageFiles \ {office[r].image}
    /\ leaked' = leaked \ {office[r].image}
    /\ office' = [office EXCEPT ![r] = Resting]
    /\ UNCHANGED <<banner, imageRows, uploads, targetRows, second, bannerSaves, keptBanners, passed>>

\* S3 refuses, which is logged, or the process stops.
DeleteBannerFileFails(r) ==
    /\ office[r].op = "removeFile"
    /\ leaked' = leaked \cup {office[r].image}
    /\ office' = [office EXCEPT ![r] = Resting]
    /\ UNCHANGED <<banner, imageRows, imageFiles, uploads, targetRows, second, bannerSaves,
                   keptBanners, passed>>

-----------------------------------------------------------------------------
(* remove of a collection or a category: a SELECT, and then a DELETE.      *)

\* Slip: hidden banners are not asked.
LookForActiveBanner(r, t) ==
    /\ office[r] = Resting
    /\ t \in targetRows
    /\ \A b \in ExistingBanners : banner[b].target = t => banner[b].status # "ACTIVE"
    /\ office' = [office EXCEPT ![r] = [op |-> "removeTarget", target |-> t]]
    /\ UNCHANGED <<banner, imageRows, imageFiles, uploads, targetRows, second, bannerSaves,
                   keptBanners, leaked, passed>>

LookForBanner(r, t) ==
    /\ office[r] = Resting
    /\ t \in targetRows
    /\ \A b \in ExistingBanners : banner[b].target # t
    /\ office' = [office EXCEPT ![r] = [op |-> "removeTarget", target |-> t]]
    /\ UNCHANGED <<banner, imageRows, imageFiles, uploads, targetRows, second, bannerSaves,
                   keptBanners, leaked, passed>>

DeleteTarget(r) ==
    /\ office[r].op = "removeTarget"
    /\ targetRows' = targetRows \ {office[r].target}
    /\ office' = [office EXCEPT ![r] = Resting]
    /\ UNCHANGED <<banner, imageRows, imageFiles, uploads, second, bannerSaves, keptBanners,
                   leaked, passed>>

-----------------------------------------------------------------------------
(* The shop: getActiveByPlacement.                                         *)

Active == {b \in ExistingBanners : banner[b].status = "ACTIVE"}

\* ORDER BY sort_order, id.
BannerList(rows) ==
    LET shown == DOMAIN rows
        before == {ab \in shown \X shown :
                      \/ rows[ab[1]].order < rows[ab[2]].order
                      \/ rows[ab[1]].order = rows[ab[2]].order /\ ab[1] < ab[2]}
        sorted == SortedBy(shown, before)
    IN  [n \in DOMAIN sorted |->
            [id |-> sorted[n], image |-> rows[sorted[n]].image, target |-> rows[sorted[n]].target]]

ActiveBanners == BannerList([b \in Active |-> banner[b]])

\* Slip: the banners are not counted.
BannerTagUncounted == Max({0} \cup {banner[b].stamp : b \in Active})

BannerTag == <<Cardinality(Active), Max({0} \cup {banner[b].stamp : b \in Active})>>

\* A client that shows the tag it has keeps what it has when the tag fits.
FetchBanners ==
    /\ IF keptBanners # NothingKept /\ keptBanners.tag = BannerTag
       THEN UNCHANGED <<keptBanners, passed>>
       ELSE /\ keptBanners' = [at |-> second, tag |-> BannerTag, rows |-> ActiveBanners]
            /\ passed' = FALSE
    /\ UNCHANGED <<banner, imageRows, imageFiles, uploads, targetRows, office, second,
                   bannerSaves, leaked>>

NextSecond ==
    /\ second < MaxSecond
    /\ second' = second + 1
    /\ UNCHANGED <<banner, imageRows, imageFiles, uploads, targetRows, office, bannerSaves,
                   keptBanners, leaked, passed>>

-----------------------------------------------------------------------------

EditBanner(r) ==
    \/ \E b \in Banners, i \in Images, t \in Targets : ResolveImage(r, b, i, t)
    \/ \E status \in {"ACTIVE", "INACTIVE"} : SaveBanner(r, status)
    \/ SaveBannerFails(r)

RemoveImage(r) ==
    \/ \E i \in Images : SnapShotBannerImage(r, i)
    \/ RemoveMetadata(r)
    \/ DeleteBannerFile(r) \/ DeleteBannerFileFails(r)

RemoveTarget(r) == DeleteTarget(r) \/ \E t \in Targets : LookForBanner(r, t)

NextMarketing ==
    \/ \E r \in Staff : EditBanner(r) \/ RemoveImage(r) \/ RemoveTarget(r)
    \/ \E b \in Banners : RemoveBanner(b)
    \/ \E form \in SetToSeqs(Banners) : ReorderBanner(form)
    \/ FetchBanners
    \/ NextSecond

MarketingSpec == InitMarketing /\ [][NextMarketing]_bannerVars

-----------------------------------------------------------------------------
(* Properties.                                                             *)

\* Rows and files agree although no transaction spans both: a banner shows an
\* image that is there, every row has its file, and a file without a row is one
\* that is being saved or removed, or was left by a request that failed.
BannersShowImages ==
    /\ \A b \in ExistingBanners : banner[b].image \in imageRows
    /\ imageRows \subseteq imageFiles
    /\ \A i \in imageFiles \ (imageRows \cup leaked) :
        \E r \in Staff : office[r].op \in {"save", "removeFile"} /\ office[r].image = i

\* A banner leads somewhere, hidden or not, unless it was saved after the removal
\* of its target had asked for banners.
BannersLeadSomewhere ==
    \A b \in ExistingBanners : banner[b].target \in targetRows \/ banner[b].unseen

\* A client is told that its banners are up to date only if they are, unless a
\* save that was stamped in the second of the fetch, or before, came after it.
TagTellsBanners ==
    keptBanners # NothingKept /\ keptBanners.tag = BannerTag /\ ~passed =>
        keptBanners.rows = ActiveBanners

MarketingHolds == BannersShowImages /\ BannersLeadSomewhere /\ TagTellsBanners
=============================================================================
