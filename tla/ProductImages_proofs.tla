------------------------ MODULE ProductImages_proofs ------------------------
(***************************************************************************)
(* Proofs about ProductImages, for any number of images, options, requests *)
(* and any limit: files, rows and places agree, orders keep the files they *)
(* show, and the form of a page that nobody touched changes nothing.       *)
(***************************************************************************)
EXTENDS ProductImages, FiniteSetTheorems, TLAPS

\* A list without repetition, as a payload holds one.
IsList(l, S) ==
    /\ Len(l) \in Nat /\ l \in [1 .. Len(l) -> S]
    /\ \A a, b \in 1 .. Len(l) : l[a] = l[b] => a = b

SentLoad(load) ==
    /\ IsList(load.gallery, GalleryImages) /\ Len(load.gallery) \in 1 .. ImageLimit
    /\ load.picture \in [Options -> OptionImages \cup {NoImage}]
    /\ \A o, q \in Options : load.picture[o] = load.picture[q] => o = q \/ load.picture[o] = NoImage
    /\ load.multi \in BOOLEAN
    /\ ~load.multi => \A o \in Options : load.picture[o] = NoImage
    /\ load.fresh \subseteq Images
    /\ \A i \in load.fresh : i \in Listed(load.gallery) \/ \E o \in Options : load.picture[o] = i

Sent(r) == call[r].op = "sent"

ImagesTyped ==
    /\ product \in {"none", "single", "multi"}
    /\ row \in [Images -> {"none", "live", "orphan", "gone"}]
    /\ file \in [Images -> BOOLEAN]
    /\ position = [i \in GalleryImages |-> position[i]]
    /\ signature = [i \in OptionImages |-> signature[i]]
    /\ doomed \subseteq Images /\ ordered \subseteq Images

CallsHold ==
    /\ call = [r \in Requests |-> call[r]]
    /\ \A r \in Requests : call[r].op \in {"idle", "sent", "saved"} /\ (Sent(r) => SentLoad(call[r]))

\* What was uploaded waits for its row, and no two requests wait for the same.
FreshWaits ==
    /\ \A r \in Requests : Sent(r) => \A i \in call[r].fresh : row[i] = "none" /\ file[i]
    /\ \A r, q \in Requests : Sent(r) /\ Sent(q) /\ r # q => call[r].fresh \cap call[q].fresh = {}

\* An orphan keeps its file as well, and what the cleanup has in its hands has
\* no row.
FilesKept ==
    /\ \A i \in Images : row[i] \in {"live", "orphan"} => file[i]
    /\ \A i \in doomed : row[i] = "gone"
    /\ FilesMatchRows

RowsInv == ImagesTyped /\ CallsHold /\ FreshWaits /\ FilesKept

\* The live images of the gallery are a list that fits the limit, and the sort
\* orders are its places.
InOrder(l) ==
    /\ IsList(l, GalleryImages) /\ Len(l) \in 1 .. ImageLimit
    /\ Listed(l) = Gallery
    /\ \A a \in 1 .. Len(l) : position[l[a]] = a

GalleryInOrder == IF product = "none" THEN Gallery = {} ELSE \E l : InOrder(l)

PicturesShown ==
    /\ product # "multi" => Pictured = {}
    /\ \A i \in Pictured : signature[i] \in Options
    /\ \A i, j \in Pictured : signature[i] = signature[j] => i = j

PlacesInv == GalleryInOrder /\ PicturesShown

\* What the shop has read, or the cache holds, are images that had a row.
Seen == {i \in Images : row[i] # "none"}

PairsOf(S) == SUBSET (S \X (Options \cup {NoImage}))

Halves(S) == [op : {"half"}, pictures : PairsOf(S)]
Reads(S) == [op : {"read"}, pictures : PairsOf(S), fallback : S \cup {NoImage}]
Views(S) == [op : {"view"}, pictures : PairsOf(S), fallback : S \cup {NoImage}]

ViewsInv ==
    /\ reader \in {NoView} \cup Halves(Seen) \cup Reads(Seen) \cup Views(Seen)
    /\ cached \in {NoView} \cup Views(Seen)

\* The row of an ordered image stays, unless it had gone before the order.
OrderedStay == \A i \in ordered : row[i] \in {"live", "orphan"} \/ i \in late

ImageInv == RowsInv /\ PlacesInv /\ ViewsInv /\ OrderedStay

-----------------------------------------------------------------------------
(* Lists.                                                                  *)

LEMMA IntervalsOfNumbers ==
    ASSUME NEW c, NEW n \in 0 .. c PROVE n \in Nat
PROOF OBVIOUS

LEMMA LenIsDomain ==
    ASSUME NEW S, NEW n \in Nat, NEW l \in [1 .. n -> S] PROVE Len(l) = n /\ DOMAIN l = 1 .. n
PROOF OBVIOUS

LEMMA ListFacts ==
    ASSUME NEW S, NEW l \in Lists(S)
    PROVE  IsList(l, S) /\ DOMAIN l = 1 .. Len(l) /\ Listed(l) \subseteq S
PROOF
<1>1. PICK n \in 0 .. Cardinality(S) :
        l \in {k \in [1 .. n -> S] : \A a, b \in 1 .. n : k[a] = k[b] => a = b}
  BY DEF Lists
<1>2. n \in Nat
  BY IntervalsOfNumbers
<1> QED BY <1>1, <1>2, LenIsDomain DEF Listed, IsList

\* A list without repetition of all of S has as many places as S has elements.
LEMMA ListOfAll ==
    ASSUME NEW S, NEW l, IsList(l, S), Listed(l) = S
    PROVE  IsFiniteSet(S) /\ Cardinality(S) = Len(l) /\ l \in Lists(S)
PROOF
<1>1. DOMAIN l = 1 .. Len(l)
  BY DEF IsList
<1>2. l \in Bijection(1 .. Len(l), S)
  BY <1>1 DEF IsList, Listed, Bijection, Injection, Surjection, IsInjective
<1>3. ExistsBijection(1 .. Len(l), S)
  BY <1>2 DEF ExistsBijection
<1>4. IsFiniteSet(S) /\ Cardinality(S) = Len(l)
  BY <1>3, FS_NatBijection, FS_CountingElements DEF IsList
<1>5. l \in Lists(S)
  BY <1>1, <1>4 DEF Lists, IsList
<1> QED BY <1>4, <1>5

-----------------------------------------------------------------------------
(* The editor.                                                             *)

LEMMA PayloadIsSent ==
    ASSUME NEW load \in Payloads, WellFormed(load)
    PROVE  load.op = "sent" /\ SentLoad(load) /\ load.fresh \subseteq Unused(Images)
PROOF
<1> DEFINE shown == {i \in Images : row[i] # "none"}
<1> DEFINE free == Unused(Images)
<1>1. PICK g \in Lists(GalleryImages \cap (shown \cup free)),
           p \in [Options -> (OptionImages \cap (shown \cup free)) \cup {NoImage}], m \in BOOLEAN :
        load = [op |-> "sent", gallery |-> g, picture |-> p, multi |-> m, create |-> product = "none",
                fresh |-> {i \in free : i \in Listed(g) \/ \E o \in Options : p[o] = i}]
  BY DEF Payloads
<1> HIDE DEF shown
<1>2. IsList(g, GalleryImages)
  BY ListFacts DEF IsList
<1>3. p \in [Options -> OptionImages \cup {NoImage}]
  OBVIOUS
<1>4. /\ load.op = "sent" /\ load.gallery = g /\ load.picture = p /\ load.multi = m
      /\ load.fresh = {i \in free : i \in Listed(g) \/ \E o \in Options : p[o] = i}
  BY <1>1
<1>5. free \subseteq Images
  BY DEF Unused
<1> HIDE DEF free
<1> QED BY <1>2, <1>3, <1>4, <1>5 DEF SentLoad, WellFormed, free

LEMMA UploadRows ==
    ASSUME RowsInv, NEW r \in Requests, Upload(r)
    PROVE  RowsInv'
PROOF
<1>1. PICK load \in Payloads :
        /\ WellFormed(load)
        /\ call' = [call EXCEPT ![r] = load]
        /\ file' = [i \in Images |-> file[i] \/ i \in load.fresh]
  BY DEF Upload
<1>2. load.op = "sent" /\ SentLoad(load) /\ load.fresh \subseteq Unused(Images)
  BY <1>1, PayloadIsSent
<1>3. UNCHANGED <<product, row, position, signature, doomed, leaked, ordered>>
  BY DEF Upload, shopVars
<1>4. call[r] = NoCall
  BY DEF Upload
<1>5. \A i \in load.fresh : i \in Images /\ row[i] = "none" /\ ~file[i]
  BY <1>2 DEF Unused
<1>6. call'[r] = load /\ \A q \in Requests \ {r} : call'[q] = call[q]
  BY <1>1 DEF RowsInv, CallsHold
<1>7. ImagesTyped'
  BY <1>1, <1>3 DEF RowsInv, ImagesTyped
<1>8. CallsHold'
  BY <1>1, <1>2, <1>6 DEF RowsInv, CallsHold, Sent, SentLoad
<1>9. \A i \in Images : file'[i] <=> file[i] \/ i \in load.fresh
  BY <1>1
<1>10. FreshWaits'
  <2>1. ASSUME NEW q \in Requests \ {r}, Sent(q), NEW i \in call[q].fresh
        PROVE  i \in Images /\ row[i] = "none" /\ file[i] /\ i \notin load.fresh
    BY <1>5, <2>1 DEF RowsInv, FreshWaits, CallsHold, SentLoad
  <2> QED BY <1>3, <1>5, <1>6, <1>9, <2>1 DEF RowsInv, FreshWaits, Sent
<1>11. Sending' = Sending \cup load.fresh
  BY <1>2, <1>4, <1>6 DEF Sending, NoCall
<1>12. FilesKept'
  BY <1>3, <1>5, <1>9, <1>11 DEF RowsInv, FilesKept, FilesMatchRows
<1> QED BY <1>7, <1>8, <1>10, <1>12 DEF RowsInv

\* What a save does to the rows.
LEMMA SaveRow ==
    ASSUME RowsInv, NEW r \in Requests, Save(r)
    PROVE  /\ Sent(r) /\ SentLoad(call[r])
           /\ \A i \in call[r].fresh : i \in Images /\ row[i] = "none" /\ row'[i] = "live"
           /\ \A i \in Images \ call[r].fresh : row'[i] = row[i] \/ (row[i] = "live" /\ row'[i] = "orphan")
           /\ row' \in [Images -> {"none", "live", "orphan", "gone"}]
PROOF
<1>1. Sent(r) /\ SentLoad(call[r])
  BY DEF Save, RowsInv, CallsHold, Sent
<1>2. row' = [i \in Images |-> IF i \in GalleryImages THEN GalleryAfter(call[r])[i] ELSE PicturesAfter(call[r])[i]]
  BY DEF Save
<1>3. \A i \in call[r].fresh : i \in Images /\ row[i] = "none"
  BY <1>1 DEF RowsInv, FreshWaits, SentLoad
<1>4. \A i \in Images : row[i] \in {"none", "live", "orphan", "gone"}
  BY DEF RowsInv, ImagesTyped
<1>5. ASSUME NEW i \in GalleryImages
      PROVE  /\ i \in Images
             /\ i \in call[r].fresh => row'[i] = "live"
             /\ i \notin call[r].fresh => row'[i] = row[i] \/ (row[i] = "live" /\ row'[i] = "orphan")
  <2>1. i \in Images /\ row'[i] = GalleryAfter(call[r])[i]
    BY <1>2 DEF Images
  <2>2. i \in call[r].fresh => row[i] = "none"
    BY <1>3
  <2> QED BY <2>1, <2>2 DEF GalleryAfter, Gallery, LiveImages
<1>6. ASSUME NEW i \in OptionImages
      PROVE  /\ i \in Images
             /\ i \in call[r].fresh => row'[i] = "live"
             /\ i \notin call[r].fresh => row'[i] = row[i] \/ (row[i] = "live" /\ row'[i] = "orphan")
  <2>1. i \in Images /\ row'[i] = PicturesAfter(call[r])[i]
    BY <1>2, ImageAssumption DEF Images
  <2>2. i \in call[r].fresh => row[i] = "none"
    BY <1>3
  <2> QED BY <2>1, <2>2 DEF PicturesAfter, Pictured, LiveImages
<1>7. row' = [i \in Images |-> row'[i]]
  BY <1>2
<1> QED BY <1>1, <1>3, <1>4, <1>5, <1>6, <1>7 DEF Images

\* The list that was sent is the gallery afterwards.
LEMMA SaveGallery ==
    ASSUME RowsInv, NEW r \in Requests, Save(r)
    PROVE  /\ Gallery' = Listed(call[r].gallery) /\ product' # "none"
           /\ \A l : l = call[r].gallery => InOrder(l)'
PROOF
<1> DEFINE load == call[r]
<1>1. SentLoad(load)
  BY SaveRow
<1>2. IsList(load.gallery, GalleryImages) /\ DOMAIN load.gallery = 1 .. Len(load.gallery)
  BY <1>1 DEF SentLoad, IsList
<1>3. Listed(load.gallery) \subseteq GalleryImages
  BY <1>2 DEF IsList, Listed
<1>4. \A i \in GalleryImages : i \in load.fresh => i \in Listed(load.gallery)
  BY <1>1, ImageAssumption DEF SentLoad, Images
<1>5. GalleryAccepted(load) /\ product' \in {"single", "multi"} /\ position' = PositionAfter(load)
  BY DEF Save
<1>6. \A i \in GalleryImages : i \in Images /\ row'[i] = GalleryAfter(load)[i]
  BY DEF Save, Images
<1>7. \A i \in GalleryImages : row'[i] = "live" <=> i \in Listed(load.gallery)
  BY <1>3, <1>4, <1>5, <1>6 DEF GalleryAfter, GalleryAccepted, Gallery, LiveImages
<1>8. Gallery' = Listed(load.gallery)
  BY <1>3, <1>6, <1>7 DEF Gallery, LiveImages
<1>9. ASSUME NEW a \in 1 .. Len(load.gallery) PROVE position'[load.gallery[a]] = a
  <2>1. load.gallery[a] \in GalleryImages /\ load.gallery[a] \in Listed(load.gallery)
    BY <1>2, <1>3 DEF Listed
  <2>2. \A n \in DOMAIN load.gallery : load.gallery[n] = load.gallery[a] => n = a
    BY <1>2 DEF IsList
  <2> QED BY <1>2, <1>5, <2>1, <2>2 DEF PositionAfter
<1>10. Len(load.gallery) \in 1 .. ImageLimit
  BY <1>1 DEF SentLoad
<1> HIDE DEF load
<1>11. ASSUME NEW l, l = load.gallery PROVE InOrder(l)'
  BY <1>2, <1>8, <1>9, <1>10, <1>11 DEF InOrder, IsList
<1> QED BY <1>5, <1>8, <1>11 DEF load

LEMMA SaveRows ==
    ASSUME RowsInv, NEW r \in Requests, Save(r)
    PROVE  RowsInv'
PROOF
<1>1. /\ Sent(r) /\ SentLoad(call[r])
      /\ \A i \in call[r].fresh : i \in Images /\ row[i] = "none" /\ row'[i] = "live"
      /\ \A i \in Images \ call[r].fresh : row'[i] = row[i] \/ (row[i] = "live" /\ row'[i] = "orphan")
      /\ row' \in [Images -> {"none", "live", "orphan", "gone"}]
  BY SaveRow
<1>2. UNCHANGED <<file, doomed, leaked, ordered>>
  BY DEF Save, shopVars
<1>3. /\ product' \in {"single", "multi"}
      /\ position' = [i \in GalleryImages |-> position'[i]]
      /\ signature' = [i \in OptionImages |-> signature'[i]]
  BY DEF Save, PositionAfter, SignaturesAfter
<1>4. ImagesTyped'
  BY <1>1, <1>2, <1>3 DEF RowsInv, ImagesTyped
<1>5. /\ call' = [q \in Requests |-> call'[q]]
      /\ call'[r].op \in {"idle", "saved"}
      /\ \A q \in Requests \ {r} : call'[q] = call[q]
  BY DEF Save, RowsInv, CallsHold, NoCall
<1>6. CallsHold'
  BY <1>5 DEF RowsInv, CallsHold, Sent, SentLoad
<1>7. ASSUME NEW q \in Requests \ {r}, Sent(q)
      PROVE  call[q].fresh \subseteq Images \ call[r].fresh
  BY <1>1, <1>7 DEF RowsInv, FreshWaits, CallsHold, SentLoad
<1>8. \A q \in Requests : Sent(q)' => q # r /\ Sent(q)
  BY <1>5 DEF Sent
<1>9. FreshWaits'
  <2>1. ASSUME NEW q \in Requests, Sent(q)', NEW i \in call'[q].fresh PROVE row'[i] = "none" /\ file'[i]
    <3>1. q \in Requests \ {r} /\ Sent(q) /\ i \in call[q].fresh
      BY <1>5, <1>8, <2>1
    <3>2. row[i] = "none" /\ file[i]
      BY <3>1 DEF RowsInv, FreshWaits
    <3> QED BY <1>1, <1>2, <1>7, <3>1, <3>2
  <2>2. ASSUME NEW q \in Requests, NEW x \in Requests, Sent(q)', Sent(x)', q # x
        PROVE  call'[q].fresh \cap call'[x].fresh = {}
    BY <1>5, <1>8, <2>2 DEF RowsInv, FreshWaits
  <2> QED BY <2>1, <2>2 DEF FreshWaits, Sent
<1>10. Sending \subseteq Sending' \cup call[r].fresh
  BY <1>5 DEF Sending
<1>11. FilesKept'
  <2>1. ASSUME NEW i \in Images PROVE row'[i] \in {"live", "orphan"} => file'[i]
    BY <1>1, <1>2 DEF RowsInv, FilesKept, FreshWaits
  <2>2. \A i \in doomed' : row'[i] = "gone"
    BY <1>1, <1>2 DEF RowsInv, FilesKept, ImagesTyped
  <2>3. ASSUME NEW i \in Images, file'[i], row'[i] \in {"none", "gone"}
        PROVE  i \in Sending' \cup doomed' \cup leaked'
    BY <1>1, <1>2, <1>10, <2>3 DEF RowsInv, FilesKept, FilesMatchRows
  <2> QED BY <2>1, <2>2, <2>3 DEF FilesKept, FilesMatchRows
<1> QED BY <1>4, <1>6, <1>9, <1>11 DEF RowsInv

LEMMA SavePictures ==
    ASSUME RowsInv, PicturesShown, NEW r \in Requests, Save(r)
    PROVE  PicturesShown'
PROOF
<1> DEFINE load == call[r]
<1>1. SentLoad(load) /\ \A i \in load.fresh : row[i] = "none"
  BY SaveRow
<1>2. \A i \in OptionImages : i \in Images /\ i \notin GalleryImages /\ i # NoImage
  BY ImageAssumption DEF Images
<1>3. \A i \in OptionImages : row'[i] = PicturesAfter(load)[i]
  BY <1>2 DEF Save
<1>4. product' = (IF load.multi THEN "multi" ELSE "single") /\ signature' = SignaturesAfter(load)
  BY DEF Save
<1>5. \A i \in OptionImages \cap load.fresh : \E o \in Options : load.picture[o] = i
  <2>1. Listed(load.gallery) \subseteq GalleryImages
    BY <1>1 DEF SentLoad, IsList, Listed
  <2> QED BY <1>1, <1>2, <2>1 DEF SentLoad
<1>6. CASE load.multi
  <2>1. \A i \in OptionImages : row'[i] = "live" <=> i \in load.fresh \/ (i \in Pictured /\ i \in KeptUsed(load))
    BY <1>1, <1>2, <1>3, <1>6 DEF PicturesAfter, Pictured, LiveImages
  <2>2. Pictured' \subseteq OptionImages \cap (KeptUsed(load) \cup load.fresh)
    BY <2>1 DEF Pictured, LiveImages
  <2>3. \A i \in Pictured' : \E o \in Options : load.picture[o] = i
    BY <1>5, <2>2 DEF KeptUsed, Kept
  <2>4. \A i \in Pictured' : signature'[i] = OptionOf(load, i)
    BY <1>4, <1>6, <2>2 DEF SignaturesAfter
  <2>5. \A i \in Pictured' : signature'[i] \in Options /\ load.picture[signature'[i]] = i
    BY <2>3, <2>4 DEF OptionOf
  <2> QED BY <1>4, <1>6, <2>5 DEF PicturesShown
<1>7. CASE ~load.multi
  <2>1. OptionImages \cap load.fresh = {}
    BY <1>1, <1>2, <1>5, <1>7 DEF SentLoad
  <2>2. CASE product = "multi"
    <3>1. \A i \in OptionImages : row'[i] # "live"
      BY <1>3, <1>7, <2>1, <2>2 DEF PicturesAfter
    <3> QED BY <3>1 DEF PicturesShown, Pictured, LiveImages
  <2>3. CASE product # "multi"
    <3>1. \A i \in OptionImages : row'[i] # "live"
      BY <1>2, <1>3, <1>7, <2>1, <2>3 DEF PicturesAfter, PicturesShown, Pictured, LiveImages
    <3> QED BY <3>1 DEF PicturesShown, Pictured, LiveImages
  <2> QED BY <2>2, <2>3
<1>8. load.multi \in BOOLEAN
  BY <1>1 DEF SentLoad
<1> QED BY <1>6, <1>7, <1>8

\* Rows come and go, but none is forgotten: what the shop knows stays known.
LEMMA SeenStays ==
    ASSUME ViewsInv, UNCHANGED <<reader, cached>>,
           \A i \in Images : row[i] # "none" => row'[i] # "none"
    PROVE  ViewsInv'
PROOF
<1>1. Seen \subseteq Seen'
  BY DEF Seen
<1>2. PairsOf(Seen) \subseteq PairsOf(Seen')
  BY <1>1 DEF PairsOf
<1>3. /\ Halves(Seen) \subseteq Halves(Seen') /\ Reads(Seen) \subseteq Reads(Seen')
      /\ Views(Seen) \subseteq Views(Seen')
  BY <1>1, <1>2 DEF Halves, Reads, Views
<1> QED BY <1>3 DEF ViewsInv

\* A step that leaves the rows and their places alone.
LEMMA PlacesStay ==
    ASSUME PlacesInv, UNCHANGED <<product, row, position, signature>>
    PROVE  PlacesInv'
PROOF
<1>1. Gallery' = Gallery /\ Pictured' = Pictured
  BY DEF Gallery, Pictured, LiveImages
<1>2. \A l : InOrder(l) => InOrder(l)'
  BY <1>1 DEF InOrder
<1> QED BY <1>1, <1>2 DEF PlacesInv, GalleryInOrder, PicturesShown

LEMMA UploadKeeps ==
    ASSUME ImageInv, NEW r \in Requests, Upload(r)
    PROVE  ImageInv'
PROOF
<1>1. UNCHANGED <<product, row, position, signature, cached, shopVars>>
  BY DEF Upload
<1>2. RowsInv'
  BY UploadRows DEF ImageInv
<1> QED BY <1>1, <1>2, PlacesStay, SeenStays DEF ImageInv, shopVars, OrderedStay

LEMMA SaveKeeps ==
    ASSUME ImageInv, NEW r \in Requests, Save(r)
    PROVE  ImageInv'
PROOF
<1>1. RowsInv'
  BY SaveRows DEF ImageInv
<1>2. GalleryInOrder'
  BY SaveGallery DEF ImageInv, GalleryInOrder
<1>3. PicturesShown'
  BY SavePictures DEF ImageInv, PlacesInv
<1>4. UNCHANGED <<cached, reader, ordered, late>>
  BY DEF Save, shopVars
<1>5. \A i \in Images : /\ row[i] # "none" => row'[i] # "none"
                        /\ row[i] \in {"live", "orphan"} => row'[i] \in {"live", "orphan"}
  BY SaveRow DEF ImageInv
<1>6. ViewsInv'
  BY <1>4, <1>5, SeenStays DEF ImageInv
<1>7. OrderedStay'
  BY <1>4, <1>5 DEF ImageInv, OrderedStay, RowsInv, ImagesTyped
<1> QED BY <1>1, <1>2, <1>3, <1>6, <1>7 DEF ImageInv, PlacesInv

\* The other steps of the editor end a request.
LEMMA RequestEnds ==
    ASSUME ImageInv, NEW r \in Requests, SaveFails(r) \/ Invalidate(r)
    PROVE  ImageInv'
PROOF
<1>1. /\ UNCHANGED <<product, row, position, signature, file, doomed, reader, ordered, late>>
      /\ call' = [call EXCEPT ![r] = NoCall]
      /\ cached' \in {NoView, cached}
  BY DEF SaveFails, Invalidate, shopVars
<1>2. PlacesInv'
  BY <1>1, PlacesStay DEF ImageInv
<1>3. Seen' = Seen
  BY <1>1 DEF Seen
<1>4. ViewsInv' /\ OrderedStay'
  BY <1>1, <1>3 DEF ImageInv, ViewsInv, OrderedStay
<1>5. ImagesTyped' /\ CallsHold'
  BY <1>1 DEF ImageInv, RowsInv, ImagesTyped, CallsHold, Sent, SentLoad, NoCall
<1>6. /\ ~Sent(r)'
      /\ \A q \in Requests \ {r} : call'[q] = call[q]
  BY <1>1 DEF ImageInv, RowsInv, CallsHold, Sent, NoCall
<1>7. FreshWaits'
  BY <1>1, <1>6 DEF ImageInv, RowsInv, FreshWaits, Sent
<1>8. Sending \cup leaked \subseteq Sending' \cup leaked'
  BY <1>6 DEF SaveFails, Invalidate, Sending, Sent
<1>9. FilesKept'
  BY <1>1, <1>8 DEF ImageInv, RowsInv, FilesKept, FilesMatchRows
<1> QED BY <1>2, <1>4, <1>5, <1>7, <1>9 DEF ImageInv, RowsInv

-----------------------------------------------------------------------------
(* The shop.                                                               *)

LEMMA ReadingKeeps ==
    ASSUME RowsInv, PlacesInv, ordered' \subseteq Images,
           UNCHANGED <<product, row, position, signature, file, call, doomed, leaked>>
    PROVE  RowsInv' /\ PlacesInv' /\ Seen' = Seen
PROOF
<1>1. RowsInv'
  BY DEF RowsInv, ImagesTyped, CallsHold, Sent, SentLoad, FreshWaits, FilesKept, FilesMatchRows, Sending
<1> QED BY <1>1, PlacesStay DEF Seen

\* The gallery has a first image.
LEMMA FallbackIsSeen ==
    ASSUME ImageInv
    PROVE  Fallback \in Seen \cup {NoImage}
PROOF
<1>1. CASE Gallery = {}
  BY <1>1 DEF Fallback
<1>2. CASE Gallery # {}
  <2>1. PICK l : InOrder(l)
    BY <1>2 DEF ImageInv, PlacesInv, GalleryInOrder
  <2>2. DOMAIN l = 1 .. Len(l) /\ Len(l) \in Nat /\ Len(l) >= 1
    BY <2>1, ImageAssumption DEF InOrder, IsList
  <2>3. l[1] \in Gallery /\ position[l[1]] = 1
    BY <2>1, <2>2 DEF InOrder, Listed
  <2>4. \A j \in Gallery : \E a \in 1 .. Len(l) : position[j] = a
    BY <2>1, <2>2 DEF InOrder, Listed
  <2>5. \A j \in Gallery : position[l[1]] <= position[j]
    BY <2>2, <2>3, <2>4
  <2>6. Fallback \in Gallery
    BY <1>2, <2>3, <2>5 DEF Fallback
  <2> QED BY <2>6 DEF Gallery, LiveImages, Seen
<1> QED BY <1>1, <1>2

LEMMA ReadKeeps ==
    ASSUME ImageInv, \/ ReadCache \/ ReadPictures \/ ReadFallback \/ FillCache
                     \/ StopReading \/ CacheExpires
    PROVE  ImageInv'
PROOF
<1>1. UNCHANGED <<product, row, position, signature, file, call, doomed, leaked, ordered, late>>
  BY DEF ReadCache, ReadPictures, ReadFallback, FillCache, StopReading, CacheExpires
<1>2. RowsInv' /\ PlacesInv' /\ Seen' = Seen /\ OrderedStay'
  BY <1>1, ReadingKeeps DEF ImageInv, OrderedStay, RowsInv, ImagesTyped
<1>3. ViewsInv'
  <2> DEFINE S == Seen
  <2>1. /\ reader \in {NoView} \cup Halves(S) \cup Reads(S) \cup Views(S)
        /\ cached \in {NoView} \cup Views(S)
    BY DEF ImageInv, ViewsInv
  <2>2. CASE ReadCache
    BY <1>2, <2>1, <2>2 DEF ReadCache, ViewsInv
  <2>3. CASE ReadPictures
    <3>1. {<<i, signature[i]>> : i \in Pictured} \in PairsOf(S)
      BY DEF ImageInv, PlacesInv, PicturesShown, Pictured, LiveImages, Seen, PairsOf
    <3>2. reader' \in Halves(S)
      BY <2>3, <3>1 DEF ReadPictures, Halves
    <3> QED BY <1>2, <2>1, <2>3, <3>2 DEF ReadPictures, ViewsInv
  <2>4. CASE ReadFallback
    <3>1. reader.pictures \in PairsOf(S)
      BY <2>1, <2>4 DEF ReadFallback, NoView, Halves, Reads, Views
    <3>2. Fallback \in S \cup {NoImage}
      BY FallbackIsSeen
    <3>3. reader' \in Reads(S)
      BY <2>4, <3>1, <3>2 DEF ReadFallback, Reads
    <3> QED BY <1>2, <2>1, <2>4, <3>3 DEF ReadFallback, ViewsInv
  <2>5. CASE FillCache
    <3>1. reader \in Reads(S)
      BY <2>1, <2>5 DEF FillCache, NoView, Halves, Reads, Views
    <3>2. [reader EXCEPT !.op = "view"] \in Views(S)
      BY <3>1 DEF Reads, Views
    <3> QED BY <1>2, <2>5, <3>2 DEF FillCache, ViewsInv
  <2>6. CASE StopReading \/ CacheExpires
    BY <1>2, <2>1, <2>6 DEF StopReading, CacheExpires, ViewsInv
  <2> QED BY <2>2, <2>3, <2>4, <2>5, <2>6
<1> QED BY <1>2, <1>3 DEF ImageInv

LEMMA PlaceItemKeeps ==
    ASSUME ImageInv, PlaceItem
    PROVE  ImageInv'
PROOF
<1>1. /\ UNCHANGED <<product, row, position, signature, file, call, cached, doomed, leaked>>
      /\ reader' = NoView /\ reader.op = "view"
  BY DEF PlaceItem
<1>2. PICK snapshot \in Snapshots : \E i \in BestImages(reader, snapshot) \ {NoImage} :
        /\ ordered' = ordered \cup {i}
        /\ late' = IF row[i] = "gone" /\ i \notin ordered THEN late \cup {i} ELSE late
  BY DEF PlaceItem
<1>3. PICK i \in BestImages(reader, snapshot) \ {NoImage} :
        /\ ordered' = ordered \cup {i}
        /\ late' = IF row[i] = "gone" /\ i \notin ordered THEN late \cup {i} ELSE late
  BY <1>2
<1>4. reader \in Views(Seen)
  BY <1>1 DEF ImageInv, ViewsInv, NoView, Halves, Reads, Views
<1>5. reader.fallback \in Seen \cup {NoImage} /\ reader.pictures \subseteq Seen \X (Options \cup {NoImage})
  BY <1>4 DEF Views, PairsOf
<1>6. i \in Seen
  BY <1>3, <1>5 DEF BestImages
<1>7. i \in Images /\ row[i] \in {"live", "orphan", "gone"}
  BY <1>6 DEF Seen, ImageInv, RowsInv, ImagesTyped
<1>8. RowsInv' /\ PlacesInv' /\ Seen' = Seen
  BY <1>1, <1>3, <1>7, ReadingKeeps DEF ImageInv, RowsInv, ImagesTyped
<1>9. ViewsInv'
  BY <1>1, <1>8 DEF ImageInv, ViewsInv
<1>10. OrderedStay'
  BY <1>1, <1>3, <1>7 DEF ImageInv, OrderedStay
<1> QED BY <1>8, <1>9, <1>10 DEF ImageInv

-----------------------------------------------------------------------------
(* The cleanup.                                                            *)

LEMMA DeleteRowsKeeps ==
    ASSUME ImageInv, NEW pool \in SUBSET Images, DeleteRows(pool)
    PROVE  ImageInv'
PROOF
<1>1. PICK old \in SUBSET Removable(pool) :
        /\ row' = [i \in Images |-> IF i \in old THEN "gone" ELSE row[i]]
        /\ signature' = [i \in OptionImages |-> IF i \in old THEN NoImage ELSE signature[i]]
        /\ doomed' = doomed \cup old
  BY DEF DeleteRows
<1>2. UNCHANGED <<product, position, file, call, cached, leaked, reader, ordered, late>>
  BY DEF DeleteRows, shopVars
<1>3. \A i \in old : i \in Images /\ row[i] = "orphan" /\ i \notin ordered
  BY DEF Removable
<1>4. \A i \in Images : row'[i] = IF i \in old THEN "gone" ELSE row[i]
  BY <1>1
<1>5. ImagesTyped' /\ CallsHold'
  BY <1>1, <1>2, <1>3 DEF ImageInv, RowsInv, ImagesTyped, CallsHold, Sent, SentLoad
<1>6. Sending' = Sending
  BY <1>2 DEF Sending
<1>7. FreshWaits'
  BY <1>2, <1>3, <1>4 DEF ImageInv, RowsInv, FreshWaits, CallsHold, Sent, SentLoad
<1>8. FilesKept'
  BY <1>1, <1>2, <1>3, <1>4, <1>6 DEF ImageInv, RowsInv, ImagesTyped, FilesKept, FilesMatchRows
<1>9. Gallery' = Gallery /\ Pictured' = Pictured
  BY <1>3, <1>4 DEF Gallery, Pictured, LiveImages
<1>10. \A i \in Pictured : signature'[i] = signature[i]
  BY <1>1, <1>3 DEF Pictured, LiveImages
<1>11. PlacesInv'
  <2>1. \A l : InOrder(l) => InOrder(l)'
    BY <1>2, <1>9 DEF InOrder
  <2> QED BY <1>2, <1>9, <1>10, <2>1 DEF ImageInv, PlacesInv, GalleryInOrder, PicturesShown
<1>12. ViewsInv'
  BY <1>2, <1>3, <1>4, SeenStays DEF ImageInv
<1>13. OrderedStay'
  BY <1>2, <1>3, <1>4 DEF ImageInv, RowsInv, ImagesTyped, OrderedStay
<1> QED BY <1>5, <1>7, <1>8, <1>11, <1>12, <1>13 DEF ImageInv, RowsInv

LEMMA DeleteFileKeeps ==
    ASSUME ImageInv, NEW i \in Images, DeleteFile(i) \/ DeleteFileFails(i)
    PROVE  ImageInv'
PROOF
<1>1. /\ UNCHANGED <<product, row, position, signature, call, cached, reader, ordered, late>>
      /\ i \in doomed /\ doomed' = doomed \ {i}
  BY DEF DeleteFile, DeleteFileFails, shopVars
<1>2. \/ file' = [file EXCEPT ![i] = FALSE] /\ leaked' = leaked
      \/ file' = file /\ leaked' = leaked \cup {i}
  BY DEF DeleteFile, DeleteFileFails
<1>3. row[i] = "gone"
  BY <1>1 DEF ImageInv, RowsInv, FilesKept
<1>4. PlacesInv' /\ Seen' = Seen
  BY <1>1, PlacesStay DEF ImageInv, Seen
<1>5. ViewsInv' /\ OrderedStay'
  BY <1>1, <1>4 DEF ImageInv, ViewsInv, OrderedStay
<1>6. ImagesTyped' /\ CallsHold'
  <2>1. CallsHold'
    BY <1>1 DEF ImageInv, RowsInv, CallsHold, Sent, SentLoad
  <2>2. file' \in [Images -> BOOLEAN]
    BY <1>2 DEF ImageInv, RowsInv, ImagesTyped
  <2>3. ImagesTyped'
    BY <1>1, <2>2 DEF ImageInv, RowsInv, ImagesTyped
  <2> QED BY <2>1, <2>3
<1>7. /\ \A j \in Images \ {i} : file'[j] = file[j]
      /\ ~file'[i] \/ i \in leaked'
  BY <1>2 DEF ImageInv, RowsInv, ImagesTyped
<1>8. FreshWaits'
  BY <1>1, <1>3, <1>7 DEF ImageInv, RowsInv, FreshWaits, CallsHold, Sent, SentLoad
<1>9. Sending' = Sending /\ leaked \subseteq leaked'
  BY <1>1, <1>2 DEF Sending
<1>10. FilesKept'
  BY <1>1, <1>3, <1>7, <1>9 DEF ImageInv, RowsInv, FilesKept, FilesMatchRows
<1> QED BY <1>4, <1>5, <1>6, <1>8, <1>10 DEF ImageInv, RowsInv

-----------------------------------------------------------------------------

LEMMA InitKeeps == ASSUME InitImages PROVE ImageInv
PROOF
<1>1. \A i \in Images : row[i] \in {"none", "gone"}
  BY DEF InitImages
<1>2. Gallery = {} /\ Pictured = {}
  BY <1>1 DEF Gallery, Pictured, LiveImages
<1>3. \A r \in Requests : call[r].op = "idle"
  BY DEF InitImages, NoCall
<1>4. CallsHold /\ FreshWaits
  BY <1>3 DEF InitImages, CallsHold, Sent, FreshWaits
<1>5. ImagesTyped /\ FilesKept
  BY <1>1 DEF InitImages, ImagesTyped, FilesKept, FilesMatchRows
<1> QED BY <1>2, <1>4, <1>5 DEF InitImages, ImageInv, RowsInv, PlacesInv, GalleryInOrder, PicturesShown, ViewsInv, OrderedStay

LEMMA StepKeeps ==
    ASSUME ImageInv, [NextImages]_imageVars
    PROVE  ImageInv'
PROOF
<1>1. CASE EditorStep
  BY <1>1, UploadKeeps, SaveKeeps, RequestEnds DEF EditorStep
<1>2. CASE ShopStep
  BY <1>2, ReadKeeps, PlaceItemKeeps DEF ShopStep
<1>3. CASE CleanupStep
  <2>1. GalleryImages \in SUBSET Images /\ OptionImages \in SUBSET Images
    BY DEF Images
  <2> QED BY <1>3, <2>1, DeleteRowsKeeps, DeleteFileKeeps
          DEF CleanupStep, DeleteGalleryRows, DeleteOptionRows
<1>4. CASE UNCHANGED imageVars
  <2>1. UNCHANGED <<product, row, position, signature, file, call, doomed, leaked, ordered, late, reader, cached>>
    BY <1>4 DEF imageVars
  <2>2. RowsInv' /\ PlacesInv' /\ Seen' = Seen
    BY <2>1, ReadingKeeps DEF ImageInv, RowsInv, ImagesTyped
  <2> QED BY <2>1, <2>2 DEF ImageInv, ViewsInv, OrderedStay
<1> QED BY <1>1, <1>2, <1>3, <1>4 DEF NextImages

LEMMA ImageInvariant == ImageSpec => []ImageInv
PROOF
<1>1. InitImages => ImageInv
  BY InitKeeps
<1>2. ImageInv /\ [NextImages]_imageVars => ImageInv'
  BY StepKeeps
<1> QED BY <1>1, <1>2, PTL DEF ImageSpec

\* Whatever is saved, fails or is cleaned up, and in whatever order: a live row
\* has its file, a file without a row is accounted for, and no two live images
\* share a place.
THEOREM RowsFilesAndPlaces == ImageSpec => []ImagesHold
PROOF
<1>1. ASSUME ImageInv PROVE ImagesHold
  <2>1. FilesMatchRows
    BY <1>1 DEF ImageInv, RowsInv, FilesKept
  <2>2. ASSUME NEW i \in Gallery, NEW j \in Gallery, position[i] = position[j] PROVE i = j
    <3>1. PICK l : InOrder(l)
      BY <1>1 DEF ImageInv, PlacesInv, GalleryInOrder
    <3>2. \A k \in Gallery : \E a \in 1 .. Len(l) : k = l[a] /\ position[k] = a
      BY <3>1 DEF InOrder, IsList, Listed
    <3> QED BY <2>2, <3>2
  <2>3. \A i, j \in Pictured : signature[i] = signature[j] => i = j
    BY <1>1 DEF ImageInv, PlacesInv, PicturesShown
  <2> QED BY <2>1, <2>2, <2>3 DEF ImagesHold, OneImagePerPlace
<1> QED BY <1>1, ImageInvariant, PTL

\* The image that an order shows keeps its file, unless the order was placed
\* when the cleanup had already deleted the row.
THEOREM OrdersAreProtected == ImageSpec => []OrdersProtectImages
PROOF
<1>1. ASSUME ImageInv PROVE OrdersProtectImages
  BY <1>1 DEF ImageInv, OrderedStay, RowsInv, ImagesTyped, FilesKept, OrdersProtectImages
<1> QED BY <1>1, ImageInvariant, PTL

-----------------------------------------------------------------------------
(* The form of a page that nobody touched.                                 *)

LEMMA FormGalleryIsGallery ==
    ASSUME ImageInv, product # "none"
    PROVE  Listed(FormGallery) = Gallery /\ Len(FormGallery) \in 1 .. ImageLimit
PROOF
<1>1. PICK l : InOrder(l)
  BY DEF ImageInv, PlacesInv, GalleryInOrder
<1>2. DOMAIN l = 1 .. Len(l) /\ Len(l) \in 1 .. ImageLimit /\ Listed(l) = Gallery
  BY <1>1 DEF InOrder, IsList
<1>3. IsList(l, Gallery)
  BY <1>1, <1>2 DEF InOrder, IsList, Listed
<1>4. l \in Lists(Gallery) /\ Cardinality(Gallery) = Len(l)
  BY <1>2, <1>3, ListOfAll
<1>5. \A a, b \in DOMAIN l : a < b => position[l[a]] < position[l[b]]
  BY <1>1, <1>2 DEF InOrder
<1>6. FormGallery \in Lists(Gallery) /\ Listed(FormGallery) = Gallery
  BY <1>2, <1>4, <1>5 DEF FormGallery
<1>7. Cardinality(Gallery) = Len(FormGallery)
  BY <1>6, ListFacts, ListOfAll
<1> QED BY <1>2, <1>4, <1>6, <1>7

LEMMA FormPictures ==
    ASSUME ImageInv
    PROVE  /\ \A o \in Options : \/ FormPicture(o) = NoImage /\ \A i \in Pictured : signature[i] # o
                                 \/ FormPicture(o) \in Pictured /\ signature[FormPicture(o)] = o
           /\ \A i \in Pictured : signature[i] \in Options /\ FormPicture(signature[i]) = i
           /\ NoImage \notin Pictured
PROOF
<1>1. PicturesShown
  BY DEF ImageInv, PlacesInv
<1>2. NoImage \notin Pictured
  BY ImageAssumption DEF Pictured, LiveImages
<1>3. ASSUME NEW o \in Options
      PROVE  \/ FormPicture(o) = NoImage /\ \A i \in Pictured : signature[i] # o
             \/ FormPicture(o) \in Pictured /\ signature[FormPicture(o)] = o
  BY DEF FormPicture
<1> QED BY <1>1, <1>2, <1>3 DEF PicturesShown

\* Saving a page as it is shown is accepted and changes no image.
THEOREM UntouchedFormIsHarmless == ImageSpec => []UntouchedFormChangesNothing
PROOF
<1>1. ASSUME ImageInv, product # "none"
      PROVE  /\ WellFormed(Form) /\ GalleryAccepted(Form) /\ PicturesAccepted(Form)
             /\ GalleryAfter(Form) = [i \in GalleryImages |-> row[i]]
             /\ PicturesAfter(Form) = [i \in OptionImages |-> row[i]]
             /\ \A i \in Pictured : SignaturesAfter(Form)[i] = signature[i]
  <2> DEFINE form == Form
  <2>1. /\ form.gallery = FormGallery /\ form.picture = [o \in Options |-> FormPicture(o)]
        /\ (form.multi <=> product = "multi") /\ form.fresh = {}
    BY DEF Form
  <2> HIDE DEF form
  <2>2. Listed(form.gallery) = Gallery /\ Len(form.gallery) \in 1 .. ImageLimit
    BY <1>1, <2>1, FormGalleryIsGallery
  <2>3. \A o \in Options : form.picture[o] = FormPicture(o)
    BY <2>1
  <2>4. PicturesShown
    BY <1>1 DEF ImageInv, PlacesInv
  <2>5. WellFormed(form)
    <3>1. ~form.multi => \A o \in Options : form.picture[o] = NoImage
      BY <1>1, <2>1, <2>3, <2>4, FormPictures DEF PicturesShown
    <3>2. \A o, q \in Options : form.picture[o] = form.picture[q] => o = q \/ form.picture[o] = NoImage
      BY <1>1, <2>3, FormPictures
    <3> QED BY <2>2, <3>1, <3>2 DEF WellFormed
  <2>6. GalleryAccepted(form)
    BY <2>1, <2>2 DEF GalleryAccepted
  <2>7. KeptUsed(form) = Pictured
    <3>1. CASE product = "multi"
      <4>1. Kept(form) = Pictured
        BY <1>1, <2>1, <2>3, FormPictures DEF Kept
      <4> QED BY <2>1, <3>1, <4>1 DEF KeptUsed
    <3>2. CASE product # "multi"
      BY <2>4, <3>2 DEF KeptUsed, PicturesShown
    <3> QED BY <3>1, <3>2
  <2>8. PicturesAccepted(form)
    BY <2>7 DEF PicturesAccepted, Pictured, LiveImages
  <2>9. GalleryAfter(form) = [i \in GalleryImages |-> row[i]]
    BY <2>1, <2>2 DEF GalleryAfter
  <2>10. PicturesAfter(form) = [i \in OptionImages |-> row[i]]
    <3>1. ~form.multi => product # "multi"
      BY <2>1
    <3> QED BY <2>1, <2>7, <3>1 DEF PicturesAfter
  <2>11. ASSUME NEW i \in Pictured PROVE SignaturesAfter(form)[i] = signature[i]
    <3>1. i \in OptionImages
      BY DEF Pictured
    <3>2. product = "multi" /\ form.multi
      BY <2>1, <2>4 DEF PicturesShown
    <3>3. SignaturesAfter(form)[i] = OptionOf(form, i)
      BY <2>1, <2>7, <3>1, <3>2 DEF SignaturesAfter
    <3>4. /\ signature[i] \in Options /\ form.picture[signature[i]] = i
          /\ \A o \in Options : form.picture[o] = i => o = signature[i]
      BY <1>1, <2>3, FormPictures
    <3> QED BY <3>3, <3>4 DEF OptionOf
  <2> QED BY <2>5, <2>6, <2>8, <2>9, <2>10, <2>11 DEF form
<1>2. ImageInv => UntouchedFormChangesNothing
  BY <1>1 DEF UntouchedFormChangesNothing
<1> QED BY <1>2, ImageInvariant, PTL

=============================================================================
