---------------------------- MODULE Mirror_proofs ----------------------------
(***************************************************************************)
(* Proofs about Mirror: what the registries hold is complete at every      *)
(* moment, a tag moves once and to what the spec asks for, a spec that     *)
(* has succeeded is mirrored, a run without faults copies every image that *)
(* can be copied, and nobody waits for what nobody does, for all           *)
(* repositories, documents and batches.                                    *)
(***************************************************************************)
EXTENDS Mirror, QueueFacts, TLAPS

\* Every tag is a tag, and digests are digests.
TagsNamed ==
  \A r \in Repo : DOMAIN tags[r] = Tag /\ NoDigest \notin stored[r]

RequestsNamed == \A q \in requested : q = <<q[1], q[2]>> /\ IsImage(q[2])

\* What a cache has read is what was asked for, and in the repository.
Holds(img, doc) == \E d \in stored[img.repo] : d[2] = doc

ReadsStored ==
  \A q \in DOMAIN manifests : \A doc \in manifests[q] :
    Verified(q[2], doc) /\ Holds(q[2], doc)

KeysNamed ==
  \A k \in DOMAIN plat :
    k = [src |-> k.src, dst |-> k.dst] /\ IsImage(k.src) /\ IsImage(k.dst)

\* What the blob copier believes of the repositories, and reports, is true.
BlobsKnown ==
  /\ sources \subseteq blobs
  /\ DOMAIN blobTask \subseteq Universe
  /\ \A b \in DOMAIN blobTask : blobTask[b] = "copied" => b \in blobs

\* A manifest is being copied when its blobs have been asked for, and it is at
\* the destination once it has been copied.
BlobsAsked ==
  \A k \in DOMAIN plat : plat[k] \in {"copying", "copied"} =>
    \E doc \in Read("src", k.src) :
      doc.kind = "manifest" /\ BlobKeys(k, doc) \subseteq DOMAIN blobTask

ManifestStored ==
  \A k \in DOMAIN plat : plat[k] = "copied" =>
    \A doc \in Read("src", k.src) : Canonical(doc) \in stored[k.dst.repo]

\* An image is being copied when its manifests have been asked for.
PlatformsAsked ==
  \A s \in batch : place[s] = "copying" =>
    \E doc \in Read("src", s.src) :
      /\ doc.kind \in {"manifest", "index"}
      /\ Range(Copies(s, doc)) \subseteq DOMAIN plat

IInv ==
  /\ TypeOK
  /\ StoreClosed
  /\ TagsNamed
  /\ RequestsNamed
  /\ ReadsStored
  /\ KeysNamed
  /\ BlobsKnown
  /\ BlobsAsked
  /\ ManifestStored
  /\ PlatformsAsked

-----------------------------------------------------------------------------
(***************************************************************************)
(* The second inductive invariant: images and tags.                        *)
(***************************************************************************)
\* The tag of the destination refers to what the spec asks for.
TagOf(s) == tags[s.dst.repo][s.dst.tag]

GoodFor(s, d) == d # NoDigest /\ Satisfies(s, d[2])

\* Every key of the platformCopier belongs to a spec that has been compared.
KeyOf(k, s) ==
  /\ place[s] # "reading"
  /\ \E doc \in Read("src", s.src) : k \in Range(Copies(s, doc))

KeysOwned == \A k \in DOMAIN plat : \E s \in batch : KeyOf(k, s)

\* A tag from which a spec copies does not move.
SourcesRead ==
  \A s \in batch :
    /\ Read("src", s.src) \subseteq Original(s)
    /\ s.src.digest = NoDigest =>
         tags[s.src.repo][s.src.tag] = Tagged[s.src.repo][s.src.tag]

\* What was read from the destination is there until the spec changes it.
DestinationRead ==
  \A s \in batch : place[s] = "reading" =>
    Read("dst", s.dst) \subseteq {d[2] : d \in Found(s.dst)}

\* A manifest that was copied to a tag is what the spec of the tag asks for.
TagsCopied ==
  \A s \in batch : \A k \in DOMAIN plat :
    k.dst = s.dst /\ s.dst.tag # "" /\ plat[k] = "copied" => GoodFor(s, TagOf(s))

TInv ==
  /\ KeysOwned
  /\ SourcesRead
  /\ DestinationRead
  /\ TagsCopied
  /\ TagsMoveOnce
  /\ Mirrored

-----------------------------------------------------------------------------
(***************************************************************************)
(* The third inductive invariant: a run without faults.                    *)
(***************************************************************************)
\* The parts of documents are lists, which an index keeps when nothing in it
\* has to be changed.
IsFunction(f) == f = [i \in DOMAIN f |-> f[i]]

PartsListed == \A r \in Repo : \A d \in stored[r] : IsFunction(d[2].parts)

\* The sources of the specs are there, and so is whatever is asked of the cache
\* of the sources.
SourcesFound == \A s \in batch : Found(s.src) # {}

HasSource(q) ==
  \/ \E s \in batch : q[2] = s.src
  \/ q[2].digest # NoDigest /\ q[2].digest \in stored[q[2].repo]

SourcesAsked == \A q \in requested : q[1] = "src" => HasSource(q)

\* Without a fault, every source is read, every blob is copied, and a key fails
\* because its document is no manifest.
CleanReads ==
  ~faulty => \A q \in DOMAIN manifests : q[1] = "src" => manifests[q] # {}

CleanBlobs == ~faulty => \A b \in DOMAIN blobTask : blobTask[b] # "failed"

CleanKeys ==
  ~faulty => \A k \in DOMAIN plat : plat[k] = "failed" =>
    \E doc \in Read("src", k.src) : doc.kind # "manifest"

CInv ==
  /\ PartsListed
  /\ SourcesFound
  /\ SourcesAsked
  /\ CleanReads
  /\ CleanBlobs
  /\ CleanKeys
  /\ CleanRunSucceeds

-----------------------------------------------------------------------------
(***************************************************************************)
(* Documents and digests.                                                  *)
(***************************************************************************)
\* A canonical digest is a digest, of the document.
LEMMA CanonicalDigest ==
  ASSUME NEW doc
  PROVE  Canonical(doc) # NoDigest /\ Canonical(doc)[2] = doc
BY DEF Canonical, NoDigest

\* What a registry serves is in the repository.
LEMMA ServedIsHeld ==
  ASSUME IInv, NEW img, IsImage(img), NEW doc \in Served(img)
  PROVE  Holds(img, doc) /\ Found(img) # {} /\ Found(img) \subseteq stored[img.repo]
<1>1. img.repo \in Repo
  BY DEF IsImage
<1>2. Found(img) \subseteq stored[img.repo]
  <2>1. CASE img.digest # NoDigest
    BY <2>1 DEF Found
  <2>2. CASE img.digest = NoDigest
    <3>1. img.tag \in DOMAIN tags[img.repo]
      BY <1>1, <2>2 DEF IsImage, IInv, TagsNamed
    <3>2. Range(tags[img.repo]) \ {NoDigest} \subseteq stored[img.repo]
      BY <1>1 DEF IInv, StoreClosed, Closed
    <3> QED
      BY <2>2, <3>1, <3>2 DEF Found, Range
  <2> QED
    BY <2>1, <2>2
<1> QED
  BY <1>2 DEF Served, Holds

\* A document that is held is complete.
LEMMA HeldIsComplete ==
  ASSUME StoreClosed, NEW img, img.repo \in Repo, NEW doc, Holds(img, doc)
  PROVE  /\ doc.kind \in ManifestKinds => Range(doc.parts) \X {img.repo} \subseteq blobs
         /\ doc.kind \in IndexKinds =>
              {e.digest : e \in Range(doc.parts)} \subseteq stored[img.repo]
BY DEF StoreClosed, Closed, Holds

\* What the indexer learns from documents that are held: blobs that exist, and
\* requests of images.
LEMMA IndexedIsTrue ==
  ASSUME IInv, NEW img, img.repo \in Repo, NEW docs,
         \A doc \in docs : Holds(img, doc)
  PROVE  /\ ManifestBlobs(img.repo, docs) \subseteq blobs
         /\ \A q \in IndexEntries(img.repo, docs) :
              q = <<q[1], q[2]>> /\ q[1] = "index" /\ IsImage(q[2])
<1>1. ManifestBlobs(img.repo, docs) \subseteq blobs
  BY HeldIsComplete DEF IInv, ManifestBlobs
<1>2. ASSUME NEW q \in IndexEntries(img.repo, docs)
      PROVE  q = <<q[1], q[2]>> /\ q[1] = "index" /\ IsImage(q[2])
  <2>1. PICK doc \in docs : doc.kind \in IndexKinds
               /\ \E e \in Range(doc.parts) : q = <<"index", ByDigest(img.repo, e.digest)>>
    BY <1>2 DEF IndexEntries
  <2>2. PICK e \in Range(doc.parts) : q = <<"index", ByDigest(img.repo, e.digest)>>
    BY <2>1
  <2>3. e.digest \in stored[img.repo]
    BY <2>1, HeldIsComplete DEF IInv
  <2>4. e.digest # NoDigest
    BY <2>3 DEF IInv, TagsNamed
  <2> QED
    BY <2>2, <2>4 DEF IsImage, ByDigest
<1> QED
  BY <1>1, <1>2

\* An upload of a complete document leaves the registries complete.
LEMMA UploadKeeps ==
  ASSUME IInv, NEW img, img.repo \in Repo, img.tag \in Tag \cup {""}, NEW doc,
         ~Refused(img, doc), Upload(img, doc),
         doc.kind \in ManifestKinds => Range(doc.parts) \X {img.repo} \subseteq blobs,
         doc.kind \in IndexKinds =>
           {e.digest : e \in Range(doc.parts)} \subseteq stored[img.repo]
  PROVE  /\ StoreClosed' /\ TagsNamed'
         /\ DOMAIN stored' = Repo /\ DOMAIN tags' = Repo /\ blobs' = blobs
         /\ \A r \in Repo : stored[r] \subseteq stored'[r]
<1> DEFINE d == IF img.tag # "" THEN Canonical(doc) ELSE Reference(img, doc)
<1>1. d # NoDigest /\ d[2] = doc
  BY CanonicalDigest DEF Refused, Reference
<1> HIDE DEF d
<1>2. /\ stored' = [stored EXCEPT ![img.repo] = @ \cup {d}]
      /\ tags' = IF img.tag = "" THEN tags ELSE [tags EXCEPT ![img.repo][img.tag] = d]
      /\ blobs' = blobs
  BY DEF Upload, d
<1>3. DOMAIN stored = Repo /\ DOMAIN tags = Repo
  BY DEF IInv, TypeOK
<1>4. /\ DOMAIN stored' = Repo /\ DOMAIN tags' = Repo
      /\ \A r \in Repo : stored[r] \subseteq stored'[r]
      /\ \A r \in Repo : \A x \in stored'[r] : x \in stored[r] \/ (r = img.repo /\ x = d)
      /\ d \in stored'[img.repo]
  <2>1. DOMAIN stored' = Repo /\ DOMAIN tags' = Repo
    BY <1>2, <1>3
  <2>2. \A r \in Repo : stored'[r] = IF r = img.repo THEN stored[r] \cup {d} ELSE stored[r]
    BY <1>2, <1>3
  <2> QED
    BY <2>1, <2>2
<1>5. \A r \in Repo : DOMAIN tags'[r] = Tag /\ \A t \in Tag :
        tags'[r][t] = tags[r][t] \/ (r = img.repo /\ tags'[r][t] = d)
  <2>1. \A r \in Repo : DOMAIN tags[r] = Tag
    BY DEF IInv, TagsNamed
  <2>2. CASE img.tag = ""
    BY <2>1, <2>2, <1>2
  <2>3. CASE img.tag # ""
    <3>1. tags' = [tags EXCEPT ![img.repo] = [tags[img.repo] EXCEPT ![img.tag] = d]]
      BY <2>3, <1>2
    <3> QED
      BY <3>1, <2>1, <1>3
  <2> QED
    BY <2>2, <2>3
<1>6. TagsNamed'
  BY <1>1, <1>4, <1>5 DEF IInv, TagsNamed
<1>7. ASSUME NEW r \in Repo, NEW x \in stored'[r]
      PROVE  /\ x[2].kind \in ManifestKinds => Range(x[2].parts) \X {r} \subseteq blobs'
             /\ x[2].kind \in IndexKinds =>
                  {e.digest : e \in Range(x[2].parts)} \subseteq stored'[r]
  <2>1. CASE x \in stored[r]
    BY <2>1, <1>2, <1>4 DEF IInv, StoreClosed, Closed
  <2>2. CASE r = img.repo /\ x = d
    BY <2>2, <1>1, <1>2, <1>4
  <2> QED
    BY <1>4, <2>1, <2>2
<1>8. ASSUME NEW r \in Repo
      PROVE  Range(tags'[r]) \ {NoDigest} \subseteq stored'[r]
  <2>1. SUFFICES ASSUME NEW t \in Tag, tags'[r][t] # NoDigest
                 PROVE  tags'[r][t] \in stored'[r]
    <3>1. DOMAIN tags'[r] = Tag
      BY <1>5
    <3> QED
      BY <3>1 DEF Range
  <2>2. tags[r][t] # NoDigest => tags[r][t] \in stored[r]
    BY DEF IInv, TagsNamed, StoreClosed, Closed, Range
  <2>3. CASE tags'[r][t] = tags[r][t]
    BY <2>1, <2>2, <2>3, <1>4
  <2>4. CASE r = img.repo /\ tags'[r][t] = d
    BY <2>4, <1>4
  <2> QED
    BY <2>3, <2>4, <1>5
<1> QED
  BY <1>2, <1>4, <1>6, <1>7, <1>8 DEF StoreClosed, Closed

-----------------------------------------------------------------------------
(***************************************************************************)
(* The parts of the invariant that a step leaves alone.                    *)
(***************************************************************************)
\* Registries, requests and blobs.
LEMMA FrameStore ==
  ASSUME IInv
  PROVE  /\ UNCHANGED registry => StoreClosed' /\ TagsNamed'
         /\ UNCHANGED requested => RequestsNamed'
         /\ UNCHANGED <<sources, blobTask, blobs>> => BlobsKnown'
<1>1. UNCHANGED registry => StoreClosed' /\ TagsNamed'
  BY DEF IInv, StoreClosed, TagsNamed, registry
<1>2. UNCHANGED requested => RequestsNamed'
  BY DEF IInv, RequestsNamed
<1>3. UNCHANGED <<sources, blobTask, blobs>> => BlobsKnown'
  BY DEF IInv, BlobsKnown
<1> QED
  BY <1>1, <1>2, <1>3

\* What was read stays stored.
LEMMA FrameReads ==
  ASSUME IInv, UNCHANGED manifests, \A r \in Repo : stored[r] \subseteq stored'[r]
  PROVE  ReadsStored'
<1>1. \A q \in DOMAIN manifests : q[2].repo \in Repo
  <2>1. DOMAIN manifests \subseteq requested
    BY DEF IInv, TypeOK
  <2> QED
    BY <2>1 DEF IInv, RequestsNamed, IsImage
<1>2. SUFFICES ASSUME NEW q \in DOMAIN manifests, NEW doc \in manifests[q]
               PROVE  Verified(q[2], doc) /\ Holds(q[2], doc)'
  BY DEF ReadsStored, Verified
<1>3. PICK d \in stored[q[2].repo] : d[2] = doc
  BY DEF IInv, ReadsStored, Holds
<1>4. d \in stored'[q[2].repo]
  BY <1>1, <1>3
<1> QED
  BY <1>3, <1>4 DEF IInv, ReadsStored, Holds

\* Keys that do not go on leave what holds of the others.
LEMMA FrameKeys ==
  ASSUME IInv, UNCHANGED manifests
  PROVE  /\ UNCHANGED plat => KeysNamed'
         /\ /\ DOMAIN blobTask \subseteq DOMAIN blobTask'
            /\ \A k \in DOMAIN plat' : plat'[k] \in {"copying", "copied"} =>
                 k \in DOMAIN plat /\ plat[k] \in {"copying", "copied"}
            => BlobsAsked'
         /\ /\ \A r \in Repo : stored[r] \subseteq stored'[r]
            /\ \A k \in DOMAIN plat' : plat'[k] = "copied" =>
                 k \in DOMAIN plat /\ plat[k] = "copied"
            => ManifestStored'
<1>1. UNCHANGED plat => KeysNamed'
  BY DEF IInv, KeysNamed
<1>2. \A c, img : Read(c, img)' = Read(c, img)
  BY DEF Read, Settled
<1>3. ASSUME DOMAIN blobTask \subseteq DOMAIN blobTask',
             NEW k \in DOMAIN plat', k \in DOMAIN plat,
             plat[k] \in {"copying", "copied"}
      PROVE  \E doc \in Read("src", k.src)' :
               doc.kind = "manifest" /\ BlobKeys(k, doc) \subseteq DOMAIN blobTask'
  BY <1>2, <1>3 DEF IInv, BlobsAsked
<1>4. ASSUME \A r \in Repo : stored[r] \subseteq stored'[r],
             NEW k \in DOMAIN plat', k \in DOMAIN plat, plat[k] = "copied"
      PROVE  \A doc \in Read("src", k.src)' : Canonical(doc) \in stored'[k.dst.repo]
  BY <1>2, <1>4 DEF IInv, ManifestStored, KeysNamed, IsImage
<1> QED
  BY <1>1, <1>3, <1>4 DEF BlobsAsked, ManifestStored

\* The same for specs.
LEMMA FrameSpecs ==
  ASSUME IInv, UNCHANGED <<batch, manifests>>, DOMAIN plat \subseteq DOMAIN plat',
         \A s \in batch : place'[s] = "copying" => place[s] = "copying"
  PROVE  PlatformsAsked'
<1>1. \A c, img : Read(c, img)' = Read(c, img)
  BY DEF Read, Settled
<1>2. ASSUME NEW s \in batch, place[s] = "copying"
      PROVE  \E doc \in Read("src", s.src) :
               doc.kind \in {"manifest", "index"} /\ Range(Copies(s, doc)) \subseteq DOMAIN plat'
  BY <1>2 DEF IInv, PlatformsAsked
<1> QED
  BY <1>1, <1>2 DEF PlatformsAsked

-----------------------------------------------------------------------------
(***************************************************************************)
(* The initial states, and the program started anew.                       *)
(***************************************************************************)
\* The specs of a batch name images.
LEMMA BatchesOfImages ==
  \A specs \in Batches : \A s \in specs : IsImage(s.src) /\ IsImage(s.dst)
BY MirrorAssumption

LEMMA BatchOfImages ==
  ASSUME IInv, NEW s \in batch
  PROVE  IsImage(s.src) /\ IsImage(s.dst)
<1>1. batch \in Batches
  BY DEF IInv, TypeOK
<1> QED
  BY <1>1, BatchesOfImages

LEMMA AskedNamed ==
  ASSUME NEW specs \in Batches, NEW q \in Asked(specs)
  PROVE  q = <<q[1], q[2]>> /\ IsImage(q[2])
BY BatchesOfImages DEF Asked

\* What the registries hold at the start.
LEMMA HostedComplete ==
  /\ Closed(Hosted, Tagged, HostedBlobs)
  /\ DOMAIN Hosted = Repo /\ DOMAIN Tagged = Repo
  /\ \A r \in Repo : DOMAIN Tagged[r] = Tag /\ NoDigest \notin Hosted[r]
BY MirrorAssumption

LEMMA HostedBlobsNamed == HostedBlobs \subseteq Universe
<1>1. \A b \in HostedBlobs : b = <<b[1], b[2]>> /\ b[2] \in Repo
  BY MirrorAssumption
<1> QED
  BY <1>1 DEF Universe

\* What the process knows at its start is nothing, which is true.
LEMMA KnowsNothing ==
  ASSUME batch \in Batches, process \in {"running", "killed", "panicked"},
         runs \in 1..MaxRuns[batch], faulty = FALSE,
         place = [s \in batch |-> "reading"],
         requested = Asked(batch), manifests = <<>>, plat = <<>>,
         blobTask = <<>>, sources = {},
         StoreClosed, TagsNamed, DOMAIN stored = Repo, DOMAIN tags = Repo,
         blobs \subseteq Universe
  PROVE  IInv
<1>1. TypeOK
  <2>1. place \in [batch -> {"reading", "copying", "done", "failed"}]
    OBVIOUS
  <2>2. sources \cup blobs \subseteq Universe
    OBVIOUS
  <2>3. Range(plat) = {} /\ Range(blobTask) = {} /\ DOMAIN manifests = {}
    BY DEF Range
  <2> QED
    BY <2>1, <2>2, <2>3 DEF TypeOK
<1>2. RequestsNamed
  BY AskedNamed DEF RequestsNamed
<1>3. ReadsStored /\ KeysNamed /\ BlobsKnown
  BY DEF ReadsStored, KeysNamed, BlobsKnown
<1>4. BlobsAsked /\ ManifestStored
  BY DEF BlobsAsked, ManifestStored
<1>5. PlatformsAsked
  BY DEF PlatformsAsked
<1> QED
  BY <1>1, <1>2, <1>3, <1>4, <1>5 DEF IInv

LEMMA Initially == Init => IInv
<1> SUFFICES ASSUME Init PROVE IInv
  OBVIOUS
<1>1. runs \in 1..MaxRuns[batch]
  <2>1. MaxRuns \in [Batches -> Nat \ {0}]
    BY MirrorAssumption
  <2> QED
    BY <2>1 DEF Init
<1>2. StoreClosed /\ DOMAIN stored = Repo
  BY HostedComplete DEF Init, StoreClosed
<1>3. TagsNamed /\ DOMAIN tags = Repo
  BY HostedComplete DEF Init, TagsNamed
<1>4. blobs \subseteq Universe
  BY HostedBlobsNamed DEF Init
<1> QED
  BY <1>1, <1>2, <1>3, <1>4, KnowsNothing DEF Init

LEMMA Forgotten ==
  ASSUME IInv, Forget, process' \in {"running", "killed", "panicked"},
         runs' \in 1..MaxRuns[batch]
  PROVE  IInv'
<1>1. StoreClosed' /\ TagsNamed'
  BY FrameStore DEF Forget
<1>2. /\ batch' \in Batches /\ runs' \in 1..MaxRuns[batch']
      /\ DOMAIN stored' = Repo /\ DOMAIN tags' = Repo /\ blobs' \subseteq Universe
  BY DEF IInv, TypeOK, Forget, registry
<1>3. /\ faulty' = FALSE
      /\ place' = [s \in batch' |-> "reading"]
      /\ requested' = Asked(batch') /\ manifests' = <<>> /\ plat' = <<>>
      /\ blobTask' = <<>> /\ sources' = {}
  BY DEF Forget
<1>4. TypeOK'
  <2>1. place' \in [batch' -> {"reading", "copying", "done", "failed"}]
    BY <1>3
  <2>2. sources' \cup blobs' \subseteq Universe
    BY <1>2, <1>3
  <2>3. Range(plat') = {} /\ Range(blobTask') = {} /\ DOMAIN manifests' = {}
    BY <1>3 DEF Range
  <2> QED
    BY <2>1, <2>2, <2>3, <1>2, <1>3 DEF TypeOK
<1>5. RequestsNamed'
  BY <1>2, <1>3, AskedNamed DEF RequestsNamed
<1>6. ReadsStored' /\ KeysNamed' /\ BlobsKnown'
  BY <1>3 DEF ReadsStored, KeysNamed, BlobsKnown
<1>7. BlobsAsked' /\ ManifestStored'
  BY <1>3 DEF BlobsAsked, ManifestStored
<1>8. PlatformsAsked'
  BY <1>3 DEF PlatformsAsked
<1> QED
  BY <1>1, <1>4, <1>5, <1>6, <1>7, <1>8 DEF IInv

-----------------------------------------------------------------------------
(***************************************************************************)
(* The steps of specs.                                                     *)
(***************************************************************************)
\* What a cache has read is held, is what was asked for, and is one document.
LEMMA ReadIsHeld ==
  ASSUME IInv, NEW c, NEW img, NEW doc \in Read(c, img)
  PROVE  /\ IsImage(img) /\ img.repo \in Repo
         /\ Holds(img, doc) /\ Verified(img, doc)
         /\ Read(c, img) = {doc}
<1>1. <<c, img>> \in DOMAIN manifests /\ doc \in manifests[<<c, img>>]
  BY DEF Read, Settled
<1>2. IsImage(img)
  BY <1>1 DEF IInv, TypeOK, RequestsNamed
<1>3. Holds(img, doc) /\ Verified(img, doc)
  BY <1>1 DEF IInv, ReadsStored
<1>4. Read(c, img) = {doc}
  BY <1>1 DEF IInv, TypeOK, Read, Settled
<1> QED
  BY <1>2, <1>3, <1>4 DEF IsImage

\* A spec that comes to an end, and changes nothing else.
LEMMA SpecSettles ==
  ASSUME IInv, NEW s \in batch, NEW p \in {"done", "failed"}, Goto(s, p),
         UNCHANGED <<run, caches, plat, blobTask, sources, registry>>,
         faulty' \in BOOLEAN
  PROVE  IInv'
<1>1. /\ place' \in [batch -> {"reading", "copying", "done", "failed"}]
      /\ \A t \in batch : place'[t] = "copying" => place[t] = "copying"
  BY DEF IInv, TypeOK, Goto
<1>2. TypeOK'
  BY <1>1 DEF IInv, TypeOK, run, caches, registry
<1>3. StoreClosed' /\ TagsNamed' /\ RequestsNamed' /\ BlobsKnown'
  BY FrameStore DEF caches, registry
<1>4. ReadsStored' /\ KeysNamed' /\ BlobsAsked' /\ ManifestStored'
  BY FrameReads, FrameKeys DEF caches, registry
<1>5. PlatformsAsked'
  BY <1>1, FrameSpecs DEF run, caches
<1> QED
  BY <1>2, <1>3, <1>4, <1>5 DEF IInv

\* The indexer learns from a document, and nothing else changes.
LEMMA SubmitKeeps ==
  ASSUME IInv, NEW img, img.repo \in Repo, NEW docs,
         \A doc \in docs : Holds(img, doc), Submit(img.repo, docs),
         UNCHANGED <<blobTask, registry>>
  PROVE  /\ RequestsNamed' /\ BlobsKnown' /\ requested \subseteq requested'
         /\ sources' \cup blobs' \subseteq Universe
<1>1. RequestsNamed' /\ requested \subseteq requested'
  BY IndexedIsTrue DEF IInv, RequestsNamed, Submit
<1>2. sources' \subseteq blobs'
  BY IndexedIsTrue DEF IInv, BlobsKnown, Submit, registry
<1>3. BlobsKnown'
  BY <1>2 DEF IInv, BlobsKnown, registry
<1> QED
  BY <1>1, <1>2, <1>3 DEF IInv, TypeOK, registry

LEMMA NoChangeKeeps ==
  ASSUME IInv, NEW s \in batch, NEW doc, NoChange(s, doc)
  PROVE  IInv'
<1> USE DEF NoChange
<1>1. \A x \in Read("dst", s.dst) : Holds(s.dst, x)
  BY ReadIsHeld
<1>2. /\ RequestsNamed' /\ BlobsKnown' /\ requested \subseteq requested'
      /\ sources' \cup blobs' \subseteq Universe
  BY <1>1, BatchOfImages, SubmitKeeps DEF IsImage
<1>3. /\ place' \in [batch -> {"reading", "copying", "done", "failed"}]
      /\ \A t \in batch : place'[t] = "copying" => place[t] = "copying"
  BY DEF IInv, TypeOK, Goto
<1>4. TypeOK'
  BY <1>2, <1>3 DEF IInv, TypeOK, run, registry
<1>5. StoreClosed' /\ TagsNamed'
  BY FrameStore
<1>6. ReadsStored' /\ KeysNamed' /\ BlobsAsked' /\ ManifestStored'
  BY FrameReads, FrameKeys DEF registry
<1>7. PlatformsAsked'
  BY <1>3, FrameSpecs DEF run
<1> QED
  BY <1>2, <1>4, <1>5, <1>6, <1>7 DEF IInv

\* A manifest is copied under the names of the image.
LEMMA ManifestCopies ==
  ASSUME NEW s, NEW doc, doc.kind = "manifest"
  PROVE  /\ DOMAIN Copies(s, doc) = {1}
         /\ Copies(s, doc)[1] = [src |-> s.src, dst |-> s.dst]
<1>1. PICK k : k = [src |-> s.src, dst |-> s.dst]
  OBVIOUS
<1>2. Copies(s, doc) = <<k>>
  BY <1>1 DEF Copies
<1> QED
  BY <1>1, <1>2

\* A document of another kind has nothing to copy.
LEMMA NoCopies ==
  ASSUME NEW s, NEW doc, doc.kind \notin {"manifest", "index"}
  PROVE  Range(Copies(s, doc)) = {} /\ DOMAIN Copies(s, doc) = {}
<1>1. Copies(s, doc) = <<>>
  BY DEF Copies
<1> QED
  BY <1>1 DEF Range

\* The keys that are asked of the platformCopier: images of a document that is
\* complete, all in the repository of the destination.
LEMMA CopiesNamed ==
  ASSUME IInv, NEW s \in batch, NEW doc, Holds(s.src, doc)
  PROVE  \A k \in Range(Copies(s, doc)) :
           /\ k = [src |-> k.src, dst |-> k.dst]
           /\ IsImage(k.src) /\ IsImage(k.dst)
           /\ k.src.repo = s.src.repo /\ k.dst.repo = s.dst.repo
<1>1. IsImage(s.src) /\ IsImage(s.dst)
  BY BatchOfImages
<1>2. CASE doc.kind = "manifest"
  <2>1. Copies(s, doc) = <<[src |-> s.src, dst |-> s.dst]>>
    BY <1>2 DEF Copies
  <2> QED
    BY <2>1, <1>1 DEF Range
<1>3. CASE doc.kind = "index"
  <2>1. \A i \in DOMAIN Selected(s, doc) :
          i \in DOMAIN doc.parts /\ Selected(s, doc)[i] = doc.parts[i]
    BY DEF Selected, Restrict
  <2>2. {e.digest : e \in Range(doc.parts)} \subseteq stored[s.src.repo]
    BY <1>1, <1>3, HeldIsComplete DEF IInv, IsImage, IndexKinds
  <2>3. \A i \in DOMAIN Selected(s, doc) : Selected(s, doc)[i].digest # NoDigest
    <3>1. \A i \in DOMAIN doc.parts : doc.parts[i].digest \in stored[s.src.repo]
      BY <2>2 DEF Range
    <3>2. NoDigest \notin stored[s.src.repo]
      BY <1>1 DEF IInv, TagsNamed, IsImage
    <3> QED
      BY <2>1, <3>1, <3>2
  <2>4. \A i \in DOMAIN Selected(s, doc) :
          /\ IsImage(ByDigest(s.src.repo, Selected(s, doc)[i].digest))
          /\ IsImage(ByDigest(s.dst.repo, Selected(s, doc)[i].digest))
    BY <1>1, <2>3 DEF IsImage, ByDigest
  <2>5. SUFFICES ASSUME NEW i \in DOMAIN Copies(s, doc), NEW k, k = Copies(s, doc)[i]
                 PROVE  /\ k = [src |-> k.src, dst |-> k.dst]
                        /\ IsImage(k.src) /\ IsImage(k.dst)
                        /\ k.src.repo = s.src.repo /\ k.dst.repo = s.dst.repo
    BY DEF Range
  <2>6. /\ i \in DOMAIN Selected(s, doc)
        /\ k = [src |-> ByDigest(s.src.repo, Selected(s, doc)[i].digest),
                dst |-> IF OnlyOne(Selected(s, doc)) THEN s.dst
                        ELSE ByDigest(s.dst.repo, Selected(s, doc)[i].digest)]
    BY <1>3, <2>5 DEF Copies
  <2> QED
    BY <1>1, <2>4, <2>6 DEF ByDigest
<1>4. CASE doc.kind \notin {"manifest", "index"}
  BY <1>4, NoCopies
<1> QED
  BY <1>2, <1>3, <1>4

LEMMA CopyImageKeeps ==
  ASSUME IInv, NEW s \in batch, NEW doc, CopyImage(s, doc)
  PROVE  IInv'
<1> DEFINE keys == Range(Copies(s, doc))
           old  == Read("dst", s.dst)
<1>1. /\ doc \in Read("src", s.src)
      /\ plat' = Inform(plat, keys, "reading")
      /\ sources' = sources \cup ManifestBlobs(s.dst.repo, old)
      /\ requested' = requested \cup IndexEntries(s.dst.repo, old)
                        \cup {<<"src", k.src>> : k \in keys}
      /\ Goto(s, IF keys = {} THEN "failed" ELSE "copying")
      /\ UNCHANGED <<run, faulty, manifests, blobTask, registry>>
  BY DEF CopyImage, Compares
<1>2. Holds(s.src, doc) /\ Read("src", s.src) = {doc}
  BY <1>1, ReadIsHeld
<1>3. \A k \in keys :
        k = [src |-> k.src, dst |-> k.dst] /\ IsImage(k.src) /\ IsImage(k.dst)
  BY <1>2, CopiesNamed
<1>4. keys # {} => doc.kind \in {"manifest", "index"}
  BY NoCopies
<1> HIDE DEF keys
<1>5. /\ DOMAIN plat' = keys \cup DOMAIN plat
      /\ \A k \in DOMAIN plat' :
           plat'[k] = IF k \in DOMAIN plat THEN plat[k] ELSE "reading"
  BY <1>1 DEF Inform
<1>6. /\ ManifestBlobs(s.dst.repo, old) \subseteq blobs
      /\ \A q \in IndexEntries(s.dst.repo, old) : q = <<q[1], q[2]>> /\ IsImage(q[2])
  <2>1. \A x \in old : Holds(s.dst, x)
    BY ReadIsHeld
  <2>2. s.dst.repo \in Repo
    BY BatchOfImages DEF IsImage
  <2> HIDE DEF old
  <2> QED
    BY <2>1, <2>2, IndexedIsTrue
<1>7. RequestsNamed' /\ requested \subseteq requested'
  <2>1. \A q \in {<<"src", k.src>> : k \in keys} : q = <<q[1], q[2]>> /\ IsImage(q[2])
    BY <1>3
  <2> QED
    BY <1>1, <1>6, <2>1 DEF IInv, RequestsNamed
<1>8. BlobsKnown'
  BY <1>1, <1>6 DEF IInv, BlobsKnown, registry
<1>9. place' \in [batch -> {"reading", "copying", "done", "failed"}]
  BY <1>1 DEF IInv, TypeOK, Goto
<1>10. TypeOK'
  <2>1. Range(plat') \subseteq {"reading", "copying", "copied", "failed"}
    BY <1>5 DEF IInv, TypeOK, Range
  <2>2. sources' \cup blobs' \subseteq Universe
    BY <1>1, <1>6 DEF IInv, TypeOK, registry
  <2> QED
    BY <1>1, <1>7, <1>9, <2>1, <2>2 DEF IInv, TypeOK, run, registry
<1>11. StoreClosed' /\ TagsNamed'
  BY <1>1, FrameStore
<1>12. ReadsStored' /\ BlobsAsked' /\ ManifestStored'
  BY <1>1, <1>5, FrameReads, FrameKeys DEF registry
<1>13. KeysNamed'
  BY <1>3, <1>5 DEF IInv, KeysNamed
<1>14. PlatformsAsked'
  <2>1. SUFFICES ASSUME NEW t \in batch, place'[t] = "copying"
                 PROVE  \E x \in Read("src", t.src) :
                          /\ x.kind \in {"manifest", "index"}
                          /\ Range(Copies(t, x)) \subseteq DOMAIN plat'
    BY <1>1 DEF PlatformsAsked, run, Read, Settled
  <2>2. CASE t = s
    <3>1. keys # {}
      BY <1>1, <2>1, <2>2 DEF IInv, TypeOK, Goto
    <3> QED
      BY <1>1, <1>4, <1>5, <2>2, <3>1 DEF keys
  <2>3. CASE t # s
    <3>1. place[t] = "copying"
      BY <1>1, <2>1, <2>3 DEF IInv, TypeOK, Goto
    <3> QED
      BY <1>5, <3>1 DEF IInv, PlatformsAsked
  <2> QED
    BY <2>2, <2>3
<1> QED
  BY <1>7, <1>8, <1>10, <1>11, <1>12, <1>13, <1>14 DEF IInv

\* The manifest of a key is the one that was read, and its blobs are asked for.
LEMMA CopiedIsRead ==
  ASSUME IInv, NEW k \in DOMAIN plat, plat[k] \in {"copying", "copied"}
  PROVE  /\ Read("src", k.src) = {Copied(k)}
         /\ Copied(k).kind = "manifest"
         /\ BlobKeys(k, Copied(k)) \subseteq DOMAIN blobTask
<1>1. PICK doc \in Read("src", k.src) :
        doc.kind = "manifest" /\ BlobKeys(k, doc) \subseteq DOMAIN blobTask
  BY DEF IInv, BlobsAsked
<1>2. Read("src", k.src) = {doc}
  BY ReadIsHeld
<1>3. Copied(k) = doc
  BY <1>2 DEF Copied
<1> QED
  BY <1>1, <1>2, <1>3

\* The keys of a spec that is being copied.
LEMMA CopyingAsked ==
  ASSUME IInv, NEW s \in batch, place[s] = "copying", NEW doc \in Read("src", s.src)
  PROVE  /\ doc.kind \in {"manifest", "index"}
         /\ doc.kind = "manifest" => OnlyOne(Copies(s, doc))
         /\ \A i \in DOMAIN Copies(s, doc) :
              /\ Copies(s, doc)[i] \in DOMAIN plat
              /\ Copies(s, doc)[i].dst.repo = s.dst.repo
<1>1. PICK x \in Read("src", s.src) : x.kind \in {"manifest", "index"}
               /\ Range(Copies(s, x)) \subseteq DOMAIN plat
  BY DEF IInv, PlatformsAsked
<1>2. Read("src", s.src) = {doc} /\ Holds(s.src, doc)
  BY ReadIsHeld
<1>3. x = doc
  BY <1>2
<1>4. ASSUME doc.kind = "manifest" PROVE OnlyOne(Copies(s, doc))
  <2>1. DOMAIN Copies(s, doc) = {1}
    BY <1>4 DEF Copies
  <2> QED
    BY <2>1 DEF OnlyOne
<1>5. \A i \in DOMAIN Copies(s, doc) : Copies(s, doc)[i] \in Range(Copies(s, doc))
  BY DEF Range
<1> QED
  BY <1>1, <1>2, <1>3, <1>4, <1>5, CopiesNamed

\* The manifests of the index to upload are at the destination.
LEMMA IndexIsComplete ==
  ASSUME IInv, NEW s \in batch, NEW doc, AllCopied(s, doc), ~OnlyOne(Copies(s, doc))
  PROVE  /\ DstIndex(s, doc).kind = "index"
         /\ {e.digest : e \in Range(DstIndex(s, doc).parts)} \subseteq stored[s.dst.repo]
<1> DEFINE sel  == Selected(s, doc)
           keys == Copies(s, doc)
           new  == [i \in DOMAIN sel |-> NewDescriptor(s, sel[i], Copied(keys[i]))]
<1>1. /\ place[s] = "copying" /\ doc \in Read("src", s.src)
      /\ \A i \in DOMAIN keys : plat[keys[i]] = "copied"
  BY DEF AllCopied, Collects, PlatformsOf
<1>2. doc.kind = "index"
  BY <1>1, CopyingAsked
<1>3. DOMAIN keys = DOMAIN sel
  BY <1>2 DEF Copies
<1>4. ASSUME NEW i \in DOMAIN sel PROVE new[i].digest \in stored[s.dst.repo]
  <2>1. keys[i] \in DOMAIN plat /\ plat[keys[i]] = "copied" /\ keys[i].dst.repo = s.dst.repo
    BY <1>1, <1>3, CopyingAsked
  <2>2. Copied(keys[i]) \in Read("src", keys[i].src)
    BY <2>1, CopiedIsRead
  <2>3. Canonical(Copied(keys[i])) \in stored[s.dst.repo]
    BY <2>1, <2>2 DEF IInv, ManifestStored
  <2>4. NewDescriptor(s, sel[i], Copied(keys[i])).digest = Canonical(Copied(keys[i]))
    BY DEF NewDescriptor
  <2> QED
    BY <2>3, <2>4
<1>5. DstIndex(s, doc).kind = "index" /\ DstIndex(s, doc).parts = new
  BY <1>2 DEF DstIndex
<1> HIDE DEF new, keys, sel
<1>6. DOMAIN new = DOMAIN sel
  BY DEF new
<1> QED
  BY <1>4, <1>5, <1>6 DEF Range

LEMMA IndexUploadKeeps ==
  ASSUME IInv, NEW s \in batch, NEW doc, AllCopied(s, doc), ~OnlyOne(Copies(s, doc)),
         ~Refused(s.dst, DstIndex(s, doc)), Upload(s.dst, DstIndex(s, doc)),
         NEW p \in {"done", "failed"}, Goto(s, p), faulty' \in BOOLEAN,
         UNCHANGED <<run, caches, plat, blobTask, sources>>
  PROVE  IInv'
<1>1. /\ StoreClosed' /\ TagsNamed'
      /\ DOMAIN stored' = Repo /\ DOMAIN tags' = Repo /\ blobs' = blobs
      /\ \A r \in Repo : stored[r] \subseteq stored'[r]
  BY IndexIsComplete, BatchOfImages, UploadKeeps
  DEF IsImage, ManifestKinds, IndexKinds
<1>2. /\ place' \in [batch -> {"reading", "copying", "done", "failed"}]
      /\ \A t \in batch : place'[t] = "copying" => place[t] = "copying"
  BY DEF IInv, TypeOK, Goto
<1>3. TypeOK'
  BY <1>1, <1>2 DEF IInv, TypeOK, run, caches
<1>4. RequestsNamed' /\ BlobsKnown'
  BY <1>1, FrameStore DEF caches
<1>5. ReadsStored' /\ KeysNamed' /\ BlobsAsked' /\ ManifestStored'
  BY <1>1, FrameReads, FrameKeys DEF caches
<1>6. PlatformsAsked'
  BY <1>2, FrameSpecs DEF run, caches
<1> QED
  BY <1>1, <1>3, <1>4, <1>5, <1>6 DEF IInv

LEMMA SpecStepKeeps ==
  ASSUME IInv, process = "running", NEW s \in batch, SpecSteps(s)
  PROVE  IInv'
<1>1. CASE SourceFails(s)
  BY <1>1, SpecSettles DEF SourceFails, IInv, TypeOK
<1>2. ASSUME NEW doc \in Read("src", s.src),
             \/ NoChange(s, doc) \/ NilPlatform(s, doc) \/ CopyImage(s, doc)
             \/ PlatformsFail(s, doc) \/ OneCopied(s, doc)
             \/ UploadIndex(s, doc) \/ UploadIndexFails(s, doc)
      PROVE  IInv'
  <2>1. faulty \in BOOLEAN /\ runs \in 1..MaxRuns[batch]
    BY DEF IInv, TypeOK
  <2>2. CASE NoChange(s, doc)
    BY <2>2, NoChangeKeeps
  <2>3. CASE NilPlatform(s, doc)
    BY <2>1, <2>3, Forgotten DEF NilPlatform
  <2>4. CASE CopyImage(s, doc)
    BY <2>4, CopyImageKeeps
  <2>5. CASE PlatformsFail(s, doc)
    BY <2>1, <2>5, SpecSettles DEF PlatformsFail
  <2>6. CASE OneCopied(s, doc)
    BY <2>1, <2>6, SpecSettles DEF OneCopied
  <2>7. CASE UploadIndex(s, doc)
    BY <2>1, <2>7, IndexUploadKeeps DEF UploadIndex
  <2>8. CASE UploadIndexFails(s, doc)
    <3>1. faulty' \in BOOLEAN
      BY <2>1, <2>8 DEF UploadIndexFails
    <3>2. CASE UNCHANGED registry
      BY <2>8, <3>1, <3>2, SpecSettles DEF UploadIndexFails
    <3>3. CASE ~Refused(s.dst, DstIndex(s, doc)) /\ Upload(s.dst, DstIndex(s, doc))
      BY <2>8, <3>1, <3>3, IndexUploadKeeps DEF UploadIndexFails
    <3> QED
      BY <2>8, <3>2, <3>3 DEF UploadIndexFails
  <2> QED
    BY <1>2, <2>2, <2>3, <2>4, <2>5, <2>6, <2>7, <2>8
<1> QED
  BY <1>1, <1>2 DEF SpecSteps

-----------------------------------------------------------------------------
(***************************************************************************)
(* The steps of platforms, caches and blobs.                               *)
(***************************************************************************)
\* A key that comes to an end, and changes nothing else.
LEMMA PlatformSettles ==
  ASSUME IInv, NEW k \in DOMAIN plat, GotoPlatform(k, "failed"),
         UNCHANGED <<run, place, caches, blobTask, sources, registry>>,
         faulty' \in BOOLEAN
  PROVE  IInv'
<1>1. /\ DOMAIN plat' = DOMAIN plat
      /\ \A j \in DOMAIN plat : plat'[j] = IF j = k THEN "failed" ELSE plat[j]
  BY DEF GotoPlatform
<1>2. Range(plat') \subseteq {"reading", "copying", "copied", "failed"}
  BY <1>1 DEF IInv, TypeOK, Range
<1>3. TypeOK'
  BY <1>2 DEF IInv, TypeOK, run, caches, registry
<1>4. StoreClosed' /\ TagsNamed' /\ RequestsNamed' /\ BlobsKnown'
  BY FrameStore DEF caches, registry
<1>5. ReadsStored' /\ BlobsAsked' /\ ManifestStored'
  BY <1>1, FrameReads, FrameKeys DEF caches, registry
<1>6. KeysNamed'
  BY <1>1 DEF IInv, KeysNamed
<1>7. PlatformsAsked'
  BY <1>1, FrameSpecs DEF run, caches
<1> QED
  BY <1>3, <1>4, <1>5, <1>6, <1>7 DEF IInv

LEMMA CopyBlobsKeeps ==
  ASSUME IInv, NEW k \in DOMAIN plat, CopyBlobs(k)
  PROVE  IInv'
<1>1. PICK doc \in Read("src", k.src) :
        /\ doc.kind = "manifest"
        /\ sources' = sources \cup (Range(doc.parts) \X {k.src.repo})
        /\ blobTask' = Inform(blobTask, BlobKeys(k, doc), "asked")
  BY DEF CopyBlobs
<1>2. /\ DOMAIN plat' = DOMAIN plat
      /\ \A j \in DOMAIN plat : plat'[j] = IF j = k THEN "copying" ELSE plat[j]
      /\ plat[k] = "reading"
  BY DEF CopyBlobs, GotoPlatform
<1>3. UNCHANGED <<run, faulty, place, caches, registry>>
  BY DEF CopyBlobs
<1>4. /\ DOMAIN blobTask' = BlobKeys(k, doc) \cup DOMAIN blobTask
      /\ \A b \in DOMAIN blobTask' :
           blobTask'[b] = IF b \in DOMAIN blobTask THEN blobTask[b] ELSE "asked"
  BY <1>1 DEF Inform
<1>5. Range(doc.parts) \X {k.src.repo} \subseteq blobs
  <2>1. Holds(k.src, doc) /\ k.src.repo \in Repo
    BY ReadIsHeld
  <2> QED
    BY <1>1, <2>1, HeldIsComplete DEF IInv, ManifestKinds
<1>6. BlobKeys(k, doc) \subseteq Universe
  <2>1. k.dst.repo \in Repo
    BY DEF IInv, KeysNamed, IsImage
  <2>2. blobs \subseteq Universe
    BY DEF IInv, TypeOK
  <2>3. SUFFICES ASSUME NEW x \in Range(doc.parts) PROVE <<x, k.dst.repo>> \in Universe
    BY DEF BlobKeys
  <2>4. PICK b \in HostedBlobs, r \in Repo : <<x, k.src.repo>> = <<b[1], r>>
    <3>1. <<x, k.src.repo>> \in Universe
      BY <1>5, <2>2
    <3> QED
      BY <3>1 DEF Universe
  <2>5. x = b[1]
    BY <2>4
  <2> QED
    BY <2>1, <2>5 DEF Universe
<1>7. BlobsKnown'
  BY <1>1, <1>3, <1>4, <1>5, <1>6 DEF IInv, BlobsKnown, registry
<1>8. TypeOK'
  <2>1. Range(plat') \subseteq {"reading", "copying", "copied", "failed"}
    BY <1>2 DEF IInv, TypeOK, Range
  <2>2. Range(blobTask') \subseteq {"asked", "copied", "failed"}
    BY <1>4 DEF IInv, TypeOK, Range
  <2>3. sources' \cup blobs' \subseteq Universe
    BY <1>1, <1>3, <1>5 DEF IInv, TypeOK, registry
  <2> QED
    BY <1>3, <2>1, <2>2, <2>3 DEF IInv, TypeOK, run, caches, registry
<1>9. StoreClosed' /\ TagsNamed' /\ RequestsNamed'
  BY <1>3, FrameStore DEF caches
<1>10. ReadsStored' /\ ManifestStored'
  BY <1>2, <1>3, FrameReads, FrameKeys DEF caches, registry
<1>11. KeysNamed'
  BY <1>2 DEF IInv, KeysNamed
<1>12. BlobsAsked'
  <2>1. \A c, img : Read(c, img)' = Read(c, img)
    BY <1>3 DEF Read, Settled, caches
  <2>2. SUFFICES ASSUME NEW j \in DOMAIN plat, plat'[j] \in {"copying", "copied"}
                 PROVE  \E x \in Read("src", j.src) :
                          x.kind = "manifest" /\ BlobKeys(j, x) \subseteq DOMAIN blobTask'
    BY <1>2, <2>1 DEF BlobsAsked
  <2>3. CASE j = k
    BY <1>1, <1>4, <2>3
  <2>4. CASE j # k
    <3>1. plat[j] \in {"copying", "copied"}
      BY <1>2, <2>2, <2>4
    <3>2. PICK x \in Read("src", j.src) :
            x.kind = "manifest" /\ BlobKeys(j, x) \subseteq DOMAIN blobTask
      BY <3>1 DEF IInv, BlobsAsked
    <3> QED
      BY <1>4, <3>2
  <2> QED
    BY <2>3, <2>4
<1>13. PlatformsAsked'
  BY <1>2, <1>3, FrameSpecs DEF run, caches
<1> QED
  BY <1>7, <1>8, <1>9, <1>10, <1>11, <1>12, <1>13 DEF IInv

\* The manifest to upload is complete: all its blobs are at the destination.
LEMMA ManifestIsComplete ==
  ASSUME IInv, NEW k \in DOMAIN plat, BlobsCopied(k)
  PROVE  /\ Copied(k).kind = "manifest"
         /\ Range(Copied(k).parts) \X {k.dst.repo} \subseteq blobs
         /\ Read("src", k.src) = {Copied(k)}
<1>1. /\ Read("src", k.src) = {Copied(k)}
      /\ Copied(k).kind = "manifest"
      /\ BlobKeys(k, Copied(k)) \subseteq DOMAIN blobTask
  BY CopiedIsRead DEF BlobsCopied
<1>2. SUFFICES ASSUME NEW i \in DOMAIN Copied(k).parts
               PROVE  <<Copied(k).parts[i], k.dst.repo>> \in blobs
  BY <1>1 DEF Range
<1>3. blobTask[<<Copied(k).parts[i], k.dst.repo>>] = "copied"
  BY DEF BlobsCopied, Collects, BlobsOf
<1>4. <<Copied(k).parts[i], k.dst.repo>> \in BlobKeys(k, Copied(k))
  BY DEF BlobKeys, Range
<1> QED
  BY <1>1, <1>3, <1>4 DEF IInv, BlobsKnown

LEMMA ManifestUploadKeeps ==
  ASSUME IInv, NEW k \in DOMAIN plat, BlobsCopied(k),
         ~Refused(DstImage(k), Copied(k)), Upload(DstImage(k), Copied(k)),
         NEW p \in {"copied", "failed"}, GotoPlatform(k, p), faulty' \in BOOLEAN,
         UNCHANGED <<run, place, caches, blobTask, sources>>
  PROVE  IInv'
<1>1. /\ DstImage(k).repo = k.dst.repo /\ DstImage(k).tag = k.dst.tag
      /\ DstImage(k).digest = Canonical(Copied(k))
      /\ k.dst.repo \in Repo /\ k.dst.tag \in Tag \cup {""}
  BY DEF DstImage, IInv, KeysNamed, IsImage
<1>2. /\ StoreClosed' /\ TagsNamed'
      /\ DOMAIN stored' = Repo /\ DOMAIN tags' = Repo /\ blobs' = blobs
      /\ \A r \in Repo : stored[r] \subseteq stored'[r]
  BY <1>1, ManifestIsComplete, UploadKeeps DEF ManifestKinds, IndexKinds
<1>3. Canonical(Copied(k)) \in stored'[k.dst.repo]
  BY <1>1, CanonicalDigest DEF Upload, Reference, IInv, TypeOK
<1>4. /\ DOMAIN plat' = DOMAIN plat
      /\ \A j \in DOMAIN plat : plat'[j] = IF j = k THEN p ELSE plat[j]
      /\ plat[k] = "copying"
  BY DEF GotoPlatform, BlobsCopied
<1>5. TypeOK'
  <2>1. Range(plat') \subseteq {"reading", "copying", "copied", "failed"}
    BY <1>4 DEF IInv, TypeOK, Range
  <2> QED
    BY <1>2, <2>1 DEF IInv, TypeOK, run, caches
<1>6. RequestsNamed' /\ BlobsKnown'
  BY <1>2, FrameStore DEF caches
<1>7. ReadsStored' /\ BlobsAsked'
  BY <1>2, <1>4, FrameReads, FrameKeys DEF caches
<1>8. KeysNamed'
  BY <1>4 DEF IInv, KeysNamed
<1>9. ManifestStored'
  <2>1. \A c, img : Read(c, img)' = Read(c, img)
    BY DEF Read, Settled, caches
  <2>2. SUFFICES ASSUME NEW j \in DOMAIN plat, plat'[j] = "copied",
                        NEW doc \in Read("src", j.src)
                 PROVE  Canonical(doc) \in stored'[j.dst.repo]
    BY <1>4, <2>1 DEF ManifestStored
  <2>3. CASE j = k
    BY <1>3, <2>3, ManifestIsComplete
  <2>4. CASE j # k
    <3>1. Canonical(doc) \in stored[j.dst.repo] /\ j.dst.repo \in Repo
      BY <1>4, <2>2, <2>4 DEF IInv, ManifestStored, KeysNamed, IsImage
    <3> QED
      BY <1>2, <3>1
  <2> QED
    BY <2>3, <2>4
<1>10. PlatformsAsked'
  BY <1>4, FrameSpecs DEF run, caches
<1> QED
  BY <1>2, <1>5, <1>6, <1>7, <1>8, <1>9, <1>10 DEF IInv

LEMMA PlatformStepKeeps ==
  ASSUME IInv, NEW k \in DOMAIN plat, PlatformSteps(k)
  PROVE  IInv'
<1>1. faulty \in BOOLEAN
  BY DEF IInv, TypeOK
<1>2. CASE NoManifest(k)
  BY <1>1, <1>2, PlatformSettles DEF NoManifest
<1>3. CASE CopyBlobs(k)
  BY <1>3, CopyBlobsKeeps
<1>4. CASE BlobsFail(k)
  BY <1>1, <1>4, PlatformSettles DEF BlobsFail
<1>5. CASE UploadPlatform(k)
  BY <1>1, <1>5, ManifestUploadKeeps DEF UploadPlatform
<1>6. CASE UploadPlatformFails(k)
  <2>1. faulty' \in BOOLEAN
    BY <1>1, <1>6 DEF UploadPlatformFails
  <2>2. CASE UNCHANGED registry
    BY <1>6, <2>1, <2>2, PlatformSettles DEF UploadPlatformFails
  <2>3. CASE ~Refused(DstImage(k), Copied(k)) /\ Upload(DstImage(k), Copied(k))
    BY <1>6, <2>1, <2>3, ManifestUploadKeeps DEF UploadPlatformFails
  <2> QED
    BY <1>6, <2>2, <2>3 DEF UploadPlatformFails
<1> QED
  BY <1>2, <1>3, <1>4, <1>5, <1>6 DEF PlatformSteps

\* A cache gets an answer: nothing, or a document that is held and is what was
\* asked for.
LEMMA AnswerKeeps ==
  ASSUME IInv, NEW c, NEW img, Pending(c, img), NEW docs, Answer(c, img, docs),
         \A doc, other \in docs : doc = other,
         \A doc \in docs : Verified(img, doc) /\ Holds(img, doc),
         UNCHANGED <<batch, place, plat, blobTask, registry>>
  PROVE  /\ ReadsStored' /\ BlobsAsked' /\ ManifestStored' /\ PlatformsAsked'
         /\ DOMAIN manifests' \subseteq requested
         /\ \A q \in DOMAIN manifests' : \A d, e \in manifests'[q] : d = e
<1> DEFINE new == <<c, img>>
<1>1. new \in requested /\ new \notin DOMAIN manifests
  BY DEF Pending, Settled
<1>2. /\ DOMAIN manifests' = DOMAIN manifests \cup {new}
      /\ \A q \in DOMAIN manifests' : manifests'[q] = IF q = new THEN docs ELSE manifests[q]
  BY DEF Answer
<1>3. /\ DOMAIN manifests' \subseteq requested
      /\ \A q \in DOMAIN manifests' : \A d, e \in manifests'[q] : d = e
  BY <1>1, <1>2 DEF IInv, TypeOK
<1>4. \A i, j : Read(i, j) \subseteq Read(i, j)'
  BY <1>1, <1>2 DEF Read, Settled
<1>5. ReadsStored'
  <2>1. SUFFICES ASSUME NEW q \in DOMAIN manifests', NEW doc \in manifests'[q]
                 PROVE  Verified(q[2], doc) /\ Holds(q[2], doc)
    BY DEF ReadsStored, Holds, registry, Verified
  <2>2. CASE q = new
    BY <1>2, <2>1, <2>2
  <2>3. CASE q # new
    BY <1>2, <2>1, <2>3 DEF IInv, ReadsStored
  <2> QED
    BY <2>2, <2>3
<1>6. BlobsAsked'
  BY <1>4 DEF IInv, BlobsAsked
<1>7. ManifestStored'
  <2>1. SUFFICES ASSUME NEW k \in DOMAIN plat, plat[k] = "copied",
                        NEW doc \in Read("src", k.src)'
                 PROVE  Canonical(doc) \in stored[k.dst.repo]
    BY DEF ManifestStored, registry
  <2>2. Read("src", k.src) = {Copied(k)}
    BY <2>1, CopiedIsRead
  <2>3. <<"src", k.src>> \in DOMAIN manifests
    BY <2>2 DEF Read, Settled
  <2>4. Read("src", k.src)' = Read("src", k.src)
    BY <1>1, <1>2, <2>3 DEF Read, Settled
  <2> QED
    BY <2>1, <2>4 DEF IInv, ManifestStored
<1>8. PlatformsAsked'
  BY <1>4 DEF IInv, PlatformsAsked
<1> QED
  BY <1>3, <1>5, <1>6, <1>7, <1>8

LEMMA GetManifestKeeps ==
  ASSUME IInv, NEW c, NEW img, IsImage(img), GetManifest(c, img)
  PROVE  IInv'
<1>1. PICK doc \in Served(img) :
        /\ Verified(img, doc)
        /\ Answer(c, img, {doc})
        /\ IF c = "index" THEN Submit(img.repo, {doc}) ELSE UNCHANGED <<requested, sources>>
  BY DEF GetManifest
<1>2. Pending(c, img) /\ UNCHANGED <<run, faulty, place, plat, blobTask, registry>>
  BY DEF GetManifest
<1>3. Holds(img, doc) /\ img.repo \in Repo
  BY ServedIsHeld DEF IsImage
<1>4. /\ ReadsStored' /\ BlobsAsked' /\ ManifestStored' /\ PlatformsAsked'
      /\ DOMAIN manifests' \subseteq requested
      /\ \A q \in DOMAIN manifests' : \A d, e \in manifests'[q] : d = e
  BY <1>1, <1>2, <1>3, AnswerKeeps DEF run
<1>5. /\ RequestsNamed' /\ BlobsKnown' /\ requested \subseteq requested'
      /\ sources' \cup blobs' \subseteq Universe
  <2>1. CASE Submit(img.repo, {doc})
    BY <1>2, <1>3, <2>1, SubmitKeeps
  <2>2. CASE UNCHANGED <<requested, sources>>
    BY <1>2, <2>2, FrameStore DEF IInv, TypeOK, registry
  <2> QED
    BY <1>1, <2>1, <2>2
<1>6. TypeOK'
  BY <1>2, <1>4, <1>5 DEF IInv, TypeOK, run, registry
<1>7. StoreClosed' /\ TagsNamed'
  BY <1>2, FrameStore
<1>8. KeysNamed'
  BY <1>2 DEF IInv, KeysNamed
<1> QED
  BY <1>4, <1>5, <1>6, <1>7, <1>8 DEF IInv

LEMMA GetManifestFailsKeeps ==
  ASSUME IInv, NEW c, NEW img, GetManifestFails(c, img)
  PROVE  IInv'
<1>1. /\ Pending(c, img) /\ Answer(c, img, {})
      /\ faulty' = (faulty \/ Found(img) # {})
      /\ UNCHANGED <<run, place, requested, plat, blobTask, sources, registry>>
  BY DEF GetManifestFails
<1>2. /\ ReadsStored' /\ BlobsAsked' /\ ManifestStored' /\ PlatformsAsked'
      /\ DOMAIN manifests' \subseteq requested
      /\ \A q \in DOMAIN manifests' : \A d, e \in manifests'[q] : d = e
  BY <1>1, AnswerKeeps DEF run
<1>3. RequestsNamed' /\ BlobsKnown' /\ StoreClosed' /\ TagsNamed'
  BY <1>1, FrameStore DEF registry
<1>4. faulty' \in BOOLEAN
  BY <1>1
<1>5. TypeOK'
  BY <1>1, <1>2, <1>4 DEF IInv, TypeOK, run, registry
<1>6. KeysNamed'
  BY <1>1 DEF IInv, KeysNamed
<1> QED
  BY <1>2, <1>3, <1>5, <1>6 DEF IInv

LEMMA BlobStepKeeps ==
  ASSUME IInv, NEW b \in DOMAIN blobTask, BlobSteps(b)
  PROVE  IInv'
<1>1. /\ DOMAIN blobTask' = DOMAIN blobTask
      /\ \E r \in {"copied", "failed"} : \A x \in DOMAIN blobTask :
           blobTask'[x] = IF x = b THEN r ELSE blobTask[x]
      /\ blobTask'[b] = "copied" => b \in sources'
      /\ sources' \subseteq sources \cup {b} /\ sources' \subseteq blobs'
      /\ blobs \subseteq blobs' /\ blobs' \subseteq blobs \cup {b}
  BY DEF BlobSteps, BlobCopied, BlobFails, BlobKnown, IInv, BlobsKnown
<1>2. faulty' \in BOOLEAN /\ UNCHANGED <<run, place, caches, plat, stored, tags>>
  BY DEF BlobSteps, BlobCopied, BlobFails, IInv, TypeOK
<1>3. TypeOK'
  <2>1. b \in Universe
    BY DEF IInv, BlobsKnown
  <2>2. Range(blobTask') \subseteq {"asked", "copied", "failed"}
    BY <1>1 DEF IInv, TypeOK, Range
  <2> QED
    BY <1>1, <1>2, <2>1, <2>2 DEF IInv, TypeOK, run, caches
<1>4. StoreClosed'
  BY <1>1, <1>2 DEF IInv, StoreClosed, Closed
<1>5. TagsNamed' /\ RequestsNamed'
  BY <1>2 DEF IInv, TagsNamed, RequestsNamed, caches
<1>6. BlobsKnown'
  BY <1>1, <1>2 DEF IInv, BlobsKnown
<1>7. ReadsStored' /\ KeysNamed' /\ BlobsAsked' /\ ManifestStored'
  BY <1>1, <1>2, FrameReads, FrameKeys DEF caches
<1>8. PlatformsAsked'
  BY <1>2, FrameSpecs DEF run, caches
<1> QED
  BY <1>3, <1>4, <1>5, <1>6, <1>7, <1>8 DEF IInv

LEMMA StepKeeps ==
  ASSUME IInv, [Next]_vars
  PROVE  IInv'
<1> USE DEF IInv, TypeOK
<1>1. CASE Steps
  <2>1. ASSUME process = "running", NEW s \in batch, SpecSteps(s) PROVE IInv'
    BY <2>1, SpecStepKeeps
  <2>2. ASSUME NEW k \in DOMAIN plat, PlatformSteps(k) PROVE IInv'
    BY <2>2, PlatformStepKeeps
  <2>3. ASSUME NEW q \in requested, CacheSteps(q[1], q[2]) PROVE IInv'
    BY <2>3, GetManifestKeeps, GetManifestFailsKeeps DEF CacheSteps, RequestsNamed
  <2>4. ASSUME NEW b \in DOMAIN blobTask, BlobSteps(b) PROVE IInv'
    BY <2>4, BlobStepKeeps
  <2> QED
    BY <1>1, <2>1, <2>2, <2>3, <2>4 DEF Steps
<1>2. CASE Kill
  BY <1>2, Forgotten DEF Kill
<1>3. CASE Rerun
  <2>1. MaxRuns \in [Batches -> Nat \ {0}]
    BY MirrorAssumption
  <2>2. runs' \in 1..MaxRuns[batch]
    BY <1>3, <2>1 DEF Rerun
  <2> QED
    BY <1>3, <2>2, Forgotten DEF Rerun
<1>4. CASE UNCHANGED vars
  <2> USE <1>4 DEF vars, run, caches, registry
  <2>1. StoreClosed' /\ TagsNamed' /\ RequestsNamed' /\ BlobsKnown'
    BY FrameStore
  <2>2. ReadsStored' /\ KeysNamed' /\ BlobsAsked' /\ ManifestStored'
    BY FrameReads, FrameKeys
  <2>3. PlatformsAsked'
    BY FrameSpecs
  <2>4. TypeOK'
    OBVIOUS
  <2> QED
    BY <2>1, <2>2, <2>3, <2>4
<1> QED
  BY <1>1, <1>2, <1>3, <1>4 DEF Next, Stopped

-----------------------------------------------------------------------------
(***************************************************************************)
(* The first theorems.                                                     *)
(***************************************************************************)
LEMMA AlwaysIInv == Spec => []IInv
  BY Initially, StepKeeps, PTL DEF Spec

\* Every variable has its type, and blobs exist only where the program or the
\* registries put them (copier.go:30-63).
THEOREM TypeCorrect == Spec => []TypeOK
<1>1. IInv => TypeOK
  BY DEF IInv
<1> QED
  BY <1>1, AlwaysIInv, PTL

\* What a registry serves is complete at every moment, for all batches, failed
\* requests, kills and reruns: a manifest is uploaded after its blobs and an
\* index after its manifests (platforms.go:79-88, copier.go:185-202), which
\* needs that the results of the blobCopier and the platformCopier, and what
\* the blobIndexer learns, are true.
THEOREM RegistriesComplete == Spec => []StoreClosed
<1>1. IInv => StoreClosed
  BY DEF IInv
<1> QED
  BY <1>1, AlwaysIInv, PTL

-----------------------------------------------------------------------------
(***************************************************************************)
(* What the tags are for, when every destination has one name.             *)
(***************************************************************************)
LEMMA BatchAccepted == IInv => Accepted(batch)
<1>1. \A specs \in Batches : Accepted(specs)
  BY MirrorAssumption
<1> QED
  BY <1>1 DEF IInv, TypeOK

\* A tag is the destination of one spec, and the source of none.
LEMMA TagsApart ==
  ASSUME IInv, OneName, NEW s \in batch, NEW t \in batch
  PROVE  /\ s.dst.tag # "" => s.dst.digest = NoDigest
         /\ s.dst.tag # "" /\ s.dst.repo = t.dst.repo /\ s.dst.tag = t.dst.tag => s = t
         /\ s.src.digest = NoDigest =>
              ~(s.src.repo = t.dst.repo /\ s.src.tag = t.dst.tag)
<1>1. IsImage(s.src) /\ IsImage(s.dst) /\ IsImage(t.dst)
  BY BatchOfImages
<1>2. /\ s.dst.tag = "" \/ s.dst.digest = NoDigest
      /\ t.dst.tag = "" \/ t.dst.digest = NoDigest
  BY DEF OneName, IInv, TypeOK
<1>3. (s.dst = t.dst => s = t) /\ t.dst # s.src
  BY BatchAccepted DEF Accepted
<1> QED
  BY <1>1, <1>2, <1>3 DEF IsImage

\* There is at most one document for an image, and a request that was verified
\* got it.
LEMMA ServedIsFound ==
  ASSUME IInv, NEW img, IsImage(img), NEW doc \in Served(img), Verified(img, doc)
  PROVE  doc \in {d[2] : d \in Found(img)}
<1>1. CASE img.digest # NoDigest
  <2>1. Found(img) = {img.digest}
    BY <1>1, ServedIsHeld DEF Found
  <2> QED
    BY <1>1, <2>1 DEF Verified
<1>2. CASE img.digest = NoDigest
  BY <1>2 DEF Served
<1> QED
  BY <1>1, <1>2

LEMMA OneOriginal ==
  ASSUME NEW s, NEW x \in Original(s)
  PROVE  Original(s) = {x}
BY DEF Original, Found

\* A document that was read by its digest is the one of the digest.
LEMMA ReadByDigest ==
  ASSUME IInv, NEW c, NEW r, NEW d, d # NoDigest, NEW doc \in Read(c, ByDigest(r, d))
  PROVE  doc = d[2]
<1>1. Verified(ByDigest(r, d), doc)
  BY ReadIsHeld
<1> QED
  BY <1>1 DEF Verified, ByDigest

\* What is selected from an index that is held has digests.
LEMMA SelectedDigests ==
  ASSUME IInv, NEW s \in batch, NEW doc, Holds(s.src, doc), doc.kind = "index",
         NEW i \in DOMAIN Selected(s, doc)
  PROVE  /\ i \in DOMAIN doc.parts /\ Selected(s, doc)[i] = doc.parts[i]
         /\ Selected(s, doc)[i].digest \in stored[s.src.repo]
         /\ Selected(s, doc)[i].digest # NoDigest
<1>1. i \in DOMAIN doc.parts /\ Selected(s, doc)[i] = doc.parts[i]
  BY DEF Selected, Restrict
<1>2. s.src.repo \in Repo
  BY BatchOfImages DEF IsImage
<1>3. {e.digest : e \in Range(doc.parts)} \subseteq stored[s.src.repo]
  BY <1>2, HeldIsComplete DEF IInv, IndexKinds
<1>4. doc.parts[i].digest \in stored[s.src.repo]
  BY <1>1, <1>3 DEF Range
<1>5. NoDigest \notin stored[s.src.repo]
  BY <1>2 DEF IInv, TagsNamed
<1> QED
  BY <1>1, <1>4, <1>5

\* The manifest of the i-th key of an index is that of the i-th descriptor.
LEMMA CopiedIsSelected ==
  ASSUME IInv, NEW s \in batch, NEW doc \in Read("src", s.src), doc.kind = "index",
         NEW i \in DOMAIN Copies(s, doc), Copies(s, doc)[i] \in DOMAIN plat,
         plat[Copies(s, doc)[i]] \in {"copying", "copied"}
  PROVE  /\ i \in DOMAIN Selected(s, doc)
         /\ Copied(Copies(s, doc)[i]) = Selected(s, doc)[i].digest[2]
<1> DEFINE k == Copies(s, doc)[i]
           e == Selected(s, doc)[i]
<1>1. i \in DOMAIN Selected(s, doc) /\ k.src = ByDigest(s.src.repo, e.digest)
  BY DEF Copies
<1>2. e.digest # NoDigest
  BY <1>1, ReadIsHeld, SelectedDigests
<1> HIDE DEF k, e
<1>3. Copied(k) \in Read("src", k.src)
  BY CopiedIsRead DEF k
<1>4. Copied(k) = e.digest[2]
  BY <1>1, <1>2, <1>3, ReadByDigest
<1> QED
  BY <1>1, <1>4 DEF k, e

\* A manifest that is copied to a tag is what the spec asks for.
LEMMA KeySatisfies ==
  ASSUME IInv, SourcesRead, NEW s \in batch, NEW k \in DOMAIN plat, KeyOf(k, s),
         k.dst.tag # "", plat[k] \in {"copying", "copied"}
  PROVE  k.dst = s.dst /\ Satisfies(s, Copied(k))
<1>1. PICK doc \in Read("src", s.src) : k \in Range(Copies(s, doc))
  BY DEF KeyOf
<1>2. PICK i \in DOMAIN Copies(s, doc) : k = Copies(s, doc)[i]
  BY <1>1 DEF Range
<1>3. doc \in Original(s) /\ Read("src", s.src) = {doc}
  BY <1>1, ReadIsHeld DEF SourcesRead
<1>4. Read("src", k.src) = {Copied(k)} /\ Copied(k).kind = "manifest"
  BY CopiedIsRead
<1>5. Contents(Copied(k)) = {Copied(k)}
  BY <1>4 DEF Contents
<1>6. CASE doc.kind = "manifest"
  <2>1. k = [src |-> s.src, dst |-> s.dst]
    <3>1. /\ DOMAIN Copies(s, doc) = {1}
          /\ Copies(s, doc)[1] = [src |-> s.src, dst |-> s.dst]
      BY <1>6, ManifestCopies
    <3>2. i = 1
      BY <3>1
    <3> QED
      BY <1>2, <3>1, <3>2
  <2>2. Copied(k) = doc
    BY <1>3, <1>4, <2>1
  <2> QED
    BY <1>3, <1>5, <1>6, <2>1, <2>2 DEF Satisfies
<1>7. CASE doc.kind = "index"
  <2>1. k.dst = IF OnlyOne(Selected(s, doc)) THEN s.dst
                ELSE ByDigest(s.dst.repo, Selected(s, doc)[i].digest)
    BY <1>2, <1>7 DEF Copies
  <2>2. k.dst = s.dst /\ OnlyOne(Selected(s, doc))
    <3>1. ByDigest(s.dst.repo, Selected(s, doc)[i].digest).tag = ""
      BY DEF ByDigest
    <3> QED
      BY <2>1, <3>1
  <2>3. i \in DOMAIN Selected(s, doc) /\ Copied(k) = Selected(s, doc)[i].digest[2]
    BY <1>2, <1>7, CopiedIsSelected
  <2>4. {e.digest[2] : e \in Range(Selected(s, doc))} = {Copied(k)}
    BY <2>2, <2>3 DEF OnlyOne, Range
  <2> QED
    BY <1>3, <1>4, <1>5, <1>7, <2>2, <2>4 DEF Satisfies
<1>8. doc.kind \in {"manifest", "index"}
  BY <1>2, NoCopies
<1> QED
  BY <1>6, <1>7, <1>8

\* The index that is uploaded is what the spec asks for.
LEMMA IndexSatisfies ==
  ASSUME IInv, SourcesRead, NEW s \in batch, NEW doc, AllCopied(s, doc),
         ~OnlyOne(Copies(s, doc))
  PROVE  Satisfies(s, DstIndex(s, doc))
<1> DEFINE sel  == Selected(s, doc)
           keys == Copies(s, doc)
           new  == [i \in DOMAIN sel |-> NewDescriptor(s, sel[i], Copied(keys[i]))]
<1>1. /\ place[s] = "copying" /\ doc \in Read("src", s.src)
      /\ \A i \in DOMAIN keys : plat[keys[i]] = "copied"
  BY DEF AllCopied, Collects, PlatformsOf
<1>2. doc.kind = "index" /\ doc \in Original(s)
  BY <1>1, CopyingAsked DEF SourcesRead
<1>3. DOMAIN keys = DOMAIN sel
  BY <1>2 DEF Copies
<1>4. ASSUME NEW i \in DOMAIN sel
      PROVE  /\ new[i].digest[2] = sel[i].digest[2]
             /\ s.limit = {} => new[i].platform = sel[i].platform
  <2>1. keys[i] \in DOMAIN plat /\ plat[keys[i]] = "copied"
    BY <1>1, <1>3, CopyingAsked
  <2>2. Copied(keys[i]) = sel[i].digest[2]
    BY <1>1, <1>2, <1>3, <2>1, CopiedIsSelected
  <2>3. NewDescriptor(s, sel[i], Copied(keys[i])).digest = Canonical(Copied(keys[i]))
    BY DEF NewDescriptor
  <2>4. s.limit = {} => NewDescriptor(s, sel[i], Copied(keys[i])).platform = sel[i].platform
    BY DEF NewDescriptor
  <2> QED
    BY <2>2, <2>3, <2>4, CanonicalDigest
<1>5. DstIndex(s, doc).kind = "index" /\ DstIndex(s, doc).parts = new
  BY <1>2 DEF DstIndex
<1>6. s.limit = {} => sel = doc.parts
  BY DEF Selected
<1>7. DOMAIN new = DOMAIN sel
  OBVIOUS
<1> HIDE DEF new, keys, sel
<1>8. {e.digest[2] : e \in Range(new)} = {e.digest[2] : e \in Range(sel)}
  BY <1>4, <1>7 DEF Range
<1>9. s.limit = {} => Platforms(DstIndex(s, doc)) = Platforms(doc)
  <2>1. SUFFICES ASSUME s.limit = {}
                 PROVE  {<<e.digest[2], e.platform>> : e \in Range(new)} =
                          {<<e.digest[2], e.platform>> : e \in Range(sel)}
    BY <1>5, <1>6 DEF Platforms
  <2> QED
    BY <1>4, <1>7, <2>1 DEF Range
<1> QED
  BY <1>2, <1>5, <1>8, <1>9 DEF Satisfies, Contents, sel

-----------------------------------------------------------------------------
(***************************************************************************)
(* What a step may do to the registries, to what was read, and to specs    *)
(* and keys, while the program goes on.                                    *)
(***************************************************************************)
\* Digests stay, and a tag only moves to what its spec asks for.
Moves ==
  /\ \A r \in Repo : stored[r] \subseteq stored'[r]
  /\ \A s \in batch : s.src.digest = NoDigest =>
       tags'[s.src.repo][s.src.tag] = tags[s.src.repo][s.src.tag]
  /\ \A s \in batch : s.dst.tag # "" =>
       \/ TagOf(s)' = TagOf(s)
       \/ place[s] # "reading" /\ GoodFor(s, TagOf(s)')

\* What has been read stays, and what is new is found in the registry.
Reads ==
  /\ \A c, img : Read(c, img) \subseteq Read(c, img)'
  /\ \A c, img : Read(c, img)' \subseteq Read(c, img) \cup {d[2] : d \in Found(img)}

\* Specs do not go back, and new keys belong to one that goes on.
GoesOn ==
  /\ \A s \in batch : place[s] # "reading" => place'[s] # "reading"
  /\ \A k \in DOMAIN plat' : k \in DOMAIN plat \/ \E s \in batch : KeyOf(k, s)'

\* A key that is copied to a tag makes the tag good.
TagsSet ==
  \A s \in batch : \A k \in DOMAIN plat' :
    k.dst = s.dst /\ s.dst.tag # "" /\ plat'[k] = "copied" =>
      \/ k \in DOMAIN plat /\ plat[k] = "copied"
      \/ GoodFor(s, TagOf(s)')

\* A spec that has succeeded is mirrored.
Succeeds ==
  \A s \in batch : place'[s] = "done" =>
    place[s] = "done" \/ IsMirrored(s) \/ IsMirrored(s)'

Effects == UNCHANGED batch /\ Moves /\ Reads /\ GoesOn /\ TagsSet /\ Succeeds

\* The source of a spec stays, and so does what it satisfies.
LEMMA OriginalStays ==
  ASSUME IInv, NEW s \in batch, Moves
  PROVE  /\ Original(s) \subseteq Original(s)'
         /\ \A doc : Satisfies(s, doc) => Satisfies(s, doc)'
<1>1. IsImage(s.src)
  BY BatchOfImages
<1>2. Found(s.src) \subseteq Found(s.src)'
  <2>1. CASE s.src.digest # NoDigest
    BY <1>1, <2>1 DEF Moves, Found, IsImage
  <2>2. CASE s.src.digest = NoDigest
    BY <1>1, <2>2 DEF Moves, Found, IsImage
  <2> QED
    BY <2>1, <2>2
<1>3. Original(s) \subseteq Original(s)'
  BY <1>2 DEF Original
<1> QED
  BY <1>3 DEF Satisfies

\* What is good for a spec stays good, and so does its tag.
LEMMA TagStays ==
  ASSUME IInv, NEW s \in batch, Moves, s.dst.tag # ""
  PROVE  /\ \A d : GoodFor(s, d) => GoodFor(s, d)'
         /\ GoodFor(s, TagOf(s)) => GoodFor(s, TagOf(s))'
         /\ TagOf(s)' = TagOf(s) \/ GoodFor(s, TagOf(s))'
<1>1. \A d : GoodFor(s, d) => GoodFor(s, d)'
  BY OriginalStays DEF GoodFor
<1>2. GoodFor(s, TagOf(s)') => GoodFor(s, TagOf(s))'
  BY OriginalStays DEF GoodFor
<1>3. TagOf(s)' = TagOf(s) \/ GoodFor(s, TagOf(s)')
  BY DEF Moves
<1>4. TagOf(s)' = TagOf(s) /\ GoodFor(s, TagOf(s)) => GoodFor(s, TagOf(s))'
  BY OriginalStays DEF GoodFor
<1> QED
  BY <1>1, <1>2, <1>3, <1>4

LEMMA MirroredStays ==
  ASSUME IInv, OneName, NEW s \in batch, Moves, IsMirrored(s)
  PROVE  IsMirrored(s)'
<1>1. IsImage(s.dst)
  BY BatchOfImages
<1>2. CASE s.dst.digest # NoDigest
  <2>1. Found(s.dst) \subseteq Found(s.dst)'
    BY <1>1, <1>2 DEF Moves, Found, IsImage
  <2> QED
    BY <2>1, OriginalStays DEF IsMirrored
<1>3. CASE s.dst.digest = NoDigest
  <2>1. s.dst.tag # "" /\ Found(s.dst) = {TagOf(s)} \ {NoDigest}
    BY <1>1, <1>3 DEF IsImage, Found, TagOf
  <2>2. GoodFor(s, TagOf(s))
    BY <1>3, <2>1 DEF IsMirrored, GoodFor
  <2>3. GoodFor(s, TagOf(s))'
    BY <2>1, <2>2, TagStays
  <2>4. TagOf(s)' \in Found(s.dst)' /\ Satisfies(s, TagOf(s)[2])'
    BY <1>3, <2>3 DEF Found, GoodFor, TagOf
  <2> QED
    BY <2>4 DEF IsMirrored
<1> QED
  BY <1>2, <1>3

LEMMA EffectsKeep ==
  ASSUME IInv, OneName, TInv, Effects
  PROVE  TInv'
<1> USE DEF Effects
<1>1. KeysOwned'
  <2>1. SUFFICES ASSUME NEW k \in DOMAIN plat' PROVE \E s \in batch : KeyOf(k, s)'
    BY DEF KeysOwned
  <2>2. ASSUME k \in DOMAIN plat PROVE \E s \in batch : KeyOf(k, s)'
    <3>1. PICK s \in batch : KeyOf(k, s)
      BY <2>2 DEF TInv, KeysOwned
    <3> QED
      BY <3>1 DEF KeyOf, GoesOn, Reads
  <2> QED
    BY <2>2 DEF GoesOn
<1>2. SourcesRead'
  <2>1. SUFFICES ASSUME NEW s \in batch
                 PROVE  /\ Read("src", s.src)' \subseteq Original(s)'
                        /\ s.src.digest = NoDigest =>
                             tags'[s.src.repo][s.src.tag] = Tagged[s.src.repo][s.src.tag]
    BY DEF SourcesRead
  <2>2. Read("src", s.src)' \subseteq Original(s)
    BY DEF TInv, SourcesRead, Reads, Original
  <2> QED
    BY <2>2, OriginalStays DEF TInv, SourcesRead, Moves
<1>3. DestinationRead'
  <2>1. SUFFICES ASSUME NEW s \in batch, place'[s] = "reading"
                 PROVE  Read("dst", s.dst)' \subseteq {d[2] : d \in Found(s.dst)'}
    BY DEF DestinationRead
  <2>2. place[s] = "reading"
    BY <2>1 DEF GoesOn
  <2>3. Read("dst", s.dst)' \subseteq {d[2] : d \in Found(s.dst)}
    BY <2>2 DEF TInv, DestinationRead, Reads
  <2>4. IsImage(s.dst)
    BY BatchOfImages
  <2>5. Found(s.dst) \subseteq Found(s.dst)'
    BY <2>2, <2>4 DEF Moves, Found, IsImage, TagOf
  <2> QED
    BY <2>3, <2>5
<1>4. TagsCopied'
  BY TagStays DEF TInv, TagsCopied, TagsSet
<1>5. TagsMoveOnce'
  <2>1. SUFFICES ASSUME NEW s \in batch, s.dst.tag # ""
                 PROVE  \/ TagOf(s)' = Tagged[s.dst.repo][s.dst.tag]
                        \/ Satisfies(s, TagOf(s)[2])'
    BY DEF TagsMoveOnce, TagOf
  <2>2. CASE TagOf(s)' = TagOf(s)
    BY <2>1, <2>2, OriginalStays DEF TInv, TagsMoveOnce, TagOf
  <2>3. CASE GoodFor(s, TagOf(s))'
    BY <2>3 DEF GoodFor
  <2> QED
    BY <2>1, <2>2, <2>3, TagStays
<1>6. Mirrored'
  BY MirroredStays DEF TInv, Mirrored, Succeeds
<1> QED
  BY <1>1, <1>2, <1>3, <1>4, <1>5, <1>6 DEF TInv

-----------------------------------------------------------------------------
(***************************************************************************)
(* The effects of the steps.                                               *)
(***************************************************************************)
LEMMA NothingMoves == UNCHANGED registry => Moves
BY DEF Moves, registry, TagOf

LEMMA NothingRead == UNCHANGED manifests => Reads
BY DEF Reads, Read, Settled

\* A step of one spec that asks for nothing.
LEMMA SpecGoesOn ==
  ASSUME IInv, NEW s \in batch, NEW p \in {"done", "failed"}, Goto(s, p),
         UNCHANGED plat, p = "done" => IsMirrored(s) \/ IsMirrored(s)'
  PROVE  GoesOn /\ TagsSet /\ Succeeds
<1>1. \A t \in batch : place'[t] = IF t = s THEN p ELSE place[t]
  BY DEF IInv, TypeOK, Goto
<1>2. GoesOn /\ TagsSet
  BY <1>1 DEF GoesOn, TagsSet
<1>3. Succeeds
  BY <1>1 DEF Succeeds
<1> QED
  BY <1>2, <1>3

\* A step of another part.
LEMMA SpecsWait ==
  ASSUME UNCHANGED place, DOMAIN plat' = DOMAIN plat,
         \A k \in DOMAIN plat : plat'[k] = "copied" => plat[k] = "copied"
  PROVE  GoesOn /\ TagsSet /\ Succeeds
BY DEF GoesOn, TagsSet, Succeeds

\* An upload to the repository of a spec, and to its tag only if it asks for that.
LEMMA UploadMoves ==
  ASSUME IInv, OneName, NEW s \in batch, place[s] # "reading", NEW img, NEW doc,
         img.repo = s.dst.repo, img.tag = "" \/ img.tag = s.dst.tag,
         ~Refused(img, doc), Upload(img, doc), img.tag # "" => Satisfies(s, doc)
  PROVE  /\ Moves
         /\ img.tag # "" => GoodFor(s, TagOf(s)')
         /\ img.tag = "" => Reference(img, doc) \in stored'[img.repo]
<1> DEFINE d == IF img.tag # "" THEN Canonical(doc) ELSE Reference(img, doc)
<1>1. d # NoDigest /\ d[2] = doc
  BY CanonicalDigest DEF Refused, Reference
<1>2. img.tag = "" => d = Reference(img, doc)
  OBVIOUS
<1> HIDE DEF d
<1>3. /\ stored' = [stored EXCEPT ![img.repo] = @ \cup {d}]
      /\ tags' = IF img.tag = "" THEN tags ELSE [tags EXCEPT ![img.repo][img.tag] = d]
  BY DEF Upload, d
<1>4. img.repo \in Repo /\ img.tag \in Tag \cup {""}
  BY BatchOfImages DEF IsImage
<1>5. /\ \A r \in Repo : stored[r] \subseteq stored'[r]
      /\ d \in stored'[img.repo]
  BY <1>3, <1>4 DEF IInv, TypeOK
<1>6. \A r \in Repo : \A t \in Tag :
        IF r = img.repo /\ t = img.tag THEN tags'[r][t] = d ELSE tags'[r][t] = tags[r][t]
  <2>1. DOMAIN tags = Repo /\ \A r \in Repo : DOMAIN tags[r] = Tag
    BY DEF IInv, TypeOK, TagsNamed
  <2>2. CASE img.tag = ""
    <3>1. "" \notin Tag
      BY MirrorAssumption
    <3> QED
      BY <1>3, <2>2, <3>1
  <2>3. CASE img.tag # ""
    <3>1. tags' = [tags EXCEPT ![img.repo] = [tags[img.repo] EXCEPT ![img.tag] = d]]
      BY <1>3, <2>3
    <3> QED
      BY <1>4, <2>1, <2>3, <3>1
  <2> QED
    BY <2>2, <2>3
<1>7. \A t \in batch : t.src.digest = NoDigest =>
        tags'[t.src.repo][t.src.tag] = tags[t.src.repo][t.src.tag]
  <2>1. SUFFICES ASSUME NEW t \in batch, t.src.digest = NoDigest
                 PROVE  tags'[t.src.repo][t.src.tag] = tags[t.src.repo][t.src.tag]
    OBVIOUS
  <2>2. t.src.repo \in Repo /\ t.src.tag \in Tag
    BY <2>1, BatchOfImages DEF IsImage
  <2>3. ~(t.src.repo = s.dst.repo /\ t.src.tag = s.dst.tag)
    BY <2>1, TagsApart
  <2>4. "" \notin Tag
    BY MirrorAssumption
  <2> QED
    BY <1>6, <2>2, <2>3, <2>4
<1>8. ASSUME NEW t \in batch, t.dst.tag # ""
      PROVE  TagOf(t)' = TagOf(t) \/ (t = s /\ img.tag # "" /\ TagOf(t)' = d)
  <2>1. t.dst.repo \in Repo /\ t.dst.tag \in Tag
    BY <1>8, BatchOfImages DEF IsImage
  <2>2. t.dst.repo = s.dst.repo /\ t.dst.tag = s.dst.tag => t = s
    BY <1>8, TagsApart
  <2> QED
    BY <1>6, <1>8, <2>1, <2>2 DEF TagOf
<1>9. img.tag # "" => TagOf(s)' = d /\ GoodFor(s, d)
  BY <1>1, <1>4, <1>6 DEF TagOf, GoodFor
<1>10. Moves
  BY <1>5, <1>7, <1>8, <1>9 DEF Moves
<1> QED
  BY <1>2, <1>5, <1>9, <1>10

\* Equal documents at both ends, and nothing to be limited: nothing is to be done.
LEMMA NoChangeEffects ==
  ASSUME IInv, TInv, NEW s \in batch, NEW doc, NoChange(s, doc)
  PROVE  Effects
<1>1. /\ place[s] = "reading" /\ doc \in Read("src", s.src)
      /\ doc \in Read("dst", s.dst) /\ s.limit = {}
  BY DEF NoChange, Compares, Same
<1>2. doc \in Original(s) /\ doc \in {d[2] : d \in Found(s.dst)}
  BY <1>1 DEF TInv, SourcesRead, DestinationRead
<1>3. Satisfies(s, doc)
  BY <1>1, <1>2 DEF Satisfies, Contents, Selected
<1>4. IsMirrored(s)
  BY <1>2, <1>3 DEF IsMirrored
<1>5. GoesOn /\ TagsSet /\ Succeeds
  BY <1>4, SpecGoesOn DEF NoChange
<1> QED
  BY <1>5, NothingMoves, NothingRead DEF Effects, NoChange, run

\* New keys belong to the spec that asks for them.
LEMMA CopyImageEffects ==
  ASSUME IInv, NEW s \in batch, NEW doc, CopyImage(s, doc)
  PROVE  Effects
<1> DEFINE keys == Range(Copies(s, doc))
<1>1. /\ place[s] = "reading" /\ doc \in Read("src", s.src)
      /\ plat' = Inform(plat, keys, "reading")
      /\ Goto(s, IF keys = {} THEN "failed" ELSE "copying")
      /\ UNCHANGED <<run, faulty, manifests, blobTask, registry>>
  BY DEF CopyImage, Compares
<1>2. /\ place'[s] \in {"failed", "copying"}
      /\ \A t \in batch : t # s => place'[t] = place[t]
  BY <1>1 DEF IInv, TypeOK, Goto
<1>3. doc \in Read("src", s.src)'
  BY <1>1 DEF Read, Settled
<1>4. /\ DOMAIN plat' = keys \cup DOMAIN plat
      /\ \A k \in DOMAIN plat' :
           plat'[k] = IF k \in DOMAIN plat THEN plat[k] ELSE "reading"
  BY <1>1 DEF Inform
<1>5. \A k \in keys : KeyOf(k, s)'
  BY <1>2, <1>3 DEF KeyOf
<1> HIDE DEF keys
<1>6. GoesOn
  BY <1>2, <1>4, <1>5 DEF GoesOn
<1>7. TagsSet /\ Succeeds
  BY <1>2, <1>4 DEF TagsSet, Succeeds
<1> QED
  BY <1>1, <1>6, <1>7, NothingMoves, NothingRead DEF Effects, run

\* A single manifest has been copied under the name of the image.
LEMMA OneIsMirrored ==
  ASSUME IInv, OneName, TInv, NEW s \in batch, NEW doc, OneCopied(s, doc)
  PROVE  IsMirrored(s)
<1>1. /\ place[s] = "copying" /\ doc \in Read("src", s.src)
      /\ \A i \in DOMAIN Copies(s, doc) : plat[Copies(s, doc)[i]] = "copied"
      /\ OnlyOne(Copies(s, doc))
  BY DEF OneCopied, AllCopied, Collects, PlatformsOf
<1>2. PICK i : DOMAIN Copies(s, doc) = {i}
  BY <1>1 DEF OnlyOne
<1>3. PICK k : k = Copies(s, doc)[i]
  OBVIOUS
<1>4. k \in DOMAIN plat /\ plat[k] = "copied" /\ doc.kind \in {"manifest", "index"}
  BY <1>1, <1>2, <1>3, CopyingAsked
<1>5. doc \in Original(s)
  BY <1>1 DEF TInv, SourcesRead
<1>6. /\ doc.kind = "manifest" => k = [src |-> s.src, dst |-> s.dst]
      /\ doc.kind = "index" => DOMAIN Selected(s, doc) = {i}
      /\ k.dst = s.dst
  <2>1. CASE doc.kind = "manifest"
    <3>1. DOMAIN Copies(s, doc) = {1} /\ i \in DOMAIN Copies(s, doc)
      BY <1>2, <2>1, ManifestCopies
    <3>2. i = 1
      BY <3>1
    <3> QED
      BY <1>3, <2>1, <3>2, ManifestCopies
  <2>2. CASE doc.kind = "index"
    <3>1. DOMAIN Selected(s, doc) = {i}
      BY <1>2, <2>2 DEF Copies
    <3>2. OnlyOne(Selected(s, doc))
      BY <3>1 DEF OnlyOne
    <3> QED
      BY <1>3, <2>2, <3>1, <3>2 DEF Copies
  <2> QED
    BY <1>4, <2>1, <2>2
<1>7. IsImage(s.dst)
  BY BatchOfImages
<1>8. CASE s.dst.tag # ""
  <2>1. GoodFor(s, TagOf(s))
    BY <1>4, <1>6, <1>8 DEF TInv, TagsCopied
  <2>2. TagOf(s) \in Found(s.dst)
    BY <1>8, <2>1, TagsApart DEF Found, TagOf, GoodFor
  <2> QED
    BY <2>1, <2>2 DEF IsMirrored, GoodFor
<1>9. CASE s.dst.tag = ""
  <2>1. s.dst.digest # NoDigest
    BY <1>7, <1>9 DEF IsImage
  <2>2. CASE doc.kind = "index"
    <3>1. s.limit = {}
      BY <2>1, BatchAccepted DEF Accepted
    <3>2. OnlyOne(doc.parts)
      BY <1>6, <2>2, <3>1 DEF OnlyOne, Selected
    <3> QED
      BY <1>5, <2>1, <2>2, <3>2 DEF IsMirrored
  <2>3. CASE doc.kind = "manifest" /\ s.dst.digest = Canonical(doc)
    <3>1. Canonical(doc) \in stored[s.dst.repo]
      BY <1>1, <1>4, <1>6, <2>3 DEF IInv, ManifestStored
    <3>2. Canonical(doc) \in Found(s.dst)
      BY <2>1, <2>3, <3>1 DEF Found
    <3>3. Satisfies(s, doc)
      BY <1>5, <2>3 DEF Satisfies, Contents
    <3> QED
      BY <3>2, <3>3, CanonicalDigest DEF IsMirrored
  <2>4. CASE doc.kind = "manifest" /\ s.dst.digest # Canonical(doc)
    BY <1>5, <2>1, <2>4 DEF IsMirrored
  <2> QED
    BY <1>4, <2>2, <2>3, <2>4
<1> QED
  BY <1>8, <1>9

\* The index is the last to be uploaded, and the destination refers to it.
LEMMA IndexEffects ==
  ASSUME IInv, OneName, TInv, NEW s \in batch, NEW doc, AllCopied(s, doc),
         ~OnlyOne(Copies(s, doc)), ~Refused(s.dst, DstIndex(s, doc)),
         Upload(s.dst, DstIndex(s, doc)), NEW p \in {"done", "failed"}, Goto(s, p),
         UNCHANGED <<run, caches, plat, blobTask, sources>>
  PROVE  Effects
<1>1. place[s] # "reading"
  BY DEF AllCopied
<1>2. PICK new : new = DstIndex(s, doc)
  OBVIOUS
<1>3. Satisfies(s, new)
  BY <1>2, IndexSatisfies DEF TInv
<1>4. /\ Moves
      /\ s.dst.tag # "" => GoodFor(s, TagOf(s)')
      /\ s.dst.tag = "" => Reference(s.dst, new) \in stored'[s.dst.repo]
  BY <1>1, <1>2, <1>3, UploadMoves
<1>5. IsImage(s.dst)
  BY BatchOfImages
<1>6. IsMirrored(s)'
  <2>1. CASE s.dst.tag # ""
    <3>1. GoodFor(s, TagOf(s))'
      BY <1>4, <2>1, OriginalStays DEF GoodFor
    <3>2. TagOf(s)' \in Found(s.dst)'
      BY <2>1, <3>1, TagsApart DEF Found, TagOf, GoodFor
    <3> QED
      BY <3>1, <3>2 DEF IsMirrored, GoodFor
  <2>2. CASE s.dst.tag = ""
    <3>1. s.dst.digest # NoDigest
      BY <1>5, <2>2 DEF IsImage
    <3>2. s.dst.digest \in Found(s.dst)'
      BY <1>4, <2>2, <3>1 DEF Found, Reference
    <3>3. s.dst.digest[2] = new
      BY <1>2, <2>2, <3>1 DEF Refused, Reference
    <3>4. Satisfies(s, new)'
      BY <1>3, <1>4, OriginalStays
    <3> QED
      BY <3>2, <3>3, <3>4 DEF IsMirrored
  <2> QED
    BY <2>1, <2>2
<1>7. GoesOn /\ TagsSet /\ Succeeds
  BY <1>6, SpecGoesOn
<1> QED
  BY <1>4, <1>7, NothingRead DEF Effects, run, caches

LEMMA SpecStepEffects ==
  ASSUME IInv, OneName, TInv, NEW s \in batch, SpecSteps(s),
         ~\E doc \in Read("src", s.src) : NilPlatform(s, doc)
  PROVE  Effects
<1>1. CASE SourceFails(s)
  <2>1. GoesOn /\ TagsSet /\ Succeeds
    BY <1>1, SpecGoesOn DEF SourceFails
  <2> QED
    BY <1>1, <2>1, NothingMoves, NothingRead DEF Effects, SourceFails, run, caches
<1>2. ASSUME NEW doc \in Read("src", s.src),
             \/ NoChange(s, doc) \/ CopyImage(s, doc)
             \/ PlatformsFail(s, doc) \/ OneCopied(s, doc)
             \/ UploadIndex(s, doc) \/ UploadIndexFails(s, doc)
      PROVE  Effects
  <2>1. CASE NoChange(s, doc)
    BY <2>1, NoChangeEffects
  <2>2. CASE CopyImage(s, doc)
    BY <2>2, CopyImageEffects
  <2>3. CASE PlatformsFail(s, doc)
    <3>1. GoesOn /\ TagsSet /\ Succeeds
      BY <2>3, SpecGoesOn DEF PlatformsFail
    <3> QED
      BY <2>3, <3>1, NothingMoves, NothingRead DEF Effects, PlatformsFail, run, caches
  <2>4. CASE OneCopied(s, doc)
    <3>1. GoesOn /\ TagsSet /\ Succeeds
      BY <2>4, OneIsMirrored, SpecGoesOn DEF OneCopied
    <3> QED
      BY <2>4, <3>1, NothingMoves, NothingRead DEF Effects, OneCopied, run, caches
  <2>5. CASE UploadIndex(s, doc)
    BY <2>5, IndexEffects DEF UploadIndex
  <2>6. CASE UploadIndexFails(s, doc)
    <3>1. CASE UNCHANGED registry
      <4>1. GoesOn /\ TagsSet /\ Succeeds
        BY <2>6, SpecGoesOn DEF UploadIndexFails
      <4> QED
        BY <2>6, <3>1, <4>1, NothingMoves, NothingRead DEF Effects, UploadIndexFails, run, caches
    <3>2. CASE ~Refused(s.dst, DstIndex(s, doc)) /\ Upload(s.dst, DstIndex(s, doc))
      BY <2>6, <3>2, IndexEffects DEF UploadIndexFails
    <3> QED
      BY <2>6, <3>1, <3>2 DEF UploadIndexFails
  <2> QED
    BY <1>2, <2>1, <2>2, <2>3, <2>4, <2>5, <2>6
<1> QED
  BY <1>1, <1>2 DEF SpecSteps

\* A manifest is uploaded to the repository of the spec that asked for it, and
\* to its tag only if it is all that the spec asks for.
LEMMA ManifestEffects ==
  ASSUME IInv, OneName, TInv, NEW k \in DOMAIN plat, BlobsCopied(k),
         ~Refused(DstImage(k), Copied(k)), Upload(DstImage(k), Copied(k)),
         NEW p \in {"copied", "failed"}, GotoPlatform(k, p),
         UNCHANGED <<run, place, caches, blobTask, sources>>
  PROVE  Effects
<1>1. PICK s \in batch : KeyOf(k, s)
  BY DEF TInv, KeysOwned
<1>2. plat[k] = "copying" /\ place[s] # "reading"
  BY <1>1 DEF BlobsCopied, KeyOf
<1>3. k.dst.repo = s.dst.repo
  <2>1. PICK doc \in Read("src", s.src) : k \in Range(Copies(s, doc))
    BY <1>1 DEF KeyOf
  <2> QED
    BY <2>1, ReadIsHeld, CopiesNamed
<1>4. k.dst.tag # "" => k.dst = s.dst /\ Satisfies(s, Copied(k))
  BY <1>1, <1>2, KeySatisfies DEF TInv
<1>5. DstImage(k).repo = s.dst.repo /\ DstImage(k).tag = k.dst.tag
  BY <1>3 DEF DstImage
<1>6. Moves /\ (k.dst.tag # "" => GoodFor(s, TagOf(s)'))
  BY <1>2, <1>4, <1>5, UploadMoves
<1>7. /\ DOMAIN plat' = DOMAIN plat
      /\ \A j \in DOMAIN plat : j # k => plat'[j] = plat[j]
  BY DEF GotoPlatform
<1>8. TagsSet
  <2>1. SUFFICES ASSUME NEW t \in batch, k.dst = t.dst, t.dst.tag # ""
                 PROVE  GoodFor(t, TagOf(t)')
    BY <1>7 DEF TagsSet
  <2>2. s = t
    BY <1>4, <2>1, TagsApart
  <2> QED
    BY <1>6, <2>1, <2>2
<1>9. GoesOn /\ Succeeds
  BY <1>7 DEF GoesOn, Succeeds
<1> QED
  BY <1>6, <1>8, <1>9, NothingRead DEF Effects, run, caches

\* A step of a key that uploads nothing.
LEMMA PlatformGoesOn ==
  ASSUME NEW k \in DOMAIN plat, NEW p \in {"copying", "failed"}, GotoPlatform(k, p),
         UNCHANGED <<run, place, caches, registry>>
  PROVE  Effects
<1>1. /\ DOMAIN plat' = DOMAIN plat
      /\ \A j \in DOMAIN plat : plat'[j] = "copied" => plat[j] = "copied"
  BY DEF GotoPlatform
<1>2. GoesOn /\ TagsSet /\ Succeeds
  BY <1>1, SpecsWait
<1> QED
  BY <1>2, NothingMoves, NothingRead DEF Effects, run, caches

LEMMA PlatformStepEffects ==
  ASSUME IInv, OneName, TInv, NEW k \in DOMAIN plat, PlatformSteps(k)
  PROVE  Effects
<1>1. CASE NoManifest(k)
  BY <1>1, PlatformGoesOn DEF NoManifest
<1>2. CASE CopyBlobs(k)
  BY <1>2, PlatformGoesOn DEF CopyBlobs
<1>3. CASE BlobsFail(k)
  BY <1>3, PlatformGoesOn DEF BlobsFail
<1>4. CASE UploadPlatform(k)
  BY <1>4, ManifestEffects DEF UploadPlatform
<1>5. CASE UploadPlatformFails(k)
  <2>1. CASE UNCHANGED registry
    BY <1>5, <2>1, PlatformGoesOn DEF UploadPlatformFails
  <2>2. CASE ~Refused(DstImage(k), Copied(k)) /\ Upload(DstImage(k), Copied(k))
    BY <1>5, <2>2, ManifestEffects DEF UploadPlatformFails
  <2> QED
    BY <1>5, <2>1, <2>2 DEF UploadPlatformFails
<1> QED
  BY <1>1, <1>2, <1>3, <1>4, <1>5 DEF PlatformSteps

\* An answer is kept, and is found in the registry if it was verified.
LEMMA AnswerEffects ==
  ASSUME IInv, NEW c, NEW img, Pending(c, img), NEW docs, Answer(c, img, docs),
         docs \subseteq {d[2] : d \in Found(img)},
         UNCHANGED <<run, place, plat, registry>>
  PROVE  Effects
<1> DEFINE new == <<c, img>>
<1>1. new \notin DOMAIN manifests
  BY DEF Pending, Settled
<1>2. /\ DOMAIN manifests' = DOMAIN manifests \cup {new}
      /\ \A q \in DOMAIN manifests' : manifests'[q] = IF q = new THEN docs ELSE manifests[q]
  BY DEF Answer
<1>3. \A i, j : Read(i, j) \subseteq Read(i, j)'
  BY <1>1, <1>2 DEF Read, Settled
<1>4. ASSUME NEW i, NEW j
      PROVE  Read(i, j)' \subseteq Read(i, j) \cup {d[2] : d \in Found(j)}
  <2>1. CASE <<i, j>> = new
    <3>1. Read(i, j)' = docs /\ j = img
      BY <1>2, <2>1 DEF Read, Settled
    <3> QED
      BY <3>1
  <2>2. CASE <<i, j>> # new
    BY <1>2, <2>2 DEF Read, Settled
  <2> QED
    BY <2>1, <2>2
<1>5. Reads
  BY <1>3, <1>4 DEF Reads
<1>6. GoesOn /\ TagsSet /\ Succeeds
  BY SpecsWait
<1> QED
  BY <1>5, <1>6, NothingMoves DEF Effects, run

LEMMA StepEffects ==
  ASSUME IInv, OneName, TInv, Steps,
         ~\E s \in batch : \E doc \in Read("src", s.src) : NilPlatform(s, doc)
  PROVE  Effects
<1>1. ASSUME NEW s \in batch, SpecSteps(s) PROVE Effects
  BY <1>1, SpecStepEffects
<1>2. ASSUME NEW k \in DOMAIN plat, PlatformSteps(k) PROVE Effects
  BY <1>2, PlatformStepEffects
<1>3. ASSUME NEW q \in requested, CacheSteps(q[1], q[2]) PROVE Effects
  <2>1. CASE GetManifest(q[1], q[2])
    <3>1. PICK doc \in Served(q[2]) : Verified(q[2], doc) /\ Answer(q[1], q[2], {doc})
      BY <2>1 DEF GetManifest
    <3>2. doc \in {d[2] : d \in Found(q[2])}
      BY <3>1, ServedIsFound DEF IInv, RequestsNamed
    <3> QED
      BY <2>1, <3>1, <3>2, AnswerEffects DEF GetManifest
  <2>2. CASE GetManifestFails(q[1], q[2])
    BY <2>2, AnswerEffects DEF GetManifestFails
  <2> QED
    BY <1>3, <2>1, <2>2 DEF CacheSteps
<1>4. ASSUME NEW b \in DOMAIN blobTask, BlobSteps(b) PROVE Effects
  <2>1. UNCHANGED <<run, place, caches, plat, stored, tags>>
    BY <1>4 DEF BlobSteps, BlobCopied, BlobFails
  <2>2. Moves
    BY <2>1 DEF Moves, TagOf
  <2>3. GoesOn /\ TagsSet /\ Succeeds
    BY <2>1, SpecsWait
  <2> QED
    BY <2>1, <2>2, <2>3, NothingRead DEF Effects, run, caches
<1> QED
  BY <1>1, <1>2, <1>3, <1>4 DEF Steps

\* The program forgets: the tags stay as they are.
LEMMA ForgottenTags ==
  ASSUME IInv, TInv, Forget
  PROVE  TInv'
<1>1. /\ UNCHANGED <<batch, registry>> /\ manifests' = <<>> /\ plat' = <<>>
      /\ place' = [s \in batch |-> "reading"]
  BY DEF Forget
<1>2. KeysOwned' /\ TagsCopied' /\ Mirrored'
  BY <1>1 DEF KeysOwned, TagsCopied, Mirrored
<1>3. \A c, img : Read(c, img)' = {}
  BY <1>1 DEF Read, Settled
<1>4. SourcesRead' /\ DestinationRead'
  BY <1>1, <1>3 DEF TInv, SourcesRead, DestinationRead, registry
<1>5. TagsMoveOnce'
  BY <1>1 DEF TInv, TagsMoveOnce, Satisfies, Original, Found, registry
<1> QED
  BY <1>2, <1>4, <1>5 DEF TInv

LEMMA InitiallyTInv == Init => TInv
<1> SUFFICES ASSUME Init PROVE TInv
  OBVIOUS
<1>1. KeysOwned /\ TagsCopied /\ Mirrored
  BY DEF Init, KeysOwned, TagsCopied, Mirrored
<1>2. \A c, img : Read(c, img) = {}
  BY DEF Init, Read, Settled
<1>3. SourcesRead /\ DestinationRead /\ TagsMoveOnce
  BY <1>2 DEF Init, SourcesRead, DestinationRead, TagsMoveOnce
<1> QED
  BY <1>1, <1>3 DEF TInv

LEMMA StepKeepsTInv ==
  ASSUME IInv, OneName, TInv, [Next]_vars
  PROVE  TInv'
<1>1. CASE Steps
  <2>1. ASSUME NEW s \in batch, NEW doc \in Read("src", s.src), NilPlatform(s, doc)
        PROVE  TInv'
    BY <2>1, ForgottenTags DEF NilPlatform
  <2> QED
    BY <1>1, <2>1, StepEffects, EffectsKeep
<1>2. CASE Kill
  BY <1>2, ForgottenTags DEF Kill
<1>3. CASE Rerun
  BY <1>3, ForgottenTags DEF Rerun
<1>4. CASE UNCHANGED vars
  <2>1. /\ UNCHANGED <<batch, place, manifests, plat, registry>>
    BY <1>4 DEF vars, run, caches
  <2>2. GoesOn /\ TagsSet /\ Succeeds
    BY <2>1, SpecsWait
  <2> QED
    BY <2>1, <2>2, NothingMoves, NothingRead, EffectsKeep DEF Effects
<1> QED
  BY <1>1, <1>2, <1>3, <1>4 DEF Next, Stopped

LEMMA AlwaysTInv == OneName => (Spec => [](IInv /\ TInv))
<1> SUFFICES ASSUME OneName PROVE Spec => [](IInv /\ TInv)
  OBVIOUS
<1>1. Init => IInv /\ TInv
  BY Initially, InitiallyTInv
<1>2. IInv /\ TInv /\ [Next]_vars => (IInv /\ TInv)'
  BY StepKeeps, StepKeepsTInv
<1> QED
  BY <1>1, <1>2, PTL DEF Spec

\* If every destination has one name: whatever fails, is killed and run again,
\* and whatever other specs share with it, the tag of a destination refers to
\* what it did at the start or to all that the spec asks for
\* (platforms.go:83-88, copier.go:177-202).
THEOREM TagMovesOnce == OneName => (Spec => []TagsMoveOnce)
<1> SUFFICES ASSUME OneName PROVE Spec => []TagsMoveOnce
  OBVIOUS
<1>1. IInv /\ TInv => TagsMoveOnce
  BY DEF TInv
<1> QED
  BY <1>1, AlwaysTInv, PTL

\* If every destination has one name: a spec whose copy has succeeded has, at
\* its destination, what it asks for, and it stays there (copier.go:92-135).
THEOREM SuccessMeansMirrored == OneName => (Spec => []Mirrored)
<1> SUFFICES ASSUME OneName PROVE Spec => []Mirrored
  OBVIOUS
<1>1. IInv /\ TInv => Mirrored
  BY DEF TInv
<1> QED
  BY <1>1, AlwaysTInv, PTL

-----------------------------------------------------------------------------
(***************************************************************************)
(* A run without faults.                                                   *)
(***************************************************************************)
\* What a step may add: requests of sources that are there, documents with
\* lists of parts, and without a fault no failure but those that must be.
Asks == \A q \in requested' : q \in requested \/ q[1] # "src" \/ HasSource(q)

Lists ==
  \A r \in Repo : \A d \in stored'[r] : d \in stored[r] \/ IsFunction(d[2].parts)

ReadsClean ==
  \A q \in DOMAIN manifests' :
    \/ q \in DOMAIN manifests /\ manifests'[q] = manifests[q]
    \/ q[1] # "src"
    \/ manifests'[q] # {}

BlobsClean ==
  \A b \in DOMAIN blobTask' : blobTask'[b] = "failed" =>
    b \in DOMAIN blobTask /\ blobTask[b] = "failed"

KeysClean ==
  \A k \in DOMAIN plat' : plat'[k] = "failed" =>
    \/ k \in DOMAIN plat /\ plat[k] = "failed"
    \/ \E doc \in Read("src", k.src) : doc.kind # "manifest"

SpecsClean ==
  \A s \in batch : place'[s] = "failed" => place[s] = "failed" \/ Unfit(s)

Clean ==
  /\ Asks /\ Lists
  /\ ~faulty' => ~faulty /\ ReadsClean /\ BlobsClean /\ KeysClean /\ SpecsClean

\* The source of a spec is the same document for ever.
LEMMA SameOriginal ==
  ASSUME IInv, NEW s \in batch, Moves, Found(s.src) # {}
  PROVE  Original(s)' = Original(s) /\ Found(s.src)' # {}
<1>1. IsImage(s.src)
  BY BatchOfImages
<1>2. CASE s.src.digest # NoDigest
  <2>1. Found(s.src) = {s.src.digest} /\ Found(s.src)' = {s.src.digest}
    BY <1>1, <1>2 DEF Found, Moves, IsImage
  <2> QED
    BY <2>1 DEF Original
<1>3. CASE s.src.digest = NoDigest
  <2>1. Found(s.src)' = Found(s.src)
    BY <1>1, <1>3 DEF Found, Moves, IsImage
  <2> QED
    BY <2>1 DEF Original
<1> QED
  BY <1>2, <1>3

LEMMA CleanKeeps ==
  ASSUME IInv, CInv, IInv', Effects, Clean
  PROVE  CInv'
<1>1. PartsListed'
  BY DEF CInv, PartsListed, Clean, Lists
<1>2. SourcesFound'
  BY SameOriginal DEF CInv, SourcesFound, Effects
<1>3. SourcesAsked'
  <2>1. SUFFICES ASSUME NEW q \in requested', q[1] = "src" PROVE HasSource(q)'
    BY DEF SourcesAsked
  <2>2. HasSource(q)
    BY <2>1 DEF CInv, SourcesAsked, Clean, Asks
  <2>3. q[2].repo \in Repo
    BY DEF IInv, RequestsNamed, IsImage
  <2> QED
    BY <2>2, <2>3 DEF HasSource, Effects, Moves
<1>4. ASSUME ~faulty'
      PROVE  ~faulty /\ ReadsClean /\ BlobsClean /\ KeysClean /\ SpecsClean
  BY <1>4 DEF Clean
<1>5. CleanReads'
  BY <1>4 DEF CInv, CleanReads, ReadsClean
<1>6. CleanBlobs'
  BY <1>4 DEF CInv, CleanBlobs, BlobsClean
<1>7. CleanKeys'
  BY <1>4 DEF CInv, CleanKeys, KeysClean, Effects, Reads
<1>8. CleanRunSucceeds'
  <2>1. SUFFICES ASSUME ~faulty', NEW s \in batch, place'[s] = "failed" PROVE Unfit(s)'
    BY DEF CleanRunSucceeds, Effects
  <2>2. Unfit(s)
    BY <1>4, <2>1 DEF CInv, CleanRunSucceeds, SpecsClean
  <2>3. Original(s)' = Original(s)
    BY SameOriginal DEF CInv, SourcesFound, Effects
  <2> QED
    BY <2>2, <2>3 DEF Unfit
<1> QED
  BY <1>1, <1>2, <1>3, <1>5, <1>6, <1>7, <1>8 DEF CInv

\* Without a fault, what was asked of the sources was read.
LEMMA SourceIsRead ==
  ASSUME CInv, ~faulty, NEW img, Settled("src", img)
  PROVE  Read("src", img) # {}
<1>1. PICK q : q = <<"src", img>>
  OBVIOUS
<1>2. q \in DOMAIN manifests /\ q[1] = "src" /\ Read("src", img) = manifests[q]
  BY <1>1 DEF Settled, Read
<1> QED
  BY <1>2 DEF CInv, CleanReads

LEMMA UnfitByOriginal ==
  ASSUME NEW s, NEW doc \in Original(s),
         \/ DOMAIN Copies(s, doc) = {}
         \/ doc.kind = "index" /\ \E e \in Range(Selected(s, doc)) :
              \/ e.digest[2].kind # "manifest"
              \/ e.digest # Canonical(e.digest[2]) /\ s.dst.digest # NoDigest
  PROVE  Unfit(s)
<1>1. Original(s) = {doc}
  BY OneOriginal
<1> QED
  BY <1>1 DEF Unfit

\* A manifest that fails was none, which makes its index unfit.
LEMMA PlatformsUnfit ==
  ASSUME IInv, TInv, CInv, ~faulty, NEW s \in batch, NEW doc, PlatformsFail(s, doc)
  PROVE  Unfit(s)
<1>1. place[s] = "copying" /\ doc \in Read("src", s.src)
  BY DEF PlatformsFail
<1>2. PICK i \in DOMAIN Copies(s, doc) : plat[Copies(s, doc)[i]] = "failed"
  BY DEF PlatformsFail, CollectFails, PlatformsOf
<1>3. PICK k : k = Copies(s, doc)[i]
  OBVIOUS
<1>4. k \in DOMAIN plat /\ plat[k] = "failed" /\ doc.kind \in {"manifest", "index"}
  BY <1>1, <1>2, <1>3, CopyingAsked
<1>5. PICK found \in Read("src", k.src) : found.kind # "manifest"
  BY <1>4 DEF CInv, CleanKeys
<1>6. doc \in Original(s) /\ Read("src", s.src) = {doc}
  BY <1>1, ReadIsHeld DEF TInv, SourcesRead
<1>7. doc.kind = "index"
  <2>1. SUFFICES ASSUME doc.kind = "manifest" PROVE FALSE
    BY <1>4
  <2>2. DOMAIN Copies(s, doc) = {1} /\ Copies(s, doc)[1] = [src |-> s.src, dst |-> s.dst]
    BY <2>1, ManifestCopies
  <2>3. i = 1
    BY <2>2
  <2>4. k.src = s.src
    BY <1>3, <2>2, <2>3
  <2> QED
    BY <1>5, <1>6, <2>1, <2>4
<1>8. /\ i \in DOMAIN Selected(s, doc)
      /\ k.src = ByDigest(s.src.repo, Selected(s, doc)[i].digest)
  BY <1>3, <1>7 DEF Copies
<1>9. Selected(s, doc)[i].digest # NoDigest
  BY <1>1, <1>7, <1>8, ReadIsHeld, SelectedDigests
<1>10. found = Selected(s, doc)[i].digest[2]
  BY <1>5, <1>8, <1>9, ReadByDigest
<1>11. Selected(s, doc)[i] \in Range(Selected(s, doc))
  BY <1>8 DEF Range
<1> QED
  BY <1>5, <1>6, <1>7, <1>10, <1>11, UnfitByOriginal

\* An index that is refused had to be encoded anew, against its explicit digest.
LEMMA RefusedIsUnfit ==
  ASSUME IInv, TInv, CInv, NEW s \in batch, NEW doc, AllCopied(s, doc),
         ~OnlyOne(Copies(s, doc)), Refused(s.dst, DstIndex(s, doc))
  PROVE  Unfit(s)
<1>1. /\ place[s] = "copying" /\ doc \in Read("src", s.src)
      /\ \A i \in DOMAIN Copies(s, doc) : plat[Copies(s, doc)[i]] = "copied"
  BY DEF AllCopied, Collects, PlatformsOf
<1>2. doc.kind = "index" /\ doc \in Original(s) /\ Holds(s.src, doc) /\ Verified(s.src, doc)
  BY <1>1, CopyingAsked, ReadIsHeld DEF TInv, SourcesRead
<1>3. s.dst.digest # NoDigest /\ s.dst.digest[2] # DstIndex(s, doc)
  BY CanonicalDigest DEF Refused, Reference
<1>4. s.limit = {} /\ s.dst.digest = s.src.digest
  BY <1>3, BatchAccepted DEF Accepted
<1>5. DstIndex(s, doc) # doc
  BY <1>2, <1>3, <1>4 DEF Verified
<1>6. IsFunction(doc.parts)
  <2>1. s.src.repo \in Repo
    BY BatchOfImages DEF IsImage
  <2> QED
    BY <1>2, <2>1 DEF Holds, CInv, PartsListed
<1>7. Selected(s, doc) = doc.parts
  BY <1>4 DEF Selected
<1>8. ASSUME \A e \in Range(doc.parts) : e.digest = Canonical(e.digest[2])
      PROVE  DstIndex(s, doc) = doc
  <2> DEFINE new == [i \in DOMAIN doc.parts |->
                      NewDescriptor(s, doc.parts[i], Copied(Copies(s, doc)[i]))]
  <2>1. DOMAIN Copies(s, doc) = DOMAIN doc.parts
    BY <1>2, <1>7 DEF Copies
  <2>2. ASSUME NEW i \in DOMAIN doc.parts
        PROVE  NewDescriptor(s, doc.parts[i], Copied(Copies(s, doc)[i])) = doc.parts[i]
    <3>1. Copied(Copies(s, doc)[i]) = doc.parts[i].digest[2]
      BY <1>1, <1>2, <1>7, <2>1, CopyingAsked, CopiedIsSelected
    <3>2. doc.parts[i].digest = Canonical(doc.parts[i].digest[2])
      BY <1>8 DEF Range
    <3> QED
      BY <3>1, <3>2 DEF NewDescriptor
  <2>3. new = doc.parts
    BY <1>6, <2>2 DEF IsFunction
  <2> QED
    BY <1>4, <1>7, <2>3 DEF DstIndex
<1>9. PICK e \in Range(Selected(s, doc)) : e.digest # Canonical(e.digest[2])
  BY <1>5, <1>7, <1>8
<1> QED
  BY <1>2, <1>3, <1>9, UnfitByOriginal

\* What stays as it is, is clean.
LEMMA NothingFails ==
  /\ UNCHANGED requested => Asks
  /\ UNCHANGED stored => Lists
  /\ UNCHANGED manifests => ReadsClean
  /\ UNCHANGED blobTask => BlobsClean
  /\ UNCHANGED plat => KeysClean
  /\ UNCHANGED place => SpecsClean
BY DEF Asks, Lists, ReadsClean, BlobsClean, KeysClean, SpecsClean

\* The indexer does not ask for sources.
LEMMA EntriesAsk ==
  ASSUME NEW r, NEW docs, NEW q \in IndexEntries(r, docs)
  PROVE  q[1] = "index"
BY DEF IndexEntries

\* The manifests that a spec asks for are in the repository of its source.
LEMMA KeyHasSource ==
  ASSUME IInv, NEW s \in batch, NEW doc \in Read("src", s.src),
         NEW k \in Range(Copies(s, doc))
  PROVE  HasSource(<<"src", k.src>>)
<1>1. PICK i \in DOMAIN Copies(s, doc) : k = Copies(s, doc)[i]
  BY DEF Range
<1>2. CASE doc.kind = "manifest"
  <2>1. /\ DOMAIN Copies(s, doc) = {1}
        /\ Copies(s, doc)[1] = [src |-> s.src, dst |-> s.dst]
    BY <1>2, ManifestCopies
  <2>2. i = 1
    BY <2>1
  <2>3. k.src = s.src
    BY <1>1, <2>1, <2>2
  <2> QED
    BY <2>3 DEF HasSource
<1>3. CASE doc.kind = "index"
  <2>1. /\ i \in DOMAIN Selected(s, doc)
        /\ k.src = ByDigest(s.src.repo, Selected(s, doc)[i].digest)
    BY <1>1, <1>3 DEF Copies
  <2>2. /\ Selected(s, doc)[i].digest \in stored[s.src.repo]
        /\ Selected(s, doc)[i].digest # NoDigest
    BY <1>3, <2>1, ReadIsHeld, SelectedDigests
  <2>3. k.src.repo = s.src.repo /\ k.src.digest = Selected(s, doc)[i].digest
    <3>1. \A r, d : ByDigest(r, d).repo = r /\ ByDigest(r, d).digest = d
      BY DEF ByDigest
    <3> QED
      BY <2>1, <3>1
  <2> QED
    BY <2>2, <2>3 DEF HasSource
<1> QED
  BY <1>1, <1>2, <1>3, NoCopies

\* A document with a list of parts is uploaded.
LEMMA UploadLists ==
  ASSUME IInv, NEW img, img.repo \in Repo, NEW doc, IsFunction(doc.parts),
         ~Refused(img, doc), Upload(img, doc)
  PROVE  Lists
<1> DEFINE d == IF img.tag # "" THEN Canonical(doc) ELSE Reference(img, doc)
<1>1. d[2] = doc
  BY CanonicalDigest DEF Refused
<1> HIDE DEF d
<1>2. stored' = [stored EXCEPT ![img.repo] = @ \cup {d}]
  BY DEF Upload, d
<1>3. \A r \in Repo : stored'[r] \subseteq stored[r] \cup {d}
  BY <1>2 DEF IInv, TypeOK
<1> QED
  BY <1>1, <1>3 DEF Lists

LEMMA HeldIsListed ==
  ASSUME CInv, NEW img, img.repo \in Repo, NEW doc, Holds(img, doc)
  PROVE  IsFunction(doc.parts)
BY DEF CInv, PartsListed, Holds

\* The parts of the new index are a list, too.
LEMMA IndexIsListed ==
  ASSUME CInv, IInv, NEW s \in batch, NEW doc \in Read("src", s.src), doc.kind = "index"
  PROVE  IsFunction(DstIndex(s, doc).parts)
<1> DEFINE new == [i \in DOMAIN Selected(s, doc) |->
                    NewDescriptor(s, Selected(s, doc)[i], Copied(Copies(s, doc)[i]))]
<1>1. IsFunction(doc.parts)
  BY ReadIsHeld, HeldIsListed
<1>2. IsFunction(new)
  BY DEF IsFunction
<1>3. DstIndex(s, doc).parts = doc.parts \/ DstIndex(s, doc).parts = new
  BY DEF DstIndex
<1> QED
  BY <1>1, <1>2, <1>3

\* A spec that fails without a fault is unfit.
LEMMA SpecFails ==
  ASSUME IInv, NEW s \in batch, NEW p, Goto(s, p), p = "failed" => Unfit(s)
  PROVE  SpecsClean
BY DEF IInv, TypeOK, Goto, SpecsClean

LEMMA CopyImageClean ==
  ASSUME IInv, TInv, NEW s \in batch, NEW doc, CopyImage(s, doc)
  PROVE  Clean
<1> DEFINE keys == Range(Copies(s, doc))
           old  == Read("dst", s.dst)
<1>1. /\ doc \in Read("src", s.src)
      /\ plat' = Inform(plat, keys, "reading")
      /\ requested' = requested \cup IndexEntries(s.dst.repo, old)
                        \cup {<<"src", k.src>> : k \in keys}
      /\ Goto(s, IF keys = {} THEN "failed" ELSE "copying")
      /\ UNCHANGED <<run, faulty, manifests, blobTask, registry>>
  BY DEF CopyImage, Compares
<1>2. \A k \in keys : HasSource(<<"src", k.src>>)
  BY <1>1, KeyHasSource
<1>3. keys = {} => Unfit(s)
  <2>1. SUFFICES ASSUME keys = {} PROVE Unfit(s)
    OBVIOUS
  <2>2. DOMAIN Copies(s, doc) = {}
    BY <2>1 DEF Range
  <2>3. doc \in Original(s)
    BY <1>1 DEF TInv, SourcesRead
  <2> QED
    BY <2>2, <2>3, UnfitByOriginal
<1> HIDE DEF keys, old
<1>4. Asks
  BY <1>1, <1>2, EntriesAsk DEF Asks
<1>5. KeysClean
  BY <1>1 DEF Inform, KeysClean
<1>6. SpecsClean
  BY <1>1, <1>3, SpecFails
<1>7. Lists /\ ReadsClean /\ BlobsClean
  BY <1>1, NothingFails DEF registry
<1> QED
  BY <1>1, <1>4, <1>5, <1>6, <1>7 DEF Clean

LEMMA IndexUploadClean ==
  ASSUME IInv, TInv, CInv, NEW s \in batch, NEW doc, AllCopied(s, doc),
         ~OnlyOne(Copies(s, doc)),
         \/ UNCHANGED registry
         \/ ~Refused(s.dst, DstIndex(s, doc)) /\ Upload(s.dst, DstIndex(s, doc)),
         NEW p \in {"done", "failed"}, Goto(s, p),
         UNCHANGED <<run, caches, plat, blobTask, sources>>,
         faulty' = (faulty \/ (p = "failed" /\ ~Refused(s.dst, DstIndex(s, doc))))
  PROVE  Clean
<1>1. doc \in Read("src", s.src) /\ doc.kind = "index"
  BY CopyingAsked DEF AllCopied
<1>2. Lists
  <2>1. IsFunction(DstIndex(s, doc).parts)
    BY <1>1, IndexIsListed
  <2>2. s.dst.repo \in Repo
    BY BatchOfImages DEF IsImage
  <2> QED
    BY <2>1, <2>2, UploadLists, NothingFails DEF registry
<1>3. ~faulty' => ~faulty /\ SpecsClean
  BY RefusedIsUnfit, SpecFails
<1>4. Asks /\ ReadsClean /\ BlobsClean /\ KeysClean
  BY NothingFails DEF caches
<1> QED
  BY <1>2, <1>3, <1>4 DEF Clean

LEMMA SpecStepClean ==
  ASSUME IInv, TInv, CInv, NEW s \in batch, SpecSteps(s),
         ~\E doc \in Read("src", s.src) : NilPlatform(s, doc)
  PROVE  Clean
<1>1. CASE SourceFails(s)
  <2>1. UNCHANGED <<run, faulty, caches, plat, blobTask, sources, registry>>
    BY <1>1 DEF SourceFails
  <2>2. faulty
    BY <1>1, SourceIsRead DEF SourceFails, Failed
  <2> QED
    BY <2>1, <2>2, NothingFails DEF Clean, caches, registry
<1>2. ASSUME NEW doc \in Read("src", s.src),
             \/ NoChange(s, doc) \/ CopyImage(s, doc)
             \/ PlatformsFail(s, doc) \/ OneCopied(s, doc)
             \/ UploadIndex(s, doc) \/ UploadIndexFails(s, doc)
      PROVE  Clean
  <2>1. CASE NoChange(s, doc)
    <3>1. UNCHANGED <<run, faulty, manifests, plat, blobTask, registry>> /\ Goto(s, "done")
          /\ requested' = requested \cup IndexEntries(s.dst.repo, Read("dst", s.dst))
      BY <2>1 DEF NoChange, Submit
    <3>2. Asks
      BY <3>1, EntriesAsk DEF Asks
    <3>3. SpecsClean
      BY <3>1, SpecFails
    <3> QED
      BY <3>1, <3>2, <3>3, NothingFails DEF Clean, registry
  <2>2. CASE CopyImage(s, doc)
    BY <2>2, CopyImageClean
  <2>3. CASE PlatformsFail(s, doc)
    <3>1. UNCHANGED <<run, faulty, caches, plat, blobTask, sources, registry>>
          /\ Goto(s, "failed")
      BY <2>3 DEF PlatformsFail
    <3>2. ~faulty => SpecsClean
      BY <2>3, <3>1, PlatformsUnfit, SpecFails
    <3> QED
      BY <3>1, <3>2, NothingFails DEF Clean, caches, registry
  <2>4. CASE OneCopied(s, doc)
    <3>1. UNCHANGED <<run, faulty, caches, plat, blobTask, sources, registry>>
          /\ Goto(s, "done")
      BY <2>4 DEF OneCopied
    <3>2. SpecsClean
      BY <3>1, SpecFails
    <3> QED
      BY <3>1, <3>2, NothingFails DEF Clean, caches, registry
  <2>5. CASE UploadIndex(s, doc)
    BY <2>5, IndexUploadClean DEF UploadIndex, IInv, TypeOK
  <2>6. CASE UploadIndexFails(s, doc)
    BY <2>6, IndexUploadClean DEF UploadIndexFails
  <2> QED
    BY <1>2, <2>1, <2>2, <2>3, <2>4, <2>5, <2>6
<1> QED
  BY <1>1, <1>2 DEF SpecSteps

\* The manifest of a key is uploaded, unless the request fails: it is what its
\* digest says.
LEMMA ManifestUploadClean ==
  ASSUME IInv, CInv, NEW k \in DOMAIN plat, BlobsCopied(k),
         \/ UNCHANGED registry
         \/ ~Refused(DstImage(k), Copied(k)) /\ Upload(DstImage(k), Copied(k)),
         NEW p \in {"copied", "failed"}, GotoPlatform(k, p),
         UNCHANGED <<run, place, caches, blobTask, sources>>,
         faulty' = (faulty \/ (p = "failed" /\ ~Refused(DstImage(k), Copied(k))))
  PROVE  Clean
<1>1. ~Refused(DstImage(k), Copied(k))
  BY CanonicalDigest DEF Refused, Reference, DstImage
<1>2. Lists
  <2>1. IsFunction(Copied(k).parts)
    BY CopiedIsRead, ReadIsHeld, HeldIsListed DEF BlobsCopied
  <2>2. DstImage(k).repo \in Repo
    BY DEF DstImage, IInv, KeysNamed, IsImage
  <2> QED
    BY <2>1, <2>2, UploadLists, NothingFails DEF registry
<1>3. p = "copied" => KeysClean
  BY DEF GotoPlatform, KeysClean
<1>4. Asks /\ ReadsClean /\ BlobsClean /\ SpecsClean
  BY NothingFails DEF caches
<1> QED
  BY <1>1, <1>2, <1>3, <1>4 DEF Clean

LEMMA PlatformStepClean ==
  ASSUME IInv, CInv, NEW k \in DOMAIN plat, PlatformSteps(k)
  PROVE  Clean
<1>1. CASE NoManifest(k)
  <2>1. GotoPlatform(k, "failed")
        /\ UNCHANGED <<run, faulty, place, caches, blobTask, sources, registry>>
    BY <1>1 DEF NoManifest
  <2>2. ~faulty => \E doc \in Read("src", k.src) : doc.kind # "manifest"
    BY <1>1, SourceIsRead DEF NoManifest
  <2>3. ~faulty => KeysClean
    BY <2>1, <2>2 DEF GotoPlatform, KeysClean
  <2> QED
    BY <2>1, <2>3, NothingFails DEF Clean, caches, registry
<1>2. CASE CopyBlobs(k)
  <2>1. GotoPlatform(k, "copying")
        /\ UNCHANGED <<run, faulty, place, caches, registry>>
        /\ \E doc : blobTask' = Inform(blobTask, BlobKeys(k, doc), "asked")
    BY <1>2 DEF CopyBlobs
  <2>2. BlobsClean
    BY <2>1 DEF Inform, BlobsClean
  <2>3. KeysClean
    BY <2>1 DEF GotoPlatform, KeysClean
  <2> QED
    BY <2>1, <2>2, <2>3, NothingFails DEF Clean, caches, registry
<1>3. CASE BlobsFail(k)
  <2>1. GotoPlatform(k, "failed") /\ plat[k] = "copying"
        /\ UNCHANGED <<run, faulty, place, caches, blobTask, sources, registry>>
    BY <1>3 DEF BlobsFail
  <2>2. PICK i \in DOMAIN Copied(k).parts :
          blobTask[<<Copied(k).parts[i], k.dst.repo>>] = "failed"
    BY <1>3 DEF BlobsFail, CollectFails, BlobsOf
  <2>3. <<Copied(k).parts[i], k.dst.repo>> \in DOMAIN blobTask
    <3>1. <<Copied(k).parts[i], k.dst.repo>> \in BlobKeys(k, Copied(k))
      BY DEF BlobKeys, Range
    <3> QED
      BY <2>1, <3>1, CopiedIsRead
  <2>4. faulty
    BY <2>2, <2>3 DEF CInv, CleanBlobs
  <2> QED
    BY <2>1, <2>4, NothingFails DEF Clean, caches, registry
<1>4. CASE UploadPlatform(k)
  BY <1>4, ManifestUploadClean DEF UploadPlatform, IInv, TypeOK
<1>5. CASE UploadPlatformFails(k)
  BY <1>5, ManifestUploadClean DEF UploadPlatformFails
<1> QED
  BY <1>1, <1>2, <1>3, <1>4, <1>5 DEF PlatformSteps

\* A source that was asked for is there, and is only missed by a fault.
LEMMA AnswerClean ==
  ASSUME IInv, CInv, NEW q \in requested, CacheSteps(q[1], q[2])
  PROVE  Clean
<1>1. q = <<q[1], q[2]>>
  BY DEF IInv, RequestsNamed
<1>2. CASE GetManifest(q[1], q[2])
  <2>1. PICK doc : /\ Answer(q[1], q[2], {doc})
                   /\ IF q[1] = "index" THEN Submit(q[2].repo, {doc})
                                        ELSE UNCHANGED <<requested, sources>>
    BY <1>2 DEF GetManifest
  <2>2. UNCHANGED <<run, faulty, place, plat, blobTask, registry>>
    BY <1>2 DEF GetManifest
  <2>3. Asks
    BY <2>1, EntriesAsk DEF Asks, Submit
  <2>4. ReadsClean
    BY <2>1 DEF Answer, ReadsClean
  <2> QED
    BY <2>2, <2>3, <2>4, NothingFails DEF Clean, registry
<1>3. CASE GetManifestFails(q[1], q[2])
  <2>1. /\ Answer(q[1], q[2], {})
        /\ faulty' = (faulty \/ Found(q[2]) # {})
        /\ UNCHANGED <<run, place, requested, plat, blobTask, sources, registry>>
    BY <1>3 DEF GetManifestFails
  <2>2. q[1] = "src" => Found(q[2]) # {}
    BY DEF CInv, SourcesAsked, SourcesFound, HasSource, Found
  <2>3. q[1] # "src" => ReadsClean
    BY <1>1, <2>1 DEF Answer, ReadsClean
  <2> QED
    BY <2>1, <2>2, <2>3, NothingFails DEF Clean, registry
<1> QED
  BY <1>2, <1>3 DEF CacheSteps

LEMMA BlobStepClean ==
  ASSUME NEW b \in DOMAIN blobTask, BlobSteps(b)
  PROVE  Clean
<1>1. UNCHANGED <<run, place, caches, plat, stored, tags>>
  BY DEF BlobSteps, BlobCopied, BlobFails
<1>2. ~faulty' => ~faulty /\ BlobsClean
  BY DEF BlobSteps, BlobCopied, BlobFails, BlobsClean
<1> QED
  BY <1>1, <1>2, NothingFails DEF Clean, caches

\* A new run has not failed yet.
LEMMA ForgottenFaults ==
  ASSUME IInv, CInv, Forget
  PROVE  CInv'
<1>1. /\ UNCHANGED <<batch, registry>> /\ manifests' = <<>> /\ plat' = <<>>
      /\ blobTask' = <<>> /\ requested' = Asked(batch)
      /\ place' = [s \in batch |-> "reading"]
  BY DEF Forget
<1>2. PartsListed' /\ SourcesFound'
  BY <1>1 DEF CInv, PartsListed, SourcesFound, Found, registry
<1>3. SourcesAsked'
  BY <1>1 DEF SourcesAsked, Asked, HasSource
<1>4. CleanReads' /\ CleanBlobs' /\ CleanKeys' /\ CleanRunSucceeds'
  BY <1>1 DEF CleanReads, CleanBlobs, CleanKeys, CleanRunSucceeds
<1> QED
  BY <1>2, <1>3, <1>4 DEF CInv

LEMMA HostedListed ==
  \A r \in Repo : \A d \in Hosted[r] : IsFunction(d[2].parts)
<1>1. \A r \in Repo : \A d \in Hosted[r] : IsList(d[2].parts)
  BY MirrorAssumption
<1>2. ASSUME NEW list, IsList(list) PROVE IsFunction(list)
  BY <1>2 DEF IsList, IsFunction
<1> QED
  BY <1>1, <1>2

LEMMA InitiallyCInv == SourcesExist /\ Init => CInv
<1> SUFFICES ASSUME SourcesExist, Init PROVE CInv
  OBVIOUS
<1>1. PartsListed
  BY HostedListed DEF Init, PartsListed
<1>2. SourcesFound
  BY DEF Init, SourcesExist, SourcesFound, Found
<1>3. SourcesAsked
  BY DEF Init, SourcesAsked, Asked, HasSource
<1>4. CleanReads /\ CleanBlobs /\ CleanKeys /\ CleanRunSucceeds
  BY DEF Init, CleanReads, CleanBlobs, CleanKeys, CleanRunSucceeds
<1> QED
  BY <1>1, <1>2, <1>3, <1>4 DEF CInv

LEMMA StepKeepsCInv ==
  ASSUME IInv, OneName, TInv, CInv, [Next]_vars
  PROVE  CInv'
<1>1. CASE Steps
  <2>1. ASSUME NEW s \in batch, NEW doc \in Read("src", s.src), NilPlatform(s, doc)
        PROVE  CInv'
    BY <2>1, ForgottenFaults DEF NilPlatform
  <2>2. ASSUME ~\E s \in batch : \E doc \in Read("src", s.src) : NilPlatform(s, doc)
        PROVE  Clean
    BY <1>1, <2>2, SpecStepClean, PlatformStepClean, AnswerClean, BlobStepClean DEF Steps
  <2> QED
    BY <1>1, <2>1, <2>2, StepKeeps, StepEffects, CleanKeeps
<1>2. CASE Kill
  BY <1>2, ForgottenFaults DEF Kill
<1>3. CASE Rerun
  BY <1>3, ForgottenFaults DEF Rerun
<1>4. CASE UNCHANGED vars
  <2>1. UNCHANGED <<batch, faulty, place, requested, manifests, plat, blobTask, registry>>
    BY <1>4 DEF vars, run, caches
  <2>2. GoesOn /\ TagsSet /\ Succeeds
    BY <2>1, SpecsWait
  <2>3. Effects
    BY <2>1, <2>2, NothingMoves, NothingRead DEF Effects
  <2>4. Clean
    BY <2>1, NothingFails DEF Clean, registry
  <2> QED
    BY <2>3, <2>4, StepKeeps, CleanKeeps
<1> QED
  BY <1>1, <1>2, <1>3, <1>4 DEF Next, Stopped

\* If every destination has one name and every source is there: a run in which
\* no request fails copies every image that can be copied, whatever earlier runs
\* left behind when they failed or were killed (copier.go:92-135).
THEOREM CleanRunCopies ==
  OneName /\ SourcesExist => (Spec => []CleanRunSucceeds)
<1> SUFFICES ASSUME OneName, SourcesExist PROVE Spec => []CleanRunSucceeds
  OBVIOUS
<1>1. Init => IInv /\ TInv /\ CInv
  BY Initially, InitiallyTInv, InitiallyCInv
<1>2. IInv /\ TInv /\ CInv /\ [Next]_vars => (IInv /\ TInv /\ CInv)'
  BY StepKeeps, StepKeepsTInv, StepKeepsCInv
<1>3. IInv /\ TInv /\ CInv => CleanRunSucceeds
  BY DEF CInv
<1> QED
  BY <1>1, <1>2, <1>3, PTL DEF Spec

-----------------------------------------------------------------------------
(***************************************************************************)
(* The fourth inductive invariant: whoever waits, waits for a key that has *)
(* been asked for.                                                         *)
(***************************************************************************)
\* The parts of a document have an order, in which their results are collected.
Numbered(doc) == DOMAIN doc.parts \subseteq Nat

PartsNumbered == \A r \in Repo : \A d \in stored[r] : Numbered(d[2])

SpecsAsk == Asked(batch) \subseteq requested

KeysAsk == \A k \in DOMAIN plat : <<"src", k.src>> \in requested

WInv ==
  /\ PartsNumbered
  /\ SpecsAsk
  /\ KeysAsk

\* Where the process can go on: a cache has to answer, a blob has to be copied,
\* or somebody has all the results up to the one that decides.
AnswerDue == \E q \in requested : Pending(q[1], q[2])

BlobDue == \E b \in DOMAIN blobTask : blobTask[b] = "asked"

PlatformDue ==
  \E k \in DOMAIN plat :
    \/ plat[k] = "reading" /\ Settled("src", k.src)
    \/ plat[k] = "copying" /\ CollectFails(BlobsOf(k))
    \/ BlobsCopied(k)

SpecDue ==
  \E s \in batch :
    \/ place[s] = "reading" /\ Settled("src", s.src) /\ Settled("dst", s.dst)
    \/ \E doc \in Read("src", s.src) :
         \/ place[s] = "copying" /\ CollectFails(PlatformsOf(s, doc))
         \/ AllCopied(s, doc)

NobodyWaitsInVain ==
  process = "running" /\ ~Ended =>
    AnswerDue \/ BlobDue \/ PlatformDue \/ SpecDue

\* Who collects results that are all there gets them, or the first error.
LEMMA EitherCollects ==
  ASSUME NEW results, DOMAIN results \subseteq Nat,
         \A i \in DOMAIN results : results[i] \in {"copied", "failed"}
  PROVE  Collects(results) \/ CollectFails(results)
<1> DEFINE T == {i \in DOMAIN results : results[i] = "failed"}
<1>1. CASE T = {}
  BY <1>1 DEF Collects
<1>2. CASE T # {}
  <2>1. T \subseteq Nat
    OBVIOUS
  <2>2. PICK i \in T : \A j \in T : i <= j
    <3> HIDE DEF T
    <3> QED
      BY <1>2, <2>1, LeastNumber
  <2>3. ASSUME NEW j \in DOMAIN results, j < i PROVE results[j] = "copied"
    <3>1. j \in Nat /\ i \in Nat /\ ~(i <= j)
      BY <2>2, <2>3
    <3>2. j \notin T
      BY <2>2, <3>1
    <3> QED
      BY <3>2
  <2> QED
    BY <2>2, <2>3 DEF CollectFails
<1> QED
  BY <1>1, <1>2

LEMMA HeldIsNumbered ==
  ASSUME PartsNumbered, NEW img, img.repo \in Repo, NEW doc, Holds(img, doc)
  PROVE  Numbered(doc)
BY DEF PartsNumbered, Holds

\* What is uploaded is ordered as what it is made of.
LEMMA UploadNumbers ==
  ASSUME IInv, PartsNumbered, NEW img, img.repo \in Repo, NEW doc, Numbered(doc),
         ~Refused(img, doc), Upload(img, doc)
  PROVE  PartsNumbered'
<1> DEFINE d == IF img.tag # "" THEN Canonical(doc) ELSE Reference(img, doc)
<1>1. d[2] = doc
  BY CanonicalDigest DEF Refused
<1> HIDE DEF d
<1>2. stored' = [stored EXCEPT ![img.repo] = @ \cup {d}]
  BY DEF Upload, d
<1>3. \A r \in Repo : stored'[r] \subseteq stored[r] \cup {d}
  BY <1>2 DEF IInv, TypeOK
<1> QED
  BY <1>1, <1>3 DEF PartsNumbered

LEMMA SelectedNumbered ==
  ASSUME NEW s, NEW doc, Numbered(doc)
  PROVE  DOMAIN Selected(s, doc) \subseteq Nat
<1>1. CASE s.limit = {}
  BY <1>1 DEF Selected, Numbered
<1>2. CASE s.limit # {}
  <2> DEFINE S == {i \in DOMAIN doc.parts : doc.parts[i].platform \in s.limit}
  <2>1. S \subseteq Nat
    BY DEF Numbered
  <2>2. Selected(s, doc) = Restrict(doc.parts, S)
    BY <1>2 DEF Selected
  <2> HIDE DEF S
  <2> QED
    BY <2>1, <2>2 DEF Restrict
<1> QED
  BY <1>1, <1>2

LEMMA CopiesNumbered ==
  ASSUME NEW s, NEW doc, Numbered(doc)
  PROVE  DOMAIN Copies(s, doc) \subseteq Nat
<1>1. CASE doc.kind = "index"
  BY <1>1, SelectedNumbered DEF Copies
<1>2. CASE doc.kind = "manifest"
  <2>1. DOMAIN Copies(s, doc) = {1}
    BY <1>2, ManifestCopies
  <2> QED
    BY <2>1
<1>3. CASE doc.kind \notin {"manifest", "index"}
  <2>1. DOMAIN Copies(s, doc) = {}
    BY <1>3, NoCopies
  <2> QED
    BY <2>1
<1> QED
  BY <1>1, <1>2, <1>3

LEMMA IndexNumbered ==
  ASSUME NEW s, NEW doc, Numbered(doc)
  PROVE  Numbered(DstIndex(s, doc))
<1> DEFINE new == [i \in DOMAIN Selected(s, doc) |->
                    NewDescriptor(s, Selected(s, doc)[i], Copied(Copies(s, doc)[i]))]
<1>1. DstIndex(s, doc).parts = doc.parts \/ DstIndex(s, doc).parts = new
  BY DEF DstIndex
<1>2. DOMAIN new \subseteq Nat
  BY SelectedNumbered
<1> QED
  BY <1>1, <1>2 DEF Numbered

LEMMA NumbersStay == PartsNumbered /\ UNCHANGED stored => PartsNumbered'
  BY DEF PartsNumbered

\* Nothing is asked, and no key is new.
LEMMA NothingAsked ==
  ASSUME SpecsAsk, KeysAsk, UNCHANGED <<batch, requested>>, DOMAIN plat' = DOMAIN plat
  PROVE  SpecsAsk' /\ KeysAsk'
BY DEF SpecsAsk, KeysAsk, Asked

LEMMA SpecStepAsks ==
  ASSUME IInv, WInv, NEW s \in batch, SpecSteps(s),
         ~\E doc \in Read("src", s.src) : NilPlatform(s, doc)
  PROVE  WInv'
<1>1. CASE SourceFails(s)
  BY <1>1, NumbersStay, NothingAsked DEF SourceFails, WInv, run, caches, registry
<1>2. ASSUME NEW doc \in Read("src", s.src),
             \/ NoChange(s, doc) \/ CopyImage(s, doc)
             \/ PlatformsFail(s, doc) \/ OneCopied(s, doc)
             \/ UploadIndex(s, doc) \/ UploadIndexFails(s, doc)
      PROVE  WInv'
  <2>1. CASE NoChange(s, doc)
    <3>1. /\ UNCHANGED <<batch, plat, stored>>
          /\ requested \subseteq requested'
      BY <2>1 DEF NoChange, Submit, run, registry
    <3> QED
      BY <3>1, NumbersStay DEF WInv, SpecsAsk, KeysAsk, Asked
  <2>2. CASE CopyImage(s, doc)
    <3> DEFINE keys == Range(Copies(s, doc))
    <3>1. /\ UNCHANGED <<batch, stored>>
          /\ plat' = Inform(plat, keys, "reading")
          /\ requested \subseteq requested'
          /\ {<<"src", k.src>> : k \in keys} \subseteq requested'
      BY <2>2 DEF CopyImage, run, registry
    <3> HIDE DEF keys
    <3>2. DOMAIN plat' = keys \cup DOMAIN plat
      BY <3>1 DEF Inform
    <3>3. KeysAsk'
      BY <3>1, <3>2 DEF WInv, KeysAsk
    <3> QED
      BY <3>1, <3>3, NumbersStay DEF WInv, SpecsAsk, Asked
  <2>3. CASE PlatformsFail(s, doc)
    BY <2>3, NumbersStay, NothingAsked DEF PlatformsFail, WInv, run, caches, registry
  <2>4. CASE OneCopied(s, doc)
    BY <2>4, NumbersStay, NothingAsked DEF OneCopied, WInv, run, caches, registry
  <2>5. CASE UploadIndex(s, doc) \/ UploadIndexFails(s, doc)
    <3>1. /\ UNCHANGED <<batch, requested, plat>>
          /\ \/ UNCHANGED registry
             \/ ~Refused(s.dst, DstIndex(s, doc)) /\ Upload(s.dst, DstIndex(s, doc))
      BY <2>5 DEF UploadIndex, UploadIndexFails, run, caches
    <3>2. Numbered(DstIndex(s, doc))
      BY ReadIsHeld, HeldIsNumbered, IndexNumbered DEF WInv
    <3>3. s.dst.repo \in Repo
      BY BatchOfImages DEF IsImage
    <3>4. PartsNumbered'
      BY <3>1, <3>2, <3>3, UploadNumbers, NumbersStay DEF WInv, registry
    <3> QED
      BY <3>1, <3>4, NothingAsked DEF WInv
  <2> QED
    BY <1>2, <2>1, <2>2, <2>3, <2>4, <2>5
<1> QED
  BY <1>1, <1>2 DEF SpecSteps

LEMMA PlatformStepAsks ==
  ASSUME IInv, WInv, NEW k \in DOMAIN plat, PlatformSteps(k)
  PROVE  WInv'
<1>1. UNCHANGED <<batch, requested>> /\ DOMAIN plat' = DOMAIN plat
  BY DEF PlatformSteps, NoManifest, CopyBlobs, BlobsFail, UploadPlatform,
         UploadPlatformFails, GotoPlatform, run, caches
<1>2. CASE UNCHANGED stored
  BY <1>1, <1>2, NumbersStay, NothingAsked DEF WInv
<1>3. CASE UploadPlatform(k) \/ (UploadPlatformFails(k) /\ ~UNCHANGED stored)
  <2>1. /\ BlobsCopied(k)
        /\ ~Refused(DstImage(k), Copied(k)) /\ Upload(DstImage(k), Copied(k))
    BY <1>3 DEF UploadPlatform, UploadPlatformFails, registry
  <2>2. Numbered(Copied(k))
    BY <2>1, CopiedIsRead, ReadIsHeld, HeldIsNumbered DEF BlobsCopied, WInv
  <2>3. DstImage(k).repo \in Repo
    BY DEF DstImage, IInv, KeysNamed, IsImage
  <2>4. PartsNumbered'
    BY <2>1, <2>2, <2>3, UploadNumbers DEF WInv
  <2> QED
    BY <1>1, <2>4, NothingAsked DEF WInv
<1> QED
  BY <1>2, <1>3
     DEF PlatformSteps, NoManifest, CopyBlobs, BlobsFail, registry

LEMMA AnswerAsks ==
  ASSUME WInv, NEW c, NEW img, CacheSteps(c, img)
  PROVE  WInv'
<1>1. UNCHANGED <<batch, plat, stored>> /\ requested \subseteq requested'
  BY DEF CacheSteps, GetManifest, GetManifestFails, Submit, run, registry
<1> QED
  BY <1>1, NumbersStay DEF WInv, SpecsAsk, KeysAsk, Asked

LEMMA BlobStepAsks ==
  ASSUME WInv, NEW b, BlobSteps(b)
  PROVE  WInv'
BY NumbersStay, NothingAsked DEF BlobSteps, BlobCopied, BlobFails, WInv, run, caches

\* A new run begins with asking.
LEMMA ForgottenAsks ==
  ASSUME WInv, Forget
  PROVE  WInv'
<1>1. /\ UNCHANGED <<batch, stored>>
      /\ requested' = Asked(batch) /\ plat' = <<>>
  BY DEF Forget, registry
<1> QED
  BY <1>1, NumbersStay DEF WInv, SpecsAsk, KeysAsk, Asked

LEMMA InitiallyWInv == Init => WInv
<1> SUFFICES ASSUME Init PROVE WInv
  OBVIOUS
<1>1. ASSUME NEW list, IsList(list) PROVE DOMAIN list \subseteq Nat
  BY <1>1 DEF IsList
<1>2. \A r \in Repo : \A d \in Hosted[r] : IsList(d[2].parts)
  BY MirrorAssumption
<1>3. PartsNumbered
  BY <1>1, <1>2 DEF Init, PartsNumbered, Numbered
<1> QED
  BY <1>3 DEF Init, WInv, SpecsAsk, KeysAsk

LEMMA StepKeepsWInv ==
  ASSUME IInv, WInv, [Next]_vars
  PROVE  WInv'
<1>1. CASE Steps
  <2>1. ASSUME NEW s \in batch, SpecSteps(s) PROVE WInv'
    BY <2>1, SpecStepAsks, ForgottenAsks DEF NilPlatform
  <2> QED
    BY <1>1, <2>1, PlatformStepAsks, AnswerAsks, BlobStepAsks DEF Steps
<1>2. CASE Kill \/ Rerun
  BY <1>2, ForgottenAsks DEF Kill, Rerun
<1>3. CASE UNCHANGED vars
  BY <1>3, NumbersStay, NothingAsked DEF WInv, vars, run, caches, registry
<1> QED
  BY <1>1, <1>2, <1>3 DEF Next, Stopped

\* The results of the blobs of a key that is being copied are there, or come.
LEMMA BlobsDecide ==
  ASSUME IInv, WInv, NEW k \in DOMAIN plat, plat[k] = "copying", ~BlobDue
  PROVE  Collects(BlobsOf(k)) \/ CollectFails(BlobsOf(k))
<1>1. /\ Read("src", k.src) = {Copied(k)}
      /\ BlobKeys(k, Copied(k)) \subseteq DOMAIN blobTask
  BY CopiedIsRead
<1>2. Numbered(Copied(k))
  BY <1>1, ReadIsHeld, HeldIsNumbered DEF WInv
<1>3. DOMAIN BlobsOf(k) = DOMAIN Copied(k).parts
  BY DEF BlobsOf
<1>4. ASSUME NEW i \in DOMAIN BlobsOf(k)
      PROVE  BlobsOf(k)[i] \in {"copied", "failed"}
  <2> DEFINE b == <<Copied(k).parts[i], k.dst.repo>>
  <2>1. b \in DOMAIN blobTask
    BY <1>1, <1>3 DEF BlobKeys, Range
  <2>2. BlobsOf(k)[i] = blobTask[b]
    BY <1>3 DEF BlobsOf
  <2> HIDE DEF b
  <2>3. blobTask[b] \in {"asked", "copied", "failed"} /\ blobTask[b] # "asked"
    BY <2>1 DEF IInv, TypeOK, BlobDue, Range
  <2> QED
    BY <2>2, <2>3
<1> QED
  BY <1>2, <1>3, <1>4, EitherCollects DEF Numbered

\* So are the results of the keys of a spec that is being copied.
LEMMA PlatformsDecide ==
  ASSUME IInv, WInv, NEW s \in batch, place[s] = "copying",
         \A k \in DOMAIN plat : plat[k] \in {"copied", "failed"}
  PROVE  \E doc \in Read("src", s.src) :
           CollectFails(PlatformsOf(s, doc)) \/ AllCopied(s, doc)
<1>1. PICK doc \in Read("src", s.src) : Range(Copies(s, doc)) \subseteq DOMAIN plat
  BY DEF IInv, PlatformsAsked
<1>2. Numbered(doc)
  BY ReadIsHeld, HeldIsNumbered DEF WInv
<1>3. DOMAIN PlatformsOf(s, doc) = DOMAIN Copies(s, doc)
  BY DEF PlatformsOf
<1>4. \A i \in DOMAIN PlatformsOf(s, doc) :
        PlatformsOf(s, doc)[i] \in {"copied", "failed"}
  BY <1>1 DEF PlatformsOf, Range
<1>5. Collects(PlatformsOf(s, doc)) \/ CollectFails(PlatformsOf(s, doc))
  BY <1>2, <1>3, <1>4, CopiesNumbered, EitherCollects
<1> QED
  BY <1>5 DEF AllCopied

\* In a run that is not over somebody can go on: a copy waits for two caches and
\* a map, whose handlers wait for the cache again and a third map, but every
\* wait is for a key that was asked for, and the waits form no cycle
\* (copier.go:100-109, 180-186; platforms.go:58-79).
THEOREM NobodyStuck == Spec => []NobodyWaitsInVain
<1>1. Init => IInv /\ WInv
  BY Initially, InitiallyWInv
<1>2. IInv /\ WInv /\ [Next]_vars => (IInv /\ WInv)'
  BY StepKeeps, StepKeepsWInv
<1>3. IInv /\ WInv => NobodyWaitsInVain
  <2> SUFFICES ASSUME IInv, WInv, ~Ended, ~AnswerDue, ~BlobDue, ~PlatformDue, ~SpecDue
               PROVE  FALSE
    BY DEF NobodyWaitsInVain
  <2>1. ASSUME NEW c, NEW img, <<c, img>> \in requested PROVE Settled(c, img)
    <3>1. <<c, img>>[1] = c /\ <<c, img>>[2] = img
      OBVIOUS
    <3> QED
      BY <2>1, <3>1 DEF AnswerDue, Pending
  <2>2. ASSUME NEW k \in DOMAIN plat PROVE plat[k] \in {"copied", "failed"}
    <3>1. plat[k] # "reading"
      BY <2>1 DEF WInv, KeysAsk, PlatformDue
    <3>2. plat[k] # "copying"
      BY BlobsDecide DEF PlatformDue, BlobsCopied
    <3> QED
      BY <3>1, <3>2 DEF IInv, TypeOK, Range
  <2>3. PICK s \in batch : place[s] \in {"reading", "copying"}
    BY DEF Ended, IInv, TypeOK
  <2>4. place[s] # "reading"
    <3>1. <<"src", s.src>> \in requested /\ <<"dst", s.dst>> \in requested
      BY DEF WInv, SpecsAsk, Asked
    <3> QED
      BY <2>1, <3>1 DEF SpecDue
  <2>5. place[s] # "copying"
    BY <2>2, PlatformsDecide DEF SpecDue
  <2> QED
    BY <2>3, <2>4, <2>5
<1> QED
  BY <1>1, <1>2, <1>3, PTL DEF Spec

-----------------------------------------------------------------------------
(***************************************************************************)
(* Every map of the program treats its keys as KeyedWork allows.           *)
(***************************************************************************)
\* Keys are added with the first place of their handlers, and whoever is over
\* stays where he is.
KeepsWork(map, next, first, over) ==
  /\ \A k \in DOMAIN map : k \in DOMAIN next /\ (map[k] \in over => next[k] = map[k])
  /\ \A k \in DOMAIN next \ DOMAIN map : next[k] = first

KeepsPlaces ==
  /\ DOMAIN place' = DOMAIN place
  /\ KeepsWork(place, place', "reading", {"done", "failed"})

KeepsAnswers ==
  /\ requested \subseteq requested'
  /\ \A q \in DOMAIN manifests : q \in DOMAIN manifests' /\ manifests'[q] = manifests[q]
  /\ DOMAIN manifests' \subseteq requested

KeepsKeys  == KeepsWork(plat, plat', "reading", {"copied", "failed"})
KeepsBlobs == KeepsWork(blobTask, blobTask', "asked", {"copied", "failed"})

AsKeyedWork == KeepsPlaces /\ KeepsAnswers /\ KeepsKeys /\ KeepsBlobs

LEMMA NothingWorked ==
  /\ UNCHANGED place /\ DOMAIN place = batch => KeepsPlaces
  /\ UNCHANGED caches /\ DOMAIN manifests \subseteq requested => KeepsAnswers
  /\ UNCHANGED plat => KeepsKeys
  /\ UNCHANGED blobTask => KeepsBlobs
BY DEF KeepsWork, KeepsPlaces, KeepsAnswers, KeepsKeys, KeepsBlobs, caches

LEMMA OneGoesOn ==
  ASSUME NEW map, NEW next, NEW k \in DOMAIN map, NEW p, NEW first, NEW over,
         next = [map EXCEPT ![k] = p], map[k] \notin over
  PROVE  KeepsWork(map, next, first, over)
BY DEF KeepsWork

LEMMA InformKeeps ==
  ASSUME NEW map, NEW keys, NEW first, NEW over
  PROVE  KeepsWork(map, Inform(map, keys, first), first, over)
BY DEF KeepsWork, Inform

LEMMA PlaceGoesOn ==
  ASSUME IInv, NEW s \in batch, place[s] \in {"reading", "copying"}, NEW p, Goto(s, p)
  PROVE  KeepsPlaces
<1>1. DOMAIN place = batch
  BY DEF IInv, TypeOK
<1>2. place' = [place EXCEPT ![s] = p] /\ place[s] \notin {"done", "failed"}
  BY DEF Goto
<1>3. KeepsWork(place, place', "reading", {"done", "failed"})
  BY <1>1, <1>2, OneGoesOn
<1>4. DOMAIN place' = DOMAIN place
  BY <1>2
<1> QED
  BY <1>3, <1>4 DEF KeepsPlaces

LEMMA KeyGoesOn ==
  ASSUME NEW k \in DOMAIN plat, plat[k] \in {"reading", "copying"}, NEW p,
         GotoPlatform(k, p)
  PROVE  KeepsKeys
<1>1. plat' = [plat EXCEPT ![k] = p] /\ plat[k] \notin {"copied", "failed"}
  BY DEF GotoPlatform
<1> QED
  BY <1>1, OneGoesOn DEF KeepsKeys

LEMMA SpecStepWorks ==
  ASSUME IInv, NEW s \in batch, SpecSteps(s), process = "running", process' = "running"
  PROVE  AsKeyedWork
<1>1. ASSUME NEW doc, NilPlatform(s, doc) PROVE FALSE
  BY <1>1 DEF NilPlatform
<1>2. place[s] \in {"reading", "copying"} /\ \E p : Goto(s, p)
  BY <1>1 DEF SpecSteps, SourceFails, NoChange, CopyImage, PlatformsFail, OneCopied,
              UploadIndex, UploadIndexFails, Compares, AllCopied
<1>3. UNCHANGED <<manifests, blobTask>> /\ requested \subseteq requested'
  BY <1>1 DEF SpecSteps, SourceFails, NoChange, CopyImage, PlatformsFail, OneCopied,
              UploadIndex, UploadIndexFails, Submit, caches
<1>4. UNCHANGED plat \/ \E keys : plat' = Inform(plat, keys, "reading")
  BY <1>1 DEF SpecSteps, SourceFails, NoChange, CopyImage, PlatformsFail, OneCopied,
              UploadIndex, UploadIndexFails
<1>5. KeepsPlaces
  BY <1>2, PlaceGoesOn
<1>6. KeepsAnswers
  BY <1>3 DEF IInv, TypeOK, KeepsAnswers
<1>7. KeepsKeys
  BY <1>4, InformKeeps, NothingWorked DEF KeepsKeys
<1> QED
  BY <1>3, <1>5, <1>6, <1>7, NothingWorked DEF AsKeyedWork

LEMMA PlatformStepWorks ==
  ASSUME IInv, NEW k \in DOMAIN plat, PlatformSteps(k)
  PROVE  AsKeyedWork
<1>1. plat[k] \in {"reading", "copying"} /\ \E p : GotoPlatform(k, p)
  BY DEF PlatformSteps, NoManifest, CopyBlobs, BlobsFail, UploadPlatform,
         UploadPlatformFails, BlobsCopied
<1>2. UNCHANGED <<place, caches>>
  BY DEF PlatformSteps, NoManifest, CopyBlobs, BlobsFail, UploadPlatform,
         UploadPlatformFails
<1>3. UNCHANGED blobTask \/ \E keys : blobTask' = Inform(blobTask, keys, "asked")
  BY DEF PlatformSteps, NoManifest, CopyBlobs, BlobsFail, UploadPlatform,
         UploadPlatformFails
<1>4. KeepsBlobs
  BY <1>3, InformKeeps, NothingWorked DEF KeepsBlobs
<1>5. KeepsPlaces /\ KeepsAnswers
  BY <1>2, NothingWorked DEF IInv, TypeOK
<1> QED
  BY <1>1, <1>4, <1>5, KeyGoesOn DEF AsKeyedWork

LEMMA AnswerWorks ==
  ASSUME IInv, NEW c, NEW img, CacheSteps(c, img)
  PROVE  AsKeyedWork
<1> DEFINE new == <<c, img>>
<1>1. /\ new \in requested /\ new \notin DOMAIN manifests
      /\ \E docs : Answer(c, img, docs)
      /\ UNCHANGED <<place, plat, blobTask>> /\ requested \subseteq requested'
  BY DEF CacheSteps, GetManifest, GetManifestFails, Pending, Settled, Submit
<1>2. /\ DOMAIN manifests' = DOMAIN manifests \cup {new}
      /\ \A q \in DOMAIN manifests' : q # new => manifests'[q] = manifests[q]
  BY <1>1 DEF Answer
<1> HIDE DEF new
<1>3. KeepsAnswers
  BY <1>1, <1>2 DEF IInv, TypeOK, KeepsAnswers
<1> QED
  BY <1>1, <1>3, NothingWorked DEF IInv, TypeOK, AsKeyedWork

LEMMA BlobStepWorks ==
  ASSUME IInv, NEW b \in DOMAIN blobTask, BlobSteps(b)
  PROVE  AsKeyedWork
<1>1. blobTask[b] \notin {"copied", "failed"} /\ \E p : blobTask' = [blobTask EXCEPT ![b] = p]
  BY DEF BlobSteps, BlobCopied, BlobFails
<1>2. KeepsBlobs
  BY <1>1, OneGoesOn DEF KeepsBlobs
<1>3. UNCHANGED <<place, caches, plat>>
  BY DEF BlobSteps, BlobCopied, BlobFails
<1> QED
  BY <1>2, <1>3, NothingWorked DEF IInv, TypeOK, AsKeyedWork

\* The maps of a run do what KeyedWork allows, until the process ends: a key that
\* is new begins at the beginning, only what was asked for is answered, and a
\* result stays what it is, so that whoever collects it later gets the same, in
\* whatever order the handlers end (map.go:169-192).
THEOREM ResultsStay == Spec => [][Steps /\ process' = "running" => AsKeyedWork]_vars
<1>1. IInv /\ Steps /\ process' = "running" => AsKeyedWork
  BY SpecStepWorks, PlatformStepWorks, AnswerWorks, BlobStepWorks DEF Steps
<1> QED
  BY <1>1, AlwaysIInv, PTL DEF Spec

=============================================================================
