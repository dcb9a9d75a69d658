------------------------------- MODULE Mirror -------------------------------
(***************************************************************************)
(* A run of Magic Mirror (internal/image/copy): the copier handles every   *)
(* spec of a batch, reads manifests through the manifest caches, has the   *)
(* platformCopier copy what a manifest or the selected part of an index    *)
(* needs, and uploads an index after its manifests.  The blobIndexer reads *)
(* destinations in the background.                                         *)
(*                                                                         *)
(* Every component is a parka.Map, which appears as what it promises       *)
(* (KeyedWork): a key is handled once, and its result is kept.  The        *)
(* blobCopier appears as what BlobCopier shows of it: a blob is copied, or *)
(* believed to be there, or the request fails.  The registries are         *)
(* external.  The process may be killed at any time and run again.         *)
(*                                                                         *)
(* A document is a record of its kind, of its parts, which are the layers  *)
(* and the config of a manifest or the descriptors of an index, and of the *)
(* rest of its bytes.  A digest is an algorithm and the document.  A       *)
(* descriptor is a digest and a platform.  The kind is manifest or index,  *)
(* as the mediaType in the document says, or another one.  A document with *)
(* a digest in it that is none does not validate: it is of the kinds       *)
(* "invalid manifest" and "invalid index", and its parts are the others.   *)
(***************************************************************************)
EXTENDS Naturals, Sequences, FiniteSets, Functions

CONSTANTS
  Repo,
  Tag,          \* the tags in use; "" is no tag
  Batches,      \* the possible inputs: sets of specs that are accepted
  Hosted,       \* the digests that each repository has at the start
  Tagged,       \* the digest or NoDigest of each tag of each repository then
  HostedBlobs,  \* the <<blob, repository>> that exist then
  MaxRuns       \* bound: runs of the program, for each input

NoDigest   == <<>>
NoPlatform == ""

\* An image has a tag or a digest, or both.
IsImage(img) ==
  /\ img = [repo |-> img.repo, tag |-> img.tag, digest |-> img.digest]
  /\ img.repo \in Repo
  /\ img.tag \in Tag \cup {""}
  /\ img.digest = NoDigest => img.tag # ""

ManifestKinds == {"manifest", "invalid manifest"}
IndexKinds    == {"index", "invalid index"}

\* Everything that repositories hold is complete: there are the blobs of a
\* manifest, the manifests of an index, and the document of a tag.
Closed(docs, refs, bs) ==
  \A r \in Repo :
    /\ \A d \in docs[r] :
         /\ d[2].kind \in ManifestKinds => Range(d[2].parts) \X {r} \subseteq bs
         /\ d[2].kind \in IndexKinds =>
              {e.digest : e \in Range(d[2].parts)} \subseteq docs[r]
    /\ Range(refs[r]) \ {NoDigest} \subseteq docs[r]

IsList(list) == list \in Seq(Range(list))

\* What coalesceRequests accepts (AcceptsExactlyValid of Requests).
Accepted(specs) ==
  \A s, t \in specs :
    /\ s.dst = t.dst => s = t
    /\ s.dst # t.src
    /\ s.dst.digest # NoDigest => s.dst.digest = s.src.digest /\ s.limit = {}

ASSUME MirrorAssumption ==
  /\ "" \notin Tag
  /\ DOMAIN Hosted = Repo
  /\ \A r \in Repo : \A d \in Hosted[r] :
       d # NoDigest /\ IsList(d[2].parts)
  /\ Tagged \in [Repo -> [Tag -> (UNION Range(Hosted)) \cup {NoDigest}]]
  /\ \A b \in HostedBlobs : b = <<b[1], b[2]>> /\ b[2] \in Repo
  /\ Closed(Hosted, Tagged, HostedBlobs)
  /\ MaxRuns \in [Batches -> Nat \ {0}]
  /\ \A specs \in Batches :
       Accepted(specs) /\ \A s \in specs : IsImage(s.src) /\ IsImage(s.dst)

VARIABLES
  batch,      \* the specs, without repetitions
  process,    \* running, killed from outside, or ended by a panic
  runs,       \* runs of the program so far
  faulty,     \* whether a request has failed in this run that need not have
  place,      \* where copySpec is, for each spec
  requested,  \* what has been asked of the manifest caches
  manifests,  \* what they have read: a document, or none for an error
  plat,       \* platformCopier: where copyPlatform is, for each key asked for
  blobTask,   \* blobCopier: the result for each key asked for
  sources,    \* blobCopier: where blobs are believed to be
  stored,     \* the registries: digests under which there is a document
  tags,       \* the registries: what the tags refer to
  blobs       \* the registries: <<blob, repository>>

caches   == <<requested, manifests>>
registry == <<stored, tags, blobs>>
run      == <<batch, process, runs>>
vars == <<run, faulty, place, caches, plat, blobTask, sources, registry>>

-----------------------------------------------------------------------------
(***************************************************************************)
(* Images, documents, and what is selected from an index.                  *)
(***************************************************************************)
ByDigest(repo, d) == [repo |-> repo, tag |-> "", digest |-> d]

\* Descriptor().Digest: the canonical digest of the bytes.
Canonical(doc) == <<"sha256", doc>>

\* The descriptors that copyIndex copies, at their places in the index.
Selected(s, doc) ==
  IF s.limit = {} THEN doc.parts
  ELSE Restrict(doc.parts, {i \in DOMAIN doc.parts : doc.parts[i].platform \in s.limit})

OnlyOne(list) == \E i \in DOMAIN list : DOMAIN list = {i}

\* The keys that are asked of the platformCopier for a spec: the image itself,
\* or the selected manifests, under their digests unless there is only one, which
\* gets the name of the image.
Copies(s, doc) ==
  LET sel == Selected(s, doc)
  IN  IF doc.kind = "manifest" THEN <<[src |-> s.src, dst |-> s.dst]>>
      ELSE IF doc.kind # "index" THEN <<>>
      ELSE [i \in DOMAIN sel |->
             [src |-> ByDigest(s.src.repo, sel[i].digest),
              dst |-> IF OnlyOne(sel) THEN s.dst
                      ELSE ByDigest(s.dst.repo, sel[i].digest)]]

Settled(c, img)  == <<c, img>> \in DOMAIN manifests
Read(c, img)     == IF Settled(c, img) THEN manifests[<<c, img>>] ELSE {}
Failed(c, img)   == Settled(c, img) /\ Read(c, img) = {}

\* The manifest that copyPlatform returns for a key that has been copied.
Copied(k) == CHOOSE doc \in Read("src", k.src) : TRUE

\* A descriptor of the index to upload, whose manifest m is at the destination
\* under its canonical digest.  With limited platforms, dstIndex.Manifests is
\* selectedDescriptors, and so the platform is read after it is overwritten.
NewDescriptor(s, e, m) ==
  IF e.digest = Canonical(m) THEN e
  ELSE [digest |-> Canonical(m),
        platform |-> IF s.limit = {} THEN e.platform ELSE NoPlatform]

\* The index that copyIndex uploads.
DstIndex(s, doc) ==
  LET sel  == Selected(s, doc)
      keys == Copies(s, doc)
      new  == [i \in DOMAIN sel |-> NewDescriptor(s, sel[i], Copied(keys[i]))]
  IN  IF s.limit = {} /\ new = doc.parts THEN doc
      ELSE [kind |-> "index", parts |-> new, rest |-> doc]

-----------------------------------------------------------------------------
(***************************************************************************)
(* The registries: what they serve, and what an upload changes.            *)
(***************************************************************************)
\* The document of a reference, if there is one: at most one digest.
Found(img) ==
  IF img.digest # NoDigest THEN {img.digest} \cap stored[img.repo]
  ELSE {tags[img.repo][img.tag]} \ {NoDigest}

\* A request by a digest that is there may be answered with something else.
Served(img) ==
  {d[2] : d \in IF img.digest # NoDigest /\ Found(img) # {}
                  THEN stored[img.repo] ELSE Found(img)}

\* Faulty: whatever arrives is believed to be what was asked for.
VerifiedNever(img, doc) == TRUE

Verified(img, doc) == img.digest # NoDigest => img.digest[2] = doc

\* uploadManifest: the tag comes first, then the digest that was asked for.
Reference(img, doc) == IF img.digest # NoDigest THEN img.digest ELSE Canonical(doc)

\* A registry refuses a document that is not what the digest says.
Refused(img, doc) == img.tag = "" /\ Reference(img, doc)[2] # doc

Upload(img, doc) ==
  LET d == IF img.tag # "" THEN Canonical(doc) ELSE Reference(img, doc)
  IN  /\ stored' = [stored EXCEPT ![img.repo] = @ \cup {d}]
      /\ tags' = IF img.tag = "" THEN tags
                 ELSE [tags EXCEPT ![img.repo][img.tag] = d]
      /\ UNCHANGED blobs

-----------------------------------------------------------------------------
\* Faulty: the goroutine for the destination is not started.
AskedSources(specs) == {<<"src", s.src>> : s \in specs}

\* CopyAll informs the map of all specs, whose goroutines ask for the source
\* and, in a goroutine of its own, for the destination.
Asked(specs) ==
  {<<"src", s.src>> : s \in specs} \cup {<<"dst", s.dst>> : s \in specs}

Init ==
  /\ batch \in Batches
  /\ process = "running"
  /\ runs = 1
  /\ faulty = FALSE
  /\ place = [s \in batch |-> "reading"]
  /\ requested = Asked(batch) /\ manifests = <<>>
  /\ plat = <<>>
  /\ blobTask = <<>> /\ sources = {}
  /\ stored = Hosted /\ tags = Tagged /\ blobs = HostedBlobs

\* What the process knows is lost with it.
Forget ==
  /\ faulty' = FALSE
  /\ place' = [s \in batch |-> "reading"]
  /\ requested' = Asked(batch) /\ manifests' = <<>>
  /\ plat' = <<>>
  /\ blobTask' = <<>> /\ sources' = {}
  /\ UNCHANGED <<batch, registry>>

-----------------------------------------------------------------------------
(***************************************************************************)
(* copySpec and copyIndex.                                                 *)
(***************************************************************************)
Goto(s, p) == place' = [place EXCEPT ![s] = p]

\* Faulty: an error of the destination counts, too.
EitherFails(s) ==
  /\ place[s] = "reading"
  /\ Failed("src", s.src) \/ Failed("dst", s.dst)
  /\ Goto(s, "failed")
  /\ UNCHANGED <<run, faulty, caches, plat, blobTask, sources, registry>>

\* A destination that cannot be read is no error, but the source is.
SourceFails(s) ==
  /\ place[s] = "reading"
  /\ Failed("src", s.src)
  /\ Goto(s, "failed")
  /\ UNCHANGED <<run, faulty, caches, plat, blobTask, sources, registry>>

\* The blobs of a manifest are where the manifest is.
ManifestBlobs(repo, docs) ==
  UNION {Range(doc.parts) \X {repo} :
           doc \in {d \in docs : d.kind \in ManifestKinds}}

\* The manifests of an index are asked for.  What is none by its digest is asked
\* for as well, but nothing depends on the answer.
IndexEntries(repo, docs) ==
  UNION {{<<"index", ByDigest(repo, e.digest)>> : e \in Range(doc.parts)} :
           doc \in {d \in docs : d.kind \in IndexKinds}}

\* Faulty: what the indexer asks for replaces what others have asked for.
SubmitReplacing(repo, docs) ==
  /\ sources' = sources \cup ManifestBlobs(repo, docs)
  /\ requested' = IndexEntries(repo, docs)

\* blobIndexer.Submit of a document read from the repository, if it was read:
\* the blobs of a manifest are there, the manifests of an index are read next.
\* Unlike the copier, it validates neither.
Submit(repo, docs) ==
  /\ sources' = sources \cup ManifestBlobs(repo, docs)
  /\ requested' = requested \cup IndexEntries(repo, docs)

\* copySpec has both answers: doc, and the destination's manifest or an error.
Compares(s, doc) ==
  /\ place[s] = "reading"
  /\ doc \in Read("src", s.src)
  /\ Settled("dst", s.dst)

\* Faulty: limitPlatforms is forgotten in the comparison.
SameAsIs(s, doc) == doc \in Read("dst", s.dst)

Same(s, doc) == doc \in Read("dst", s.dst) /\ s.limit = {}

NoChange(s, doc) ==
  /\ Compares(s, doc)
  /\ Same(s, doc)
  /\ Submit(s.dst.repo, Read("dst", s.dst))
  /\ Goto(s, "done")
  /\ UNCHANGED <<run, faulty, manifests, plat, blobTask, registry>>

\* The loop of copyIndex dereferences the platform of each descriptor.
Dereferences(s, doc) ==
  /\ doc.kind = "index" /\ s.limit # {}
  /\ \E e \in Range(doc.parts) : e.platform = NoPlatform

NilPlatform(s, doc) ==
  /\ Compares(s, doc)
  /\ Dereferences(s, doc)
  /\ process' = "panicked"
  /\ Forget
  /\ UNCHANGED runs

\* Map.Inform: the keys that are new to the map have no result yet.
Inform(map, keys, first) ==
  [k \in keys \cup DOMAIN map |-> IF k \in DOMAIN map THEN map[k] ELSE first]

\* The image has to be copied.  The result of an index without a requested
\* platform, or of a document of an unknown type or that does not validate,
\* is an error.  The handlers of the platformCopier have no limit, and begin
\* with asking for their manifests (InformFront, Get).
CopyImage(s, doc) ==
  LET keys == Range(Copies(s, doc))
      old  == Read("dst", s.dst)
  IN  /\ Compares(s, doc)
      /\ ~Same(s, doc)
      /\ ~Dereferences(s, doc)
      /\ plat' = Inform(plat, keys, "reading")
      /\ sources' = sources \cup ManifestBlobs(s.dst.repo, old)
      /\ requested' = requested \cup IndexEntries(s.dst.repo, old)
                        \cup {<<"src", k.src>> : k \in keys}
      /\ Goto(s, IF keys = {} THEN "failed" ELSE "copying")
      /\ UNCHANGED <<run, faulty, manifests, blobTask, registry>>

\* Map.Collect waits for the keys in order, up to the first error.
CollectFails(results) ==
  \E i \in DOMAIN results :
    /\ results[i] = "failed"
    /\ \A j \in DOMAIN results : j < i => results[j] = "copied"

Collects(results) == \A i \in DOMAIN results : results[i] = "copied"

PlatformsOf(s, doc) == [i \in DOMAIN Copies(s, doc) |-> plat[Copies(s, doc)[i]]]

PlatformsFail(s, doc) ==
  /\ place[s] = "copying" /\ doc \in Read("src", s.src)
  /\ CollectFails(PlatformsOf(s, doc))
  /\ Goto(s, "failed")
  /\ UNCHANGED <<run, faulty, caches, plat, blobTask, sources, registry>>

\* All manifests are at the destination.
AllCopied(s, doc) ==
  /\ place[s] = "copying" /\ doc \in Read("src", s.src)
  /\ Collects(PlatformsOf(s, doc))

\* A single manifest has the name of the image already.
OneCopied(s, doc) ==
  /\ AllCopied(s, doc)
  /\ OnlyOne(Copies(s, doc))
  /\ Goto(s, "done")
  /\ UNCHANGED <<run, faulty, caches, plat, blobTask, sources, registry>>

\* The index in the cache stays as it is for other specs: ensureNewDstIndex
\* copies it before it is changed.
UploadIndex(s, doc) ==
  /\ AllCopied(s, doc)
  /\ ~OnlyOne(Copies(s, doc))
  /\ ~Refused(s.dst, DstIndex(s, doc))
  /\ Upload(s.dst, DstIndex(s, doc))
  /\ Goto(s, "done")
  /\ UNCHANGED <<run, faulty, caches, plat, blobTask, sources>>

\* An upload that fails may have been made.
UploadIndexFails(s, doc) ==
  /\ AllCopied(s, doc)
  /\ ~OnlyOne(Copies(s, doc))
  /\ \/ UNCHANGED registry
     \/ ~Refused(s.dst, DstIndex(s, doc)) /\ Upload(s.dst, DstIndex(s, doc))
  /\ faulty' = (faulty \/ ~Refused(s.dst, DstIndex(s, doc)))
  /\ Goto(s, "failed")
  /\ UNCHANGED <<run, caches, plat, blobTask, sources>>

SpecSteps(s) ==
  \/ SourceFails(s)
  \/ \E doc \in Read("src", s.src) :
       \/ NoChange(s, doc)
       \/ NilPlatform(s, doc)
       \/ CopyImage(s, doc)
       \/ PlatformsFail(s, doc)
       \/ OneCopied(s, doc)
       \/ UploadIndex(s, doc)
       \/ UploadIndexFails(s, doc)

-----------------------------------------------------------------------------
(***************************************************************************)
(* copyPlatform, and the maps below it.                                    *)
(***************************************************************************)
GotoPlatform(k, p) == plat' = [plat EXCEPT ![k] = p]

\* The manifest cannot be read, or is not a manifest that validates.
NoManifest(k) ==
  /\ plat[k] = "reading"
  /\ Settled("src", k.src)
  /\ \A doc \in Read("src", k.src) : doc.kind # "manifest"
  /\ GotoPlatform(k, "failed")
  /\ UNCHANGED <<run, faulty, place, caches, blobTask, sources, registry>>

BlobKeys(k, doc) == Range(doc.parts) \X {k.dst.repo}

\* blobCopier.CopyAll: the source is registered, and the blobs are asked for.
CopyBlobs(k) ==
  /\ plat[k] = "reading"
  /\ \E doc \in Read("src", k.src) :
       /\ doc.kind = "manifest"
       /\ sources' = sources \cup (Range(doc.parts) \X {k.src.repo})
       /\ blobTask' = Inform(blobTask, BlobKeys(k, doc), "asked")
  /\ GotoPlatform(k, "copying")
  /\ UNCHANGED <<run, faulty, place, caches, registry>>

\* The results of the blobs, in the order of the manifest.
BlobsOf(k) ==
  [i \in DOMAIN Copied(k).parts |-> blobTask[<<Copied(k).parts[i], k.dst.repo>>]]

BlobsFail(k) ==
  /\ plat[k] = "copying"
  /\ CollectFails(BlobsOf(k))
  /\ GotoPlatform(k, "failed")
  /\ UNCHANGED <<run, faulty, place, caches, blobTask, sources, registry>>

\* Faulty: the manifest does not wait for the blobs after the first.
FirstBlobCopied(k) == plat[k] = "copying" /\ BlobsOf(k)[1] = "copied"

BlobsCopied(k) == plat[k] = "copying" /\ Collects(BlobsOf(k))

\* The manifest is uploaded under its tag or its own digest.
DstImage(k) ==
  [repo |-> k.dst.repo, tag |-> k.dst.tag, digest |-> Canonical(Copied(k))]

UploadPlatform(k) ==
  /\ BlobsCopied(k)
  /\ ~Refused(DstImage(k), Copied(k))
  /\ Upload(DstImage(k), Copied(k))
  /\ GotoPlatform(k, "copied")
  /\ UNCHANGED <<run, faulty, place, caches, blobTask, sources>>

UploadPlatformFails(k) ==
  /\ BlobsCopied(k)
  /\ \/ UNCHANGED registry
     \/ ~Refused(DstImage(k), Copied(k)) /\ Upload(DstImage(k), Copied(k))
  /\ faulty' = (faulty \/ ~Refused(DstImage(k), Copied(k)))
  /\ GotoPlatform(k, "failed")
  /\ UNCHANGED <<run, place, caches, blobTask, sources>>

PlatformSteps(k) ==
  \/ NoManifest(k)
  \/ CopyBlobs(k)
  \/ BlobsFail(k)
  \/ UploadPlatform(k)
  \/ UploadPlatformFails(k)

Pending(c, img) == <<c, img>> \in requested /\ ~Settled(c, img)

\* The cache c has the answer for the image.
Answer(c, img, docs) ==
  manifests' = [q \in DOMAIN manifests \cup {<<c, img>>} |->
                 IF q = <<c, img>> THEN docs ELSE manifests[q]]

\* getManifest succeeds.  A document for the blobIndexer is submitted by the
\* goroutine that waited for it.
GetManifest(c, img) ==
  /\ Pending(c, img)
  /\ \E doc \in Served(img) :
       /\ Verified(img, doc)
       /\ Answer(c, img, {doc})
       /\ IF c = "index" THEN Submit(img.repo, {doc})
                         ELSE UNCHANGED <<requested, sources>>
  /\ UNCHANGED <<run, faulty, place, plat, blobTask, registry>>

\* There is no such manifest, the request fails, or the answer is another one.
GetManifestFails(c, img) ==
  /\ Pending(c, img)
  /\ Answer(c, img, {})
  /\ faulty' = (faulty \/ Found(img) # {})
  /\ UNCHANGED <<run, place, requested, plat, blobTask, sources, registry>>

\* copyBlob begins with the question whether the blob is known to be there.
BlobKnown(b) == b \in sources

\* copyBlob succeeds, and registers the destination.
BlobCopied(b) ==
  /\ blobTask[b] = "asked"
  /\ blobs' = IF BlobKnown(b) THEN blobs ELSE blobs \cup {b}
  /\ sources' = sources \cup {b}
  /\ blobTask' = [blobTask EXCEPT ![b] = "copied"]
  /\ UNCHANGED <<run, faulty, place, caches, plat, stored, tags>>

\* A request of copyBlob fails, after the blob was stored or before.
BlobFails(b) ==
  /\ blobTask[b] = "asked"
  /\ ~BlobKnown(b)
  /\ blobs' \in {blobs, blobs \cup {b}}
  /\ blobTask' = [blobTask EXCEPT ![b] = "failed"]
  /\ faulty' = TRUE
  /\ UNCHANGED <<run, place, caches, plat, sources, stored, tags>>

CacheSteps(c, img) == GetManifest(c, img) \/ GetManifestFails(c, img)
BlobSteps(b)       == BlobCopied(b) \/ BlobFails(b)

-----------------------------------------------------------------------------
\* CopyAll has the results of all specs, and main returns or exits.
Ended == \A s \in batch : place[s] \in {"done", "failed"}

\* The process ends early: it is interrupted, a request gets no response
\* (registry.go:50), or the assertion fails that a document whose mediaType says
\* index or manifest is one, which its Content-Type has decided on
\* (manifests.go:93-105, copier.go:121, platforms.go:68, blobindexer.go:31-39).
Kill ==
  /\ process = "running" /\ ~Ended
  /\ process' = "killed"
  /\ Forget
  /\ UNCHANGED runs

\* The program is run again with the same input.
Rerun ==
  /\ process # "running" \/ Ended
  /\ runs < MaxRuns[batch]
  /\ runs' = runs + 1
  /\ process' = "running"
  /\ Forget

Steps ==
  /\ process = "running"
  /\ \/ \E s \in batch : SpecSteps(s)
     \/ \E k \in DOMAIN plat : PlatformSteps(k)
     \/ \E q \in requested : CacheSteps(q[1], q[2])
     \/ \E b \in DOMAIN blobTask : BlobSteps(b)

Stopped ==
  /\ process # "running" \/ Ended
  /\ UNCHANGED vars

Next ==
  \/ Steps
  \/ Kill
  \/ Rerun
  \/ Stopped

\* Goroutines are scheduled and requests end, in an answer or an error.
Fairness == WF_vars(Steps)

Spec     == Init /\ [][Next]_vars
FairSpec == Spec /\ Fairness

-----------------------------------------------------------------------------
\* The blobs that there may be: those of the start, in any repository.
Universe == {<<b[1], r>> : b \in HostedBlobs, r \in Repo}

TypeOK ==
  /\ batch \in Batches
  /\ process \in {"running", "killed", "panicked"}
  /\ runs \in 1..MaxRuns[batch] /\ faulty \in BOOLEAN
  /\ place \in [batch -> {"reading", "copying", "done", "failed"}]
  /\ DOMAIN manifests \subseteq requested
  /\ \A q \in DOMAIN manifests : \A d, e \in manifests[q] : d = e
  /\ Range(plat) \subseteq {"reading", "copying", "copied", "failed"}
  /\ Range(blobTask) \subseteq {"asked", "copied", "failed"}
  /\ DOMAIN stored = Repo /\ DOMAIN tags = Repo
  /\ sources \cup blobs \subseteq Universe

\* What a registry serves is complete at every moment, also when the process
\* ends half-way and runs again: the blobs of a manifest, the manifests of an
\* index, the document of a tag are there before it is (platforms.go:79-88,
\* copier.go:185-202).
StoreClosed == Closed(stored, tags, blobs)

\* The document that the spec asks for: the source's, which does not change.
Original(s) == {d[2] : d \in Found(s.src)}

\* The manifests that a document brings with it.
Contents(doc) ==
  IF doc.kind = "index"
    THEN {e.digest[2] : e \in Range(doc.parts)} ELSE {doc}

Platforms(doc) == {<<e.digest[2], e.platform>> : e \in Range(doc.parts)}

\* The document found brings the manifests that the spec selects from the
\* source's, no more and no less, with their platforms unless the spec limits
\* these (copier.go:193-195).
Satisfies(s, found) ==
  \E doc \in Original(s) :
    /\ Contents(found) =
         IF doc.kind = "index"
           THEN {e.digest[2] : e \in Range(Selected(s, doc))} ELSE {doc}
    /\ found.kind = "index" /\ s.limit = {} => Platforms(found) = Platforms(doc)

\* The destination refers to what the spec asks for.  An explicit digest cannot
\* name the manifest that copyIndex makes of an index of one platform, and is
\* replaced by the canonical one of a manifest.
IsMirrored(s) ==
  \/ \E d \in Found(s.dst) : Satisfies(s, d[2])
  \/ /\ s.dst.digest # NoDigest
     /\ \E doc \in Original(s) :
          IF doc.kind = "index" THEN OnlyOne(doc.parts)
                                ELSE s.dst.digest # Canonical(doc)

\* When copySpec has succeeded, the destination refers to what the spec asks
\* for, whatever the other specs do with the same source, manifests and blobs.
Mirrored == \A s \in batch : place[s] = "done" => IsMirrored(s)

\* The tag of a destination refers to what it did at the start or to all that
\* the spec asks for, at every moment and through failures, kills and reruns.
\* No tag is ever in between.
TagsMoveOnce ==
  \A s \in batch : s.dst.tag # "" =>
    LET d == tags[s.dst.repo][s.dst.tag]
    IN  d = Tagged[s.dst.repo][s.dst.tag] \/ Satisfies(s, d[2])

\* The specs that cannot succeed: no requested platform, a document of another
\* type, an index in the index, or an explicit digest for an index that has to
\* be encoded anew.
Unfit(s) ==
  \A doc \in Original(s) :
    \/ DOMAIN Copies(s, doc) = {}
    \/ doc.kind = "index" /\ \E e \in Range(Selected(s, doc)) :
         \/ e.digest[2].kind # "manifest"
         \/ e.digest # Canonical(e.digest[2]) /\ s.dst.digest # NoDigest

\* A run in which no request fails copies every image that can be copied,
\* whatever earlier runs left behind when they failed or were killed.
CleanRunSucceeds ==
  ~faulty => \A s \in batch : place[s] = "failed" => Unfit(s)

\* What the properties above take for granted of the inputs.  A destination with
\* a tag and a digest is read by its digest and written by its tag, and could
\* share the tag with another one (manifests.go:23-29, 54-57).
OneName ==
  \A specs \in Batches : \A s \in specs : s.dst.tag = "" \/ s.dst.digest = NoDigest

\* The sources are there when the program starts.
SourcesExist ==
  \A specs \in Batches : \A s \in specs :
    IF s.src.digest # NoDigest THEN s.src.digest \in Hosted[s.src.repo]
                               ELSE Tagged[s.src.repo][s.src.tag] # NoDigest

\* Every spec comes to an end, with all the maps waiting for each other, or
\* the process does.
MirrorEnds == process = "running" ~> (process # "running" \/ Ended)

\* "Optional transformations to perform while mirroring an image, rather than
\* copying the entire image exactly as-is" (README.md:39-40): without them, what
\* the destination refers to is what the source refers to.
CopiedAsIs ==
  \A s \in batch : place[s] = "done" /\ s.limit = {} =>
    {d[2] : d \in Found(s.dst)} = Original(s)

\* "If the image does not contain any of the requested platforms, the copy will
\* fail" (README.md:45-46): the copy, and not the process with all other copies.
OnlyCopiesFail == process # "panicked"

=============================================================================
