------------------------------ MODULE MCMirror ------------------------------
(***************************************************************************)
(* Instances of Mirror for TLC.  The repository origin is the source, and  *)
(* target the destination.                                                 *)
(***************************************************************************)
EXTENDS Mirror, TLC

CONSTANTS origin, target, second, base, layer, bytes

Manifest(parts)    == [kind |-> "manifest", parts |-> parts, rest |-> bytes]
Index(parts)       == [kind |-> "index", parts |-> parts, rest |-> bytes]
Entry(alg, doc, p) == [digest |-> <<alg, doc>>, platform |-> p]

\* Two manifests that share a blob; an index of both, the same with digests of
\* another algorithm, one of a single manifest, and one with an index in it.
amd    == Manifest(<<base>>)
arm    == Manifest(<<base, layer>>)
two    == Index(<<Entry("sha256", amd, "amd64"), Entry("sha256", arm, "arm64")>>)
strong == Index(<<Entry("sha512", amd, "amd64"), Entry("sha512", arm, "arm64")>>)
one    == Index(<<Entry("sha256", amd, "amd64")>>)
nested == Index(<<Entry("sha256", amd, "amd64"), Entry("sha256", one, NoPlatform)>>)

\* A manifest and an index that do not validate, one in the other.
flawed == [kind |-> "invalid manifest", parts |-> <<base>>, rest |-> bytes]
broken == [kind  |-> "invalid index",
           parts |-> <<Entry("sha256", amd, "amd64"), Entry("sha256", flawed, "arm64")>>,
           rest  |-> bytes]

ByTag(repo, tag) == [repo |-> repo, tag |-> tag, digest |-> NoDigest]
CopySpec(src, dst, limit) == [src |-> src, dst |-> dst, limit |-> limit]

Names == {"m", "two", "strong", "one", "nested", "broken", "t", "u", "v", "w"}

SrcDigests == {Canonical(x) : x \in {amd, arm, two, strong, one, nested, flawed, broken}}
                \cup {<<"sha512", amd>>, <<"sha512", arm>>}

\* The target has older images: a manifest under the tag t, an index under u, and
\* the one that does not validate under w.
HostedAtStart ==
  origin :> SrcDigests @@ target :> {Canonical(x) : x \in {amd, one, flawed, broken}} @@ second :> {}

TaggedAtStart ==
  origin :> [x \in Names |->
    CASE x = "m" -> Canonical(amd) [] x = "two" -> Canonical(two)
      [] x = "strong" -> Canonical(strong) [] x = "one" -> Canonical(one)
      [] x = "nested" -> Canonical(nested) [] x = "broken" -> Canonical(broken)
      [] OTHER -> NoDigest] @@
  target :> [x \in Names |->
    CASE x = "t" -> Canonical(amd) [] x = "u" -> Canonical(one)
      [] x = "w" -> Canonical(broken) [] OTHER -> NoDigest] @@
  second :> [x \in Names |-> NoDigest]

BlobsAtStart == {<<base, origin>>, <<layer, origin>>, <<base, target>>}

From(tag) == ByTag(origin, tag)
To(tag)   == ByTag(target, tag)
All       == {}

\* Images that share manifests and blobs, one destination being up to date; an
\* index used by two specs, of which one limits the platforms; an explicit
\* digest; two repositories; an index in an index, without and with a limit,
\* and a platform that is not there; and what does not validate, as a
\* destination to be replaced, as one that is up to date, and as a source.
Inputs == {
  {CopySpec(From("two"), To("t"), All)}, {CopySpec(From("strong"), To("u"), All)},
  {CopySpec(From("two"), To("v"), All), CopySpec(From("m"), To("t"), All)},
  {CopySpec(From("strong"), To("t"), All), CopySpec(From("strong"), To("v"), {"amd64"})},
  {CopySpec(ByDigest(origin, Canonical(two)), ByDigest(target, Canonical(two)), All),
   CopySpec(From("m"), To("v"), {"amd64"})},
  {CopySpec(From("two"), To("t"), {"amd64", "arm64"}),
   CopySpec(From("m"), ByTag(second, "t"), All)},
  {CopySpec(From("nested"), To("t"), All), CopySpec(From("one"), To("u"), {"s390x"})},
  {CopySpec(From("nested"), To("t"), {"amd64"}), CopySpec(From("m"), To("w"), All)},
  {CopySpec(From("broken"), To("w"), All), CopySpec(From("broken"), To("u"), All)},
  {CopySpec(ByDigest(origin, <<"sha512", amd>>), ByDigest(second, <<"sha512", amd>>), All)}}

\* One spec for two runs, two specs for one.
RunsOf == [input \in Inputs |-> IF Cardinality(input) = 1 THEN 2 ELSE 1]

\* An index of one platform, under a tag and under its digest.
Single == {
  {CopySpec(From("one"), To("t"), All)},
  {CopySpec(ByDigest(origin, Canonical(one)), ByDigest(second, Canonical(one)), All)}}

ASSUME InputAssumption == OneName /\ SourcesExist

OneRun == [input \in Single |-> 1]

=============================================================================
