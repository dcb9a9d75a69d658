------------------------------ MODULE Requests ------------------------------
(***************************************************************************)
(* From the input to the specs that the copier gets: main reads JSON       *)
(* values, each a spec or an array of specs (main.go), image references    *)
(* and platforms are parsed (image.go, spec.go), and coalesceRequests      *)
(* checks and merges the specs (spec.go).                                  *)
(*                                                                         *)
(* A reference is the components of its path, a tag and a digest, "" for   *)
(* none; a raw spec is what the JSON says, with a list of platforms.       *)
(***************************************************************************)
EXTENDS StringkeyedSet, FiniteSets

CONSTANTS
  Inputs,        \* the possible inputs: sequences of arrays of raw specs
  RegistryNames, \* the components with a dot or a colon inside: a registry
  defaultRegistry

\* A reference and a raw spec, as JSON and the regular expression of image.go
\* take them apart: a path has at least one component.
Byte      == 0..255
Reference == [path : Seq(STRING) \ {<<>>}, tag : STRING, digest : STRING]
RawSpec   == [src : Reference, dst : Reference, limit : Seq(Seq(Byte))]

ASSUME RequestsAssumption ==
  /\ Inputs \subseteq Seq(Seq(RawSpec))
  /\ RegistryNames \subseteq STRING
  /\ defaultRegistry \in RegistryNames

VARIABLES
  input,         \* what is left to read
  specs,         \* the specs that were read
  checked,       \* coalesceRequests: how many specs the first loop has seen
  merged,        \* how many the second loop has seen
  errs,          \* whether there is an error
  coalesced,     \* the result
  requestsByDst, \* the first spec of each destination
  outcome        \* "reading", "coalescing", "invalid", "rejected", "accepted"

vars == <<input, specs, checked, merged, errs, coalesced, requestsByDst, outcome>>

-----------------------------------------------------------------------------
(***************************************************************************)
(* image.Parse and Image.String.                                           *)
(***************************************************************************)
\* Faulty: every namespace of the default registry gets the prefix.
ParsePrefixing(ref) ==
  LET named    == Len(ref.path) > 1 /\ ref.path[1] \in RegistryNames
      registry == IF named THEN ref.path[1] ELSE defaultRegistry
      rest     == IF named THEN Tail(ref.path) ELSE ref.path
  IN  [registry  |-> registry,
       namespace |-> IF registry = defaultRegistry THEN <<"library">> \o rest ELSE rest,
       tag       |-> IF ref.tag = "" /\ ref.digest = "" THEN "latest" ELSE ref.tag,
       digest    |-> ref.digest]

Parse(ref) ==
  LET named     == Len(ref.path) > 1 /\ ref.path[1] \in RegistryNames
      registry  == IF named THEN ref.path[1] ELSE defaultRegistry
      namespace == IF named THEN Tail(ref.path) ELSE ref.path
  IN  [registry  |-> registry,
       namespace |-> IF registry = defaultRegistry /\ Len(namespace) = 1
                       THEN <<"library">> \o namespace ELSE namespace,
       tag       |-> IF ref.tag = "" /\ ref.digest = "" THEN "latest" ELSE ref.tag,
       digest    |-> ref.digest]

ImageString(img) ==
  [path |-> <<img.registry>> \o img.namespace, tag |-> img.tag, digest |-> img.digest]

\* platforms.Parse of containerd, which is external: no empty component, and
\* none of the control bytes.
Parses(platform) ==
  platform # <<>> /\ ToSet(platform) \cap {shiftOut, unitSeparator} = {}

\* platformSet.UnmarshalJSON: nothing for an error.
UnmarshalPlatforms(elems) ==
  {raw \in UnmarshalJSON(elems) :
     \A i \in DOMAIN ToSlice(raw) : Parses(ToSlice(raw)[i])}

\* json.Unmarshal of a spec.
UnmarshalSpec(raw) ==
  {[src |-> Parse(raw.src), dst |-> Parse(raw.dst), limit |-> limit] :
     limit \in UnmarshalPlatforms(raw.limit)}

-----------------------------------------------------------------------------
Init ==
  /\ input \in Inputs
  /\ specs = <<>> /\ checked = 0 /\ merged = 0
  /\ errs = FALSE
  /\ coalesced = <<>> /\ requestsByDst = <<>>
  /\ outcome = "reading"

\* readNextCopySpecs: an array is read as a whole, or not at all.
ReadSpecs ==
  /\ outcome = "reading"
  /\ input # <<>>
  /\ IF \E i \in DOMAIN Head(input) : UnmarshalSpec(Head(input)[i]) = {}
       THEN outcome' = "invalid" /\ UNCHANGED specs
       ELSE /\ specs' = specs \o [i \in DOMAIN Head(input) |->
                          CHOOSE s \in UnmarshalSpec(Head(input)[i]) : TRUE]
            /\ UNCHANGED outcome
  /\ input' = Tail(input)
  /\ UNCHANGED <<checked, merged, errs, coalesced, requestsByDst>>

EndOfInput ==
  /\ outcome = "reading"
  /\ input = <<>>
  /\ outcome' = "coalescing"
  /\ UNCHANGED <<input, specs, checked, merged, errs, coalesced, requestsByDst>>

srcs == {specs[i].src : i \in DOMAIN specs}

\* The first loop of coalesceRequests.
CheckSpec ==
  LET spec == specs[checked + 1]
  IN  /\ outcome = "coalescing"
      /\ checked < Len(specs)
      /\ checked' = checked + 1
      /\ errs' = (\/ errs
                  \/ spec.dst \in srcs
                  \/ spec.dst.digest # "" /\ spec.dst.digest # spec.src.digest
                  \/ spec.dst.digest # "" /\ spec.limit # <<>>)
      /\ UNCHANGED <<input, specs, merged, coalesced, requestsByDst, outcome>>

\* Faulty: the transformations are left out of the comparison.
DifferentSource(previous, current) == previous.src # current.src

Different(previous, current) == previous # current

\* Faulty: a repeated spec is kept as well.
AppendAlways(spec) == Append(coalesced, spec)

AppendNew(spec) ==
  IF spec.dst \in DOMAIN requestsByDst THEN coalesced ELSE Append(coalesced, spec)

\* The second loop.
MergeSpec ==
  LET current == specs[merged + 1]
      seen    == DOMAIN requestsByDst
  IN  /\ outcome = "coalescing"
      /\ checked = Len(specs)
      /\ merged < Len(specs)
      /\ merged' = merged + 1
      /\ coalesced' = AppendNew(current)
      /\ requestsByDst' = [d \in seen \cup {current.dst} |->
                            IF d \in seen THEN requestsByDst[d] ELSE current]
      /\ errs' = (\/ errs
                  \/ /\ current.dst \in seen
                     /\ Different(requestsByDst[current.dst], current))
      /\ UNCHANGED <<input, specs, checked, outcome>>

\* CopyAll returns the errors, or goes on with the coalesced specs.
Return ==
  /\ outcome = "coalescing"
  /\ merged = Len(specs)
  /\ outcome' = IF errs THEN "rejected" ELSE "accepted"
  /\ UNCHANGED <<input, specs, checked, merged, errs, coalesced, requestsByDst>>

Done == outcome \in {"invalid", "rejected", "accepted"} /\ UNCHANGED vars

Next == ReadSpecs \/ EndOfInput \/ CheckSpec \/ MergeSpec \/ Return \/ Done

Spec == Init /\ [][Next]_vars

-----------------------------------------------------------------------------
\* What a spec means: two images, and a set of platforms.
Platforms(spec) == ToSet(ToSlice(spec.limit))
Equivalent(s, t) == s.src = t.src /\ s.dst = t.dst /\ Platforms(s) = Platforms(t)

\* The requirements of the README (README.md, Validation), for the images that
\* the references mean and the platforms as sets.
Valid ==
  \A i, j \in DOMAIN specs :
    LET s == specs[i]  t == specs[j]
    IN  /\ s.src # t.dst
        /\ s.dst = t.dst => Equivalent(s, t)
        /\ s.dst.digest # "" => s.src.digest = s.dst.digest /\ Platforms(s) = {}

\* The input is accepted if it meets the requirements, and only then: the
\* comparison of specs with ==, through the encoded sets, is the comparison of
\* what they mean.
AcceptsExactlyValid ==
  /\ outcome = "accepted" => Valid
  /\ outcome = "rejected" => ~Valid

\* The copier gets each destination once: the keys of its map are specs, so that
\* two specs with one destination would be two handlers that write to it.
EachDestinationOnce ==
  outcome = "accepted" =>
    /\ \A i, j \in DOMAIN coalesced :
         coalesced[i].dst = coalesced[j].dst => i = j
    /\ {s.dst : s \in ToSet(coalesced)} = {s.dst : s \in ToSet(specs)}

\* A list of strings survives the encoding as a set: duplicates are rejected,
\* nothing is lost, mixed up or reordered, whatever control bytes the strings
\* have, and both JSON packages agree.
SetsFaithful ==
  \A n \in DOMAIN input : \A i \in DOMAIN input[n] :
    LET elems == input[n][i].limit
    IN  /\ UnmarshalJSON(elems) = UnmarshalJSONFrom(elems)
        /\ UnmarshalJSON(elems) = {} <=> Cardinality(ToSet(elems)) < Len(elems)
        /\ \A set \in UnmarshalJSON(elems) :
             LET slice == ToSlice(set)
             IN  /\ ToSet(slice) = ToSet(elems)
                 /\ Len(slice) = Len(elems) /\ Len(slice) = SetCardinality(set)
                 /\ \A k \in 2..Len(slice) : Before(slice[k - 1], slice[k])

\* A reference that the program prints reads as the same image.
ReferencesRoundTrip ==
  \A i \in DOMAIN specs :
    \A img \in {specs[i].src, specs[i].dst} : Parse(ImageString(img)) = img

=============================================================================
