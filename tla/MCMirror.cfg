SPECIFICATION FairSpec
CONSTANTS
  origin = origin
  target = target
  second = second
  base = base
  layer = layer
  bytes = bytes
  Repo = {origin, target, second}
  Tag <- Names
  Batches <- Inputs
  Hosted <- HostedAtStart
  Tagged <- TaggedAtStart
  HostedBlobs <- BlobsAtStart
  MaxRuns <- RunsOf
INVARIANTS
  TypeOK
  StoreClosed
  Mirrored
  TagsMoveOnce
  CleanRunSucceeds
PROPERTIES
  MirrorEnds
