SPECIFICATION Spec
CONSTANTS
  origin = origin
  target = target
  second = second
  base = base
  layer = layer
  bytes = bytes
  Repo = {origin, target, second}
  Tag <- Names
  Batches <- Single
  Hosted <- HostedAtStart
  Tagged <- TaggedAtStart
  HostedBlobs <- BlobsAtStart
  MaxRuns <- OneRun
INVARIANTS
  CopiedAsIs
