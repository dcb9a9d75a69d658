SPECIFICATION Spec
CONSTANTS
  Inputs <- AllInputs
  RegistryNames = {"docker.io", "r.io"}
  defaultRegistry = "docker.io"
INVARIANTS
  AcceptsExactlyValid
  EachDestinationOnce
  SetsFaithful
  ReferencesRoundTrip
