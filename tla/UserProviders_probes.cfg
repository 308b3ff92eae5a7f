SPECIFICATION UserSpec
CONSTANTS
  j1 = j1
  j2 = j2
  j3 = j3
  j4 = j4
  Calls <- MCCalls
  Urls <- MCUrls
  Keys = {"k1", "k2"}
  Names <- MCNames
  Claudes <- MCClaudes
  Preset <- MCPreset
  Anthropics <- MCAnthropics
  Listings <- MCListings
  Together <- MCTogether
CHECK_DEADLOCK FALSE
SYMMETRY Symmetry
INVARIANTS
  ProbeIsOfTarget
  LedByProbed
