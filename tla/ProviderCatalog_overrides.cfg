SPECIFICATION CatalogSpec
CONSTANTS
  j1 = j1
  j2 = j2
  j3 = j3
  Jobs <- MCJobs
  Providers = {"codex", "other"}
  Models = {"mini", "max"}
  Unsupported <- MCUnsupported
  Known <- MCKnown
  Snapshots <- MCSnapshots
  Chosen <- MCChosen
  Grants <- MCGrants
  Older <- MCOlder
CHECK_DEADLOCK FALSE
SYMMETRY Symmetry
INVARIANT ListedIsServed
PROPERTY OverridesStay
