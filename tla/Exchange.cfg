\* Three uploads and any number of merges, withdrawals and moderations.
CONSTANTS
  comp = comp
  compTwo = compTwo
  compThree = compThree
  acme = acme
  bolt = bolt
  coda = coda
  p1 = p1
  p2 = p2
  p3 = p3
  v1 = v1
  v2 = v2
  v3 = v3
  flat = flat
  bright = bright
  NoVendor = NoVendor
  Accounts = {ann}
  Names <- ThreeNames
  VendorNames <- TwoVendorNames
  Canonical <- AsSpelt
  PluginIds <- ThreePlugins
  VendorIds <- TwoVendors
  Contents <- TwoContents
  MaxMaps = 3
SYMMETRY Interchangeable
SPECIFICATION Spec
INVARIANTS UploadsLandTogether TwinsAreRelisted DownStaysDown
PROPERTY IdsKeepResolving
