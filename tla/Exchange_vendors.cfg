\* Three vendors, one after another merged into the next.
CONSTANTS
  comp = comp
  compTwo = compTwo
  compThree = compThree
  acme = acme
  bolt = bolt
  coda = coda
  p1 = p1
  p2 = p2
  p3 = p3
  v1 = v1
  v2 = v2
  v3 = v3
  flat = flat
  bright = bright
  NoVendor = NoVendor
  Accounts = {ann}
  Names = {comp}
  VendorNames <- ThreeVendorNames
  Canonical <- AsSpelt
  PluginIds <- ThreePlugins
  VendorIds <- ThreeVendors
  Contents <- TwoContents
  MaxMaps = 3
SPECIFICATION Spec
PROPERTY VendorNamesKeepResolving
