CONSTANTS
  Dimensions <- MCDimensions
  DevicesPerNode <- MCDevicesPerNode
  DeviceLists <- MCDeviceLists
  DiscoveryConfigs <- MCDiscoveryConfigs
  MaxHops <- MCMaxHops

SPECIFICATION Spec

INVARIANTS
  HopDistanceIsShortest
  RanksNumberNodes
  DevicesNumbered

\* A walk ends after MaxHops.
CHECK_DEADLOCK FALSE
