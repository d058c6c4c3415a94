SPECIFICATION FairSpec
CONSTANTS
  a = a  b = b
  Group = {g1}
  Default = default
  NodeMap = nodemap
  Ctrl <- OneCtrl
  Pri = {1}
  Config <- One
  Broken <- NoConfig
  Contents <- OneContents
  None = none
  Unset = unset
  MaxLag = 1
  Faults = {}
PROPERTY GroupIsWatched
CHECK_DEADLOCK FALSE
