SPECIFICATION Spec
CONSTANTS
  Ids <- MCIds
  Pages <- MCPages
  Neighbours <- MCNeighbours
  Types <- MCTypes
  PriceTolerance = 1
  SurfaceTolerance = 2
INVARIANTS   SourcesShown 
