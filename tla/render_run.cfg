SPECIFICATION Spec
CONSTANTS
  Offers <- MCOffers
  MaxSwaps = 1
INVARIANTS WipedOnReturn OutputIsWhole OwnMaterialOnly RendersPinnedTemplate
CHECK_DEADLOCK FALSE
