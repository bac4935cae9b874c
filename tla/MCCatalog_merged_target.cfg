INIT CatalogInit
NEXT CatalogNext

CONSTANTS
  None = None
  Food = {"flour", "flours", "mehl"}
  Close <- MCClose
  Near <- MCNear
  Seed <- MCSeed
  Renaming <- MCRenaming
  Ingredient = {1, 2, 3}
  Dish = {d1}
  Save = {s1}
  MaxLines = 2
  MergeIntoMerged = TRUE

INVARIANT NamesResolve

\* A table of ingredients that is full stops the saves.
CHECK_DEADLOCK FALSE
