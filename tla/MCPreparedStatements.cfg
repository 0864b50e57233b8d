SPECIFICATION Spec
CONSTANTS
  Catalogue <- MCCatalogue
  Families = {}
  IntMax = 99
  Significant = 6
  None = None
  Default = Default
  Placeholder = Placeholder
  Column = Column
  Texts <- MCTexts
  Once <- MCOnce
  Names = {"p"}
  Portals = {"c"}
  Settings <- MCSettings
  Refusable = {"app.x", "discard"}
  Limits = {0, 1}
INVARIANTS
  ReadsAreFresh
  SessionAgrees
PROPERTY
  EffectsAtExecute
