SPECIFICATION CatalogSpec
CONSTANTS
  Names <- OfferedNames
  Offers <- OfferedBy
  Upstream <- UpstreamText
  SafeNames <- ReadNames
  Colon = ":"
  Order <- Sorted
  Exposures = {"names-only", "server-only"}
  PageSize = 2
  Imports <- Imported
  MaxChanges = 3
INVARIANTS ConfigLoads PagesAreTheList  EnforcedAsShown
PROPERTIES OverridesSurviveMode
CHECK_DEADLOCK FALSE
