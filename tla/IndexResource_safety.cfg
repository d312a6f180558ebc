CONSTANTS
  Indices = {i1, i2}
  NoIndex = noindex
  Settings = {s1}
  Unset = unset
  Aliases = {series, other}
  Series = series
SYMMETRY Symmetric
SPECIFICATION Spec
INVARIANTS TypeOK AliasesAsRecorded SettingsAsRecorded
PROPERTIES DestroySparesDocuments DestroysOnlyItsOwn ForgetsOnlyGone
