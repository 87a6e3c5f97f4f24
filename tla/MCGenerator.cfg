SPECIFICATION GeneratorSpec
CONSTANTS
  Requests <- WithLangpacks
  MaxFails = 1
  MaxLeftOut = 2
INVARIANTS
  LangpacksSound
  FirmwareSound
  TablesMatch
