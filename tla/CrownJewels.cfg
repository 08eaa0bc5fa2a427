SPECIFICATION JewelSpec
CONSTANT MaxTellings = 5
PROPERTY TagsNeverDemote
CHECK_DEADLOCK FALSE
