SPECIFICATION HdrSpec
CONSTANTS
    MaxOpens = 2
    MaxSeeks = 1
INVARIANTS
    MetadataFits
PROPERTIES
    NeverAnEarlierFile
CHECK_DEADLOCK FALSE
