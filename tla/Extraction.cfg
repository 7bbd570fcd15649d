SPECIFICATION ExtractionSpec
CONSTANTS
    Documents <- MCDocuments
    Library <- MCLibrary
    Names <- MCNames
    MaxExtracted = 3
    Depth = 5

    
PROPERTIES
    CircuitStays
    
CHECK_DEADLOCK FALSE
