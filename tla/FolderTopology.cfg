SPECIFICATION Spec
CONSTANTS
    None = None
    Folders <- MCFolders
    Files <- MCFiles
    MaxOwn = 3
    MaxElsewhere = 1
INVARIANT OwnTextStays
PROPERTIES
    
    FoldersSettle
