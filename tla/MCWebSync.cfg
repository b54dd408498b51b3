CONSTANTS
    f1 = f1
    f2 = f2
    File <- TwoFiles
    Content <- TwoContents
    Bad <- Broken
    Absent = Absent
    User = User
    MaxChanges = 2
    MaxEvents = 2
SPECIFICATION WebSpec
SYMMETRY Names
INVARIANTS
    DiskBootable
    SettledIsLoaded
PROPERTY UserFilesKept
