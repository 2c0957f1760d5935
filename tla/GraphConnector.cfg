SPECIFICATION Spec
CONSTANTS
    Users = {"ann"}
    Guests = {"gus"}
    Groups = {"g1", "g2"}
    Folders = {"f1", "f2"}
    Docs = {"d1"}
    Mails = {"ann@", "gus@"}
    Upn <- MCUpn
    Owners <- MCOwners
    Directory <- MCDirectory
    MaxChanges = 2
INVARIANTS
    SnapshotBracketed
    CheckDecides
    
    CatalogCatchesUp
    NoChangeSkipped
CHECK_DEADLOCK FALSE
