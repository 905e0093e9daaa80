CONSTANTS
    a1 = a1
    a2 = a2
    Silence = Silence
    Unset = Silence
    Declarations <- Deployments
    Admin = {a1, a2}
    Viewer = {"v1"}
    ViewMode = {"plain"}
    Ttl = 0
    FetchMax = 1
    MaxTime = 2
    Upload = {"u1"}
    Deletion = {"d1"}
    UploadMode = {"", "clone"}
    UploadFormat = {"wav"}
    Remote = TRUE
    PreserveFiles = FALSE
    Temp = {"old"}
    MaxFaults = 1
SYMMETRY Same
SPECIFICATION Spec
INVARIANTS
    OldVoicesExpire
    RowsAreUsable
    FilesHaveOwners
    JudgedByItsMode
PROPERTIES
    ReloadNeverDowngrades
    HitsMatchTheManifest
CHECK_DEADLOCK FALSE
