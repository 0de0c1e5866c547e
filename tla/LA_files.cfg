CONSTANTS
    Workflows = {"a", "b"}
    Place <- MCPlace
    Contents = {"good", "bad", "secret", "long"}
    Invalid = {"bad"}
    Unloadable = {"long"}
    Unbounded <- MCUnbounded
    Triggers = {"t"}
    Clients = {"author", "viewer"}
    Grants <- MCGrants
    Submitted <- MCSubmitted
    Fragments <- MCFragments
    Edited <- MCEdited
    DiscardKeys = {"k1", "k2"}
    MaxDiscardRecords = 1
    Directories <- MCDirectories
    HasCatalog = {TRUE, FALSE}
    MaxSaves = 3
    MaxFaults = 1
    Bundles <- MCBundles
    Probes <- MCProbes
    Values <- MCValues
    MaxDiagnostics = 2
    Limits <- MCLimits
SPECIFICATION AuthoringSpec
INVARIANT DirectoryIsSound
INVARIANT ValidationIsSound
PROPERTY SavesAreDone
CHECK_DEADLOCK FALSE
