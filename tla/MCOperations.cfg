SPECIFICATION FairSpec
CONSTANTS
    Target = {0, 3, 6}
    MaxCommands = 2
    NoBlame = NoBlame
    Source = {"dart", "kind"}
    Incomplete = {"dart"}
    Silent = {"dart"}
    Name = {"dart", "kind", "vault"}
    Request <- MCRequest
    MaxDocs = 1
    TableOf <- MCTableOf
INVARIANTS
    TypeOK
    CatalogAtRevision
    OnlyEdgesFail
    ExitTells
PROPERTIES
    DatabaseSpec
    CommandsEnd
