SPECIFICATION Spec
CONSTANTS
    None = None
    Source = {x, y, z}
    Client = {c1, c2}
    Width = 5
    CacheCap = 2
INVARIANTS
    TypeOK
    HandlesKeptApart
    CacheAgrees
PROPERTIES
    CompileReturns
    ImplementsTable
