CONSTANTS
    Root = root
    Env = {root, e1, e2, e3}
    Name = {x}
    InputName = x
    Value = {v1, v2}
    Unbound = unbound
    MaxBinds = 2
    Reentrant = FALSE
SPECIFICATION Spec
SYMMETRY Symmetric
VIEW View
INVARIANTS TypeOK CacheCoherent RunningNotDangling
PROPERTIES RunningKeepsBindings ImplementsLexicalScope
CHECK_DEADLOCK FALSE
