SPECIFICATION Spec
CONSTANTS
    a1 = a1  a2 = a2  b = b  na = na  nb = nb
    k1 = k1  k2 = k2  k3 = k3  k4 = k4
    c1 = c1  c2 = c2  c3 = c3
    None = None
    Plugins = {a1, a2, b}
    Names = {na, nb}
    Keys = {k1, k2, k3, k4}
    NameOf <- MCNameOf
    DependsOn <- MCDependsOn
    KeysOf <- MCKeysOf
    Batches <- MCBatches
    WithInit = {a1, a2}
    WithCleanup = {a1, b}
    Callers = {c1, c2, c3}
SYMMETRY CallerSymmetry
INVARIANTS ServedWhileRegistered NothingLeftBehind BatchMeetsDependencies
