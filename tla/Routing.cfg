\* Two contexts, two Apps, two protocols, one WebApp, two patterns, two functions.
CONSTANTS
    Contexts = {main, worker}
    Apps = {a1, a2}
    Protocols = {http, https}
    WebApps = {web}
    Cells = {s1, s2}
    Patterns = {d1, d2}
    Callbacks = {f, g}
    NoContext = NoContext
    NoApp = NoApp
    NoWebApp = NoWebApp
    NoCell = NoCell
    NoCallback = NoCallback
    Apart = TRUE
SPECIFICATION Spec
SYMMETRY RoutingSymmetry
INVARIANTS
    TypeOK
    BoundAppIsAlive
    RoutesSeeTheLatestCallback
    NativesInUseAreAlive
CHECK_DEADLOCK FALSE
