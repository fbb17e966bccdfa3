\* Two contexts, two Apps, one protocol, one pattern, one function; any context is
\* sent any request.
CONSTANTS
    Contexts = {main, worker}
    Apps = {a1, a2}
    Protocols = {http}
    WebApps = {web}
    Cells = {s1, s2}
    Patterns = {d1}
    Callbacks = {f}
    NoContext = NoContext
    NoApp = NoApp
    NoWebApp = NoWebApp
    NoCell = NoCell
    NoCallback = NoCallback
    Apart = FALSE
SPECIFICATION Spec
INVARIANT RequestsStayInTheirContext
CHECK_DEADLOCK FALSE
