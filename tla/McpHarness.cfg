\* Two calls of InitMCPClients, one of Close, and others, for two servers.
SPECIFICATION Spec
CONSTANT c1 = c1
CONSTANT c2 = c2
CONSTANT i1 = i1
CONSTANT i2 = i2
CONSTANT u1 = u1
CONSTANT m1 = m1
CONSTANT m2 = m2
CONSTANT toolX = toolX
CONSTANT toolY = toolY
CONSTANT toolZ = toolZ
CONSTANT Clients <- MCClients
CONSTANT ToolsOf <- MCToolsOf
CONSTANT Discovered <- MCDiscovered
CONSTANT Inits = {i1, i2}
CONSTANT Closers = {p}
CONSTANT Users = {u1}
CONSTANT UserTool <- MCUserTool
CONSTANT Makers = {m1, m2}
CONSTANT MakerTool <- MCMakerTool
CONSTANT None = None
SYMMETRY Symmetry
INVARIANT SessionKept
INVARIANT AllOrNothing
PROPERTY RegistrationsStay
\* Every call ends.
CHECK_DEADLOCK FALSE
