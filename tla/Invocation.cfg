SPECIFICATION Spec
CONSTANTS
    rack = rack
    home = home
    office = office
    usual = usual
    other = other
    agent1 = agent1
    agent2 = agent2
    None = None
    Device = {rack}
    Addr = {home, office}
    Socket = {usual, other}
    DefaultSocket = usual
    MaxLines = 4
    Agent = {agent1, agent2}
    Client = {client}
    Starts <- MCStarts
    Runs <- MCRuns
CHECK_DEADLOCK FALSE
INVARIANTS
    TypeOK
    FileMeansItsLines
    NamedDevice
    ProfileReachesItsAgent
PROPERTIES
    ServingAgentIsFound
    StopCompletes
