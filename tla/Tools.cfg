SPECIFICATION ToolSpec
CONSTANTS
    agent = agent
    console = console
    portal = portal
    NULL = NULL
    Tools = agent
    Instances <- AllInstances
    ManagementCallers <- AgentAndConsole
    AcceptanceCallers <- OnlyPortal
    WorkerCallers <- OnlyConsole
INVARIANTS
    RevealingAnswersAreAuthorized
    InvitesAreForActiveOrganizations
    RefusalIsJustified
    AgentsLearnWhatTheActorMay
    RefusalsSurviveTranslation
CHECK_DEADLOCK FALSE
