CONSTANTS
    MaxIds = 2
    Slugs = {demo}
    NatsHandlers = {nats}
    HttpHandlers = {http}
    MaxFaults = 1
SPECIFICATION FairSpec
CHECK_DEADLOCK FALSE
INVARIANT TypeOK
INVARIANT ReadyMeansRunnable
PROPERTY EventuallyReady
PROPERTY ImplementsProvisioner
