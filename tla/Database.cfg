SPECIFICATION Spec
CONSTANTS
    daemon = daemon
    cli = cli
    request = request
    task = task
    command = command
    t1 = t1
    t2 = t2
    Process = {daemon, cli}
    Thread = {request, task, command}
    ProcessOf <- Threads
    Text = {t1, t2}
    Statements = 2
    MaxStarts = 2
    MaxJobs = 4
INVARIANTS
    TypeOK
    SchemaWhole
    LoneOpenSucceeds
    HitsNotOlder
    OwnWritesDoNotSplitSearch
PROPERTIES
    IndexSurvives
    TransactionsAreWhole
CHECK_DEADLOCK FALSE
