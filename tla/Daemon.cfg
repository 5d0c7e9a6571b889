SPECIFICATION DaemonSpec
CONSTANTS
    MaxOpens = 1
    MaxTrains = 4
    MaxRestarts = 1
    Apart = TRUE
    TrainSaveFails = FALSE
    Roots = {"home", "docs"}
    Home = "home"
    Clients = {"c1", "c2"}
    Broken = Broken
    MaxAsks = 2
INVARIANTS TypeOK  
  
CHECK_DEADLOCK FALSE
