SPECIFICATION RedeploySpec
CONSTANTS
    app = app
    web = web
    own = own
    Projects = {app, web, own}
    Own = own
    Folder <- OwnFolder
    PathId <- Paths
    StackIds = {1, 2}
    Redeploys = {1, 2}
    MaxReleases = 1
    Worlds <- ThreeWorlds
INVARIANTS OwnUntouched 
PROPERTY DoneIsFresh
