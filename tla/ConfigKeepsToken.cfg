CONSTANTS
  serve = serve
  main = main
  NoThread = NoThread
  Threads = {main}
  ProcOf <- MCProcOf
  Env <- MCEnv
  Offers <- MCOffers
SPECIFICATION Spec
PROPERTY EnvironmentStaysOut
