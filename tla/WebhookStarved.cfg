SPECIFICATION FairSpec
CONSTANTS
  e1 = e1  web = web  gone = gone  h1 = h1  h2 = h2
  None = None
  Events = {e1}
  Endpoints = {web, gone}
  Gone = {gone}
  Handlers = {h1}
  Attempts = 3
  Limit = 1
  MaxFaults = 0
  MaxCrashes = 0
PROPERTIES RowsAreReplayed
