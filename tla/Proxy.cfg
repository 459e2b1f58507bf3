SPECIFICATION Spec
CONSTANTS
  Handlers = {h1, h2, h3}
  Servers = {s1, s2}
  NoServer = NoServer
  MaxAborts = 1
PROPERTIES
  SettledIsKept
