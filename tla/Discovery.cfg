SPECIFICATION Spec
CONSTANTS
  Networks <- HostNetworks
  Adverts <- ServerAdverts
  Answers <- ServerAnswers
  MaxSockets = 2
  Servers <- TwoServers
  Local = Local
  AUTO_CONNECT_MAX_TRIES = 2
  MaxChannels = 2
  MaxWakes = 1
  MaxEvents = 2
CHECK_DEADLOCK FALSE
INVARIANTS TypeOK ConnectsToServer
PROPERTIES QuitEnds LightSettles
