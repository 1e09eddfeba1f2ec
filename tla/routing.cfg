\* Every context within two fields of all-clear under every risk class, every kind of agent.
CONSTANTS
  Context <- Near
  AgentLists <- Lists
SPECIFICATION RouteSpec
INVARIANTS PublicationIsFullyGated StoppedAgentsWait
CHECK_DEADLOCK FALSE
