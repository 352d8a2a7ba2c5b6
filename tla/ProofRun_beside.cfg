\* cooper proof beside a cooper up of the user; docker does what it is told.
INIT ProofInit
NEXT ProofNext
CONSTANTS
  ProofTools = {"claude"}
  MaxProofs = 1
  MaxHiccups = 0
  MaxKills = 1
  MaxSessions = 0
PROPERTIES OnlyOwnTornDown
CHECK_DEADLOCK FALSE
