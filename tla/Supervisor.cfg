SPECIFICATION SupervisorSpec
CONSTANTS
  q1 = q1
  q2 = q2
  Tasks <- MCTasks
  Requests <- MCRequests
  MaxFaults = 4
INVARIANTS SupervisorTypeOK PoolOutlivesTasks
PROPERTIES FailsTogether Recovers
