SPECIFICATION FairSpec
CONSTANTS
  n1 = n1
  n2 = n2
  n3 = n3
  None = None
  Node = {n1, n2, n3}
  Deployments <- ThreeDeployments
  Library = {n2}
  MaxFaults = 1
INVARIANTS
  TypeOK
  TablesAgree
  PatientStartsMesh
PROPERTIES
  DoubledCutsOff
CHECK_DEADLOCK FALSE
