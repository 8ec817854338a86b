CONSTANTS
  UcharSize = 4
  Args <- MCArgs
SPECIFICATION Spec
INVARIANTS
  CountsSent
