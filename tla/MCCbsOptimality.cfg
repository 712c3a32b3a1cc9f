CONSTANTS
  Problems <- MCProblems
  Agents <- MCAgents
  PlansOf <- MCPlansOf
  PlanCost <- MCPlanCost
  Allows <- MCAllows
  LowLevel <- MCLowLevel
  FirstConflict <- MCFirstConflict
  ConstraintsFor <- MCConstraintsFor
  ConstraintSets <- MCConstraintSets
  Limit <- MCLimit
SPECIFICATION Spec
INVARIANTS
  TypeOK
  CheapestFound
  NoneMeansNone
PROPERTY
  Ends
