CONSTANTS Deployments = {d1, d2}
SPECIFICATION Spec
CHECK_DEADLOCK FALSE
INVARIANT ExpandsCleanly
