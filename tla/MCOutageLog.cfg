\* One line per outage.
SPECIFICATION Spec
CONSTANTS
    q1 = q1
    q2 = q2
    q3 = q3
    Query <- MCTwoQueries
    Count <- MCCount
    MaxOutage = 1
    MaxLines = 2
INVARIANTS
    OneLinePerOutage
