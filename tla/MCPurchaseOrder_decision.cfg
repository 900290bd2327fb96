\* A decision is read from one submission and lands on the next.
SPECIFICATION Spec
CONSTANTS
    Lines = {l1}
    Quantities = {1}
    Clients = {c1, c2}
    MaxEdits = 1
PROPERTY DecisionOnCurrentSubmission
\* A closed or cancelled order stays as it is.
CHECK_DEADLOCK FALSE
