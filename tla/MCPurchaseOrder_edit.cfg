\* An edit that was admitted in draft is written after the submission.
SPECIFICATION Spec
CONSTANTS
    Lines = {l1}
    Quantities = {1}
    Clients = {c1, c2}
    MaxEdits = 1
PROPERTY EditsOnlyInDraftOrRejected
\* A closed or cancelled order stays as it is.
CHECK_DEADLOCK FALSE
