SPECIFICATION Spec
CONSTANTS
    founder = founder
    a = a
    b = b
    Users = {founder, a, b}
    Founder = founder
    Roles = {"owner", "manager"}
    Tiers = {"starter", "trial"}
    Trial = "trial"
    Seats <- MCSeats
    Clients = {c1, c2}
INVARIANT AccountsSound
PROPERTIES NoOverbooking DisabledForGood
SYMMETRY Symmetry
CHECK_DEADLOCK FALSE
