SPECIFICATION Spec
CONSTANTS
    Scenes <- Troubled
    Absent = Absent
INVARIANTS
    TypeOK
    ReleaseAuthorized
    DepositsConfirmed
    DeliveryFunded
    CompletedIsPaid
CHECK_DEADLOCK FALSE
