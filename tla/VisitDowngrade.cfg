\* One tab, and the other devices of the member.
SPECIFICATION VisitsSpec
CONSTANTS
    Page = {t1}
    NoStatus = NoStatus
PROPERTIES
    OpeningNeverDowngrades
CHECK_DEADLOCK FALSE
