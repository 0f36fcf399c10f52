SPECIFICATION Spec
CONSTANTS
    t1 = t1
    service = service
    Threads = {t1}
    Types = {service}
PROPERTY
    MakeReturns
CHECK_DEADLOCK FALSE
