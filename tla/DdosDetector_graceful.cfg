SPECIFICATION Spec
PROPERTIES
    FinishesGracefully
CHECK_DEADLOCK FALSE
