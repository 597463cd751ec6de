SPECIFICATION Spec
CONSTANT Threads = {t1, t2}
PROPERTY StoppedIsNotStarted
CHECK_DEADLOCK FALSE
