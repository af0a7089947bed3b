SPECIFICATION LiveSpec
CONSTANTS
    t1 = t1
    t2 = t2
    c1 = c1
    Thread <- MCThread
    Child <- MCChild
    Traced = traced
    Nobody = nobody
    PipeSize = 1
CHECK_DEADLOCK FALSE
PROPERTY ParserQuitsWhenTold
