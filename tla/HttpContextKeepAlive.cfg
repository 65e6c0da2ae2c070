SPECIFICATION Spec
CONSTANTS
    Requests <- MCPostAndGet
    Arrives = "whole"
    MaxRequests = 2
CHECK_DEADLOCK FALSE
PROPERTY
    ParseReturns
