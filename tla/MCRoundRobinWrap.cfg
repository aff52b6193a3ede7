CONSTANTS
    NDevices <- MCNDevices3
    Present <- MCPresent3
SPECIFICATION Spec
PROPERTY RoundRobinRotates
