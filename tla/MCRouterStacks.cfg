CONSTANT NDevices <- MCNDevices
SPECIFICATION Spec
INVARIANT SiblingStackPreferred
