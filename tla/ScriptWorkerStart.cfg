CONSTANT MaxStarts = 3
SPECIFICATION Spec
PROPERTY StartFindsIdle
