SPECIFICATION Spec
INVARIANTS ReadAsSent 
