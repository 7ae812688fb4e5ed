SPECIFICATION Spec
CONSTANT MaxMessages = 2
INVARIANT CompletedIsWhole
PROPERTY InterruptIsDelivered
PROPERTY CommandExits
