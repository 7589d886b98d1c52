SPECIFICATION Spec
CONSTANT Far = 2
INVARIANT CurrentPosition
