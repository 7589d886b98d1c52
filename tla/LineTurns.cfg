SPECIFICATION FairSpec
CONSTANT Far = 2
INVARIANT RightWhenAlone
PROPERTY CommandEnds
