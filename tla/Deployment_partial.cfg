CONSTANT Entries = 2
SPECIFICATION Spec
INVARIANT RootsComplete
