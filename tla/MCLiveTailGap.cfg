SPECIFICATION Spec
CONSTANTS
  MaxLines = 3
  MaxMs = 2
  Take = 2
INVARIANT
  NoLineMissed
