SPECIFICATION Spec
CONSTANTS
  Cap = 2
  CharClocks = 2
  MaxBytes = 5
  MaxSends = 2
  Prompt = FALSE
INVARIANT
  ToldIsRead
