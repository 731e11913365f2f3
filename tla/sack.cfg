\* The tests with their own tables, two calls that err, two wrong fields in a frame.
CONSTANTS
  MaxErrors = 2
  MaxEdits = 2
SPECIFICATION Spec
INVARIANTS TypeOK FaultlessPasses ErrorsAreFound AcceptedIsRight
