CONSTANTS
  CI = {ci}
  Hand = {h1, h2}
  Given = 2
  Last = 4
SPECIFICATION Spec
SYMMETRY Symmetry
INVARIANT RecordedInOrder
PROPERTIES AppliedOnce SchemaBeforeCode
