SPECIFICATION Spec
INVARIANTS
  LinesRight
  TextRight
  PiecesRight
  FilesKept
  FilesDone
  Edits
  Found
  PagesRight
  Evaluated
  Collated
PROPERTY Ends
