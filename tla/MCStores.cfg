SPECIFICATION Spec
CONSTANTS
  Session = {p, q}
  Content = {a, b}
  Slug = {"s", "t"}
  Criterion = {1}
  PromptItems = 2
  Scenarios <- MCScenarios
SYMMETRY Symmetry
INVARIANTS
  
  NotesKept
  SpecsApart
CHECK_DEADLOCK FALSE
