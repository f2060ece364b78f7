CONSTANTS
    Processes = {old, new}
    Buckets = {ingress}
    Files = {file}
    MaxUploads = 2
    MaxHistory = 3
SPECIFICATION Spec
INVARIANTS TypeOK
PROPERTIES KeepsHistory AnswersAreTrue
