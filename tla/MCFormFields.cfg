SPECIFICATION FormSpec
CONSTANTS
  File = {f, g}
  Readable = {f}
  Flow = {n1, n2}
  Extra = {x1}
  FormMishaps = {}
INVARIANTS
  StoredFieldsAreValid
