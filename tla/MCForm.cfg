SPECIFICATION FormSpec
CONSTANTS
  File = {f, g}
  Readable = {f, g}
  Flow = {n1, n2}
  Extra = {x1}
  FormMishaps = {"loss", "close", "signout"}
SYMMETRY FormSymmetry
INVARIANTS
  SubmissionInv
  AttachmentsStored
  UntouchedFilesAreSent
  SubmittingIsOneFlow
  FailedSubmitKeepsFiles
