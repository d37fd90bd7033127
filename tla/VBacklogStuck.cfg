SPECIFICATION FairSpec
CONSTANTS
  wa = wa
  out = out
  res = res
  tr = tr
  month = month
  derived = derived
  blob = blob
  ann = ann
  ben = ben
  NoBlob = NoBlob
  None = None
  Events = {wa, out, res, tr}
  Files = {month, derived}
  MonthFiles = {month}
  File <- MCFile
  Chat <- MCChat
  Blob <- MCBlob
  Kind <- MCKind
  Source <- MCSource
  MaxPending = 1
  Purgeable = {wa}
  Budgets <- SealOnly
PROPERTIES
  BacklogDrains
