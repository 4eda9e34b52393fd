SPECIFICATION FairSchedulerSpec
CONSTANTS
  plain = plain
  image = image
  slash = slash
  Prompt = {plain, image, slash}
  Slash = {slash}
  Attachment = {image}
  MaxRestores = 1
INVARIANTS NothingVanishes FirstAttemptsInOrder
PROPERTY FlushedAfterCompaction
CHECK_DEADLOCK FALSE
