SPECIFICATION VisionSpec
CONSTANTS
  VisionPrompts <- Talks
  TextPrompts <- Chats
  Sampled = {3, 4}
  AnswerMax = 3
  CapPos = 9
INVARIANTS
  NoTailBehindReuse
