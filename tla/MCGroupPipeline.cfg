SPECIFICATION Spec
CONSTANTS
  Update <- MCUpdate
  Chat <- MCChat
  ChatOf <- MCChatOf
  AlbumOf <- MCAlbumOf
  None = None
  Photo = {1, 3}
  Answers = {2}
  Limited = {1, 3}
  MaxAttempts = 2
  Bot = {3}
  MaxPending = 2
  MaxWaiting = 1
  MaxImages = 1
  MaxTroubles = 2
INVARIANTS
  OnlyAlbumsLose
  ShownOnce
PROPERTIES
  AnsweredNeverFails
  EveryGroupUpdateSettles
CHECK_DEADLOCK FALSE
