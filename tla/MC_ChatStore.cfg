SPECIFICATION FairSpec
CONSTANTS
  c1 = c1
  c2 = c2
  Chats <- MC_Chats
  OldChats <- MC_OldChats
  NoChat = nochat
  NoStream = nostream
  Undefined = undefined
  MaxOpened = 3
  MaxAsked = 2
CHECK_DEADLOCK FALSE
INVARIANTS
  TypeOK
  OwnMessagesIfCalm
  
  OnceUnlessRaced
  SentAsMeant
PROPERTIES
  Settles
