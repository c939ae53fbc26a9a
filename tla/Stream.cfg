\* Three readers and the writer on streams that are cut anywhere.
SPECIFICATION FairSpec
CONSTANTS
  Radix = 2
  Packets <- SomePackets
  Function <- AllFunctions
  BufLen = 7
  Beyond = 9
  MaxSent = 2
  MaxWrite = 2
INVARIANTS SentInStep
PROPERTIES ReadsInStep EverythingIsRead
