CONSTANTS
  User = {sender, receiver, second_sender}
  Closer = {core, reader, destructor}
  Unblock = TRUE
SPECIFICATION FairSocketSpec
INVARIANT DescriptorIsOurs
PROPERTY CloseReturns
