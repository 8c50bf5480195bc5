SPECIFICATION Spec
CONSTANTS
  tell = tell  ask = ask  askNew = askNew  stream = stream
  chat = chat  chatNew = chatNew
  Calls = {call1}
  Methods <- MCMethods
  InteractionOf <- MCInteractionOf
  Namespace = ns
  Service = svc
  ServerVersions <- MCServerVersions
  MetadataLengths = {0, 1}
  MaxSubscriptions = 2
  MaxElements = 2
  NULL = NULL
INVARIANTS TypeOK ReleasedOnce ParsedAlive KnownLeaks RoutedByOwnIds
  RequestsCarryIds KnownStaleReads
CHECK_DEADLOCK FALSE
