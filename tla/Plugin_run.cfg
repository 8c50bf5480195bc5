SPECIFICATION RunSpec
CONSTANTS
  Chars <- MCChars
  Comments <- MCComments
  Words <- MCWords
  Namespaces <- MCNamespaces
  Committed <- MCCommitted
  Packages <- MCPackages
  ServiceLists <- MCServiceLists
  Parameters <- MCParameters
  Files <- MCFiles
  CommentLength = 4
  NameLength = 4
INVARIANTS ClosesAtEnd ReadsBack NamesKeepLetters SameHash KeysDiffer EveryClassFound
CHECK_DEADLOCK FALSE
