SPECIFICATION FairSpec
CONSTANTS
  first = first
  second = second
  third = third
  p1 = p1
  p2 = p2
  foo = foo
  slash = slash
  Actors = {first, second, third}
  Pids = {p1, p2}
  Parts = {p1, p2, foo, slash}
  DefaultName <- Foo
  Slash = slash
  Scenarios <- MCScenarios
INVARIANTS SocketsArePrivate NothingLeftBehind HonestStart ReachesTheOneMeant FoundIfThere
PROPERTIES WipeTakesOnlyTheDead EveryRunAnswers
CHECK_DEADLOCK FALSE
