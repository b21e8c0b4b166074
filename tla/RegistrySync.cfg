SPECIFICATION Spec
CONSTANTS
  x1 = x1
  x2 = x2
  main = main
  dev = dev
  echo = echo
  work = work
  ours = ours
  theirs = theirs
  e1 = e1
  e2 = e2
  w1 = w1
  h1 = h1
  Runs <- TwoRuns
  Refs <- TwoRefs
  Main = main
  Bots <- TwoBots
  Repos <- TwoRepos
  Versions <- Three
  Handmade <- Written
  SlugOf <- Slugs
  RepoOf <- Origins
  FilesOf <- Files
  IgnoredOf <- Ignored
  Runnable <- Passing
  First <- EchoByHand
  MaxEvents = 3
  MaxCommits = 1
INVARIANT PinFollowsCopy
INVARIANT OutageIsInLock
PROPERTY SyncKeepsOthers
PROPERTY SyncKeepsLoading
SYMMETRY Equal
