SPECIFICATION FairSpec
CONSTANTS
  Parts <- MCParts
  Local <- MCLocal
  Scripted <- MCScripted
  Channel <- MCChannel
  Fetchers = {f1, f2}
  Files = {i1, i2, i3}
  Blocks = 2
  MaxStops = 1
  NoFile = NoFile
INVARIANTS TypeOK WholeOnDisk NothingMissing CheckedMeansThere SomebodyWins
PROPERTY EventuallyFetched
