CONSTANTS
  Pipes = {p1, p2, p3}
  PipeCapacity = 2
SPECIFICATION FairSpec
INVARIANTS NoDeafFlag FlagCoversByte NeverStuck
PROPERTIES ConsumeReturns
