SPECIFICATION StartSpec
CONSTANTS
  admin = admin
  alice = alice
  short = short
  long = long
  extra = extra
  Users <- MCUsers
  Admin = admin
  Tokens <- MCTokens
  Long <- MCLong
  Configured <- MCConfigured
  MaxStops = 2
  MaxVersion = 2
  u1 = u1
  strong = strong
  strong2 = strong2
  weak = weak
  Files <- MCFiles
  Yamls <- MCYamls
  WeakSecrets <- MCWeak
  BodyDefault = 2
  QueueDefault = 3
  NoFile = NoFile
  Broken = Broken
  Empty = Empty
  Garbage = Garbage
  Blank = Blank
INVARIANTS TokensSurvive OldSessionsEnd 
PROPERTIES SessionsSurviveRestart EventuallyServes
