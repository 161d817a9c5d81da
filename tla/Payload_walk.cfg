\* Every payload of up to four pushes, every way to read and drop it.
SPECIFICATION FairSpec
CONSTANTS
  ObjectKinds = {"binder", "gone", "fd", "buffer"}
  MaxPushes = 4
  MaxBytes = 2
INVARIANTS TypeOK RoundTrip ObjectsDisjoint EachObjectOnce EchoFaithful
PROPERTY DropEnds
CHECK_DEADLOCK FALSE
