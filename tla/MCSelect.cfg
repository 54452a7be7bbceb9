CONSTANTS
  Null = Null
  MaxIter = 4
  ColumnsOf <- MCColumnsOf
  Text <- MCText
  PrimaryKeys <- MCPrimaryKeys
  ValuesOf <- MCValuesOf
  KeyOf <- MCKeyOf
  BucketOf <- MCBucketOf
  StartRows <- MCStartRows
  IndexLists <- MCIndexLists
  Depth <- MCDepth
  Asks <- MCAsks
  Wheres <- MCWheres
  Sets <- MCSets
  MaxRows = 3
  MaxStatements = 2
  KnownLimits = {"partial_key", "null_lookup", "pk_prefix", "cut_twice", "early_limit"}
SPECIFICATION Spec
INVARIANTS IndexesHoldRows PlansAgree TargetsAgree AnswersAreExact StatementsAreExact JoinsAreExact ShapesAreExact
CHECK_DEADLOCK FALSE
