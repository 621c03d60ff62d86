SPECIFICATION FairSpec
CONSTANTS
    Partition = {"p", "q"}
    FailureThreshold = 2
    MaxBatch = 1
    None = None
    Shard = {0, 1}
    ShardOf <- MCShardOf
    ChannelSize = 1
    MaxAttempts = 2
    Plan <- MCPlan

  
  
PROPERTIES
  
  EveryRecordIngested
CHECK_DEADLOCK FALSE
