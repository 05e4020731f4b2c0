SPECIFICATION PartsSpec
CONSTANTS
  s1 = s1
  s2 = s2
  Unanswered = Unanswered
  NoNews = NoNews
  Null = Null
  Sensors <- MCSensors
  Dead <- MCDead
  Threshold = 1
  Cooldown = 2
  MaxAttempts = 2
  MaxPerCycle = 1
  MinStalled = 1
  EscCooldown = 1
  MaxRestarts = 1
  MaxFaults = 2
  StreamsGiven <- MCStreams
  FeedGiven <- MCFeed
  PipelineGiven <- MCPipeline
  GraphGiven <- MCGraph
  FootageGiven <- MCFootage
  MediaGiven <- MCMedia
  GpuGiven <- MCGpu
  StorageGiven <- MCStorage
  GuardsGiven <- MCGuards
  TuningGiven <- MCTuning
  ChatGiven <- MCChat
  AgentGiven <- MCAgent
  SecretsGiven <- MCSecrets
  HomeGiven <- MCHome
  DoctorGiven <- MCDoctor
  VaultGiven <- MCVault
  TransferGiven <- MCTransfer
  ReportsGiven <- MCReports
  CopiesGiven <- MCCopies
  RaceGiven <- MCRace

INVARIANTS TypeOK RearmsAreCapped DegradedIsFinal    
PROPERTIES RearmsAreSpaced  
CHECK_DEADLOCK FALSE
