SPECIFICATION MCSpec
CONSTANTS
  NInodes = 8
  BlockUnits = 2
  MaxBlocks = 2
  DirChildren = 3
  NFds = 2
  Lens = {3}
  shell = shell
  kid1 = kid1
  kid2 = kid2
  kid3 = kid3
  ShellFds = 7
  NPipes = 2
  RingCap = 1
  EchoWords = 2
  SProcs = {1, 2}
  SFirst = 1
  Signums = {2, 9, 15, 17}
  SIGKILL = 9
  SIGTERM = 15
  SIGCHLD = 17
  Caught = {2}
  MaxAt = 1
  MaxKills = 2
  HandlerCalls = {"kill"}
  TidyExec = FALSE
  TidySleep = TRUE
  Cpus = {1, 2, 3}
  ASpaces = {1, 2}
  VPages = {1}
  MAX_PCID = 3
  Initiators = {1}
  MaxVal = 2
  PageLen = 4
  WordLen = 2
  USER_TOP = 64
  USTACK_TOP = 60
  USTACK_PAGES = 7
  SIGRETURN_TRAMPOLINE_VA = 28
  MAX_LOAD_SEGMENTS = 3
  MAX_ARGV = 2
  MAX_ENVP = 1
  LINE_BUF_SIZE = 5
  MAX_ARGS = 2
  MAX_PIPELINE_STAGES = 2
  CpuIds = {0, 1, 2, 3}
  Bsp = 0
  Gsis = {1, 2}
  MinTicks = 2
  MaxTicks = 3
  CalTicks = {1, 2}
  MAX_CPUS = 3
  MAX_IOAPICS = 2
  MAX_ISOS = 1
  Answering = {{1, 2, 3}, {2}, {1}}
  PromptAps = TRUE
  Fanout = 8
  PageUnits = 2
  EARLY_FRAMES = 28
  PhysLimit = 65536
  PagingAps = {"ap1"}
  MaxTops = 4
  WordMod = 128
  MAX_PCI_DEVICES = 3
  CapGuard = 3
  MAX_QUEUE_SIZE = 2
  RX_BUFFER_COUNT = 2
  IdxMod = 4
  FrameMod = 5
  NetDevices <- MCDevices
CHECK_DEADLOCK FALSE
INVARIANTS
  NoOldContents
  SizesAgree
  SleepersHavePeers
  ContextKept
  ShootdownSound
  NewImageExact
  ParseExact
  ApReady
  NoDeafCpu
  DirectMapSound
  BarsExact
  DeviceSound
  FramesKept
PROPERTY
  SignalsKept
