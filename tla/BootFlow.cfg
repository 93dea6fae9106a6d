SPECIFICATION FlowSpec
CONSTANTS
  KernelFiles <- MCKernelFiles
  BufferAddrs <- MCBufferAddrs
  CorebootMaps <- MCCorebootMaps
  UefiMaps <- MCUefiMaps
  Framebuffers <- MCFramebuffers
  DEFAULT_BASE = 1
  PARAMS_OFFSET = 1
  POLLS = 10
  Timeouts <- MCTimeouts
INVARIANTS
  AutobootAfterFullCountdown
  HandoffHasBootServices
  PromptUsable
CHECK_DEADLOCK FALSE
