SPECIFICATION Spec
CONSTANTS
  KernelFiles <- MCKernelFiles
  BufferAddrs <- MCBufferAddrs
  CorebootMaps <- MCCorebootMaps
  UefiMaps <- MCUefiMaps
  Framebuffers <- MCFramebuffers
  DEFAULT_BASE = 1
  PARAMS_OFFSET = 1
INVARIANTS
  JumpReady
  CorebootFailsBeforeExit
  HandoffReleased
PROPERTY
  ImplementsContract
CHECK_DEADLOCK FALSE
