CONSTANTS
  NPROC = 6
  NOFILE = 6
  NFILE = 4
  NPIPE = 2
  MaxTyped = 1
  Commands <- commands
SPECIFICATION FairSpec
   
PROPERTIES PromptReturns
