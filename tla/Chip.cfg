SPECIFICATION ChipSpec
CONSTANTS
  PAGES = 4  BLOCKS = 2  WORDS = 2  WDT = 1  BOOT = 3  Images = {"a", "b"}  Sizes = {1, 3}  MaxResets = 2
  SIZE = 16  PAGE = 4  WRAP = 32  Limits = {9, 16}  Addresses = {5, 6, 8, 11, 12}
  MODULES = {"PRSPI"}
INVARIANTS
    TypeOK
    
    
    

    
CHECK_DEADLOCK FALSE
