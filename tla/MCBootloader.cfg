CONSTANTS
  ByteMax = 4
  WordBytes = 2
  Elfs <- MCElfs
  RamBytes = 10
  FlashBytes = 24
  SPI_FLASH_SECTOR_SIZE = 12
  AUTO_BOOT_TIMEOUT = 1
  DEFAULT_EXE_ADDR = 0
  MaxKeys = 4
  MaxFaults = 1
  Uploads <- MCUploads
  FlashImages <- MCFlashImages
  Files <- MCFiles
SPECIFICATION Spec
INVARIANTS ExecutableVerified AppStartsQuiet UploadDecided StoredImageLoads
PROPERTY AutoBootSettles
CHECK_DEADLOCK FALSE
