CONSTANTS
  RamPages = 8
  RomBytes <- MCRom
  LevelDevices = {"uart", "vid", "tick"}
  MaxRaises = 1
  MaxResets = 1
  Bytes = {0, 1, 127, 128, 129, 255}
  Words = {0, 1, 127, 128, 255, 256, 32767, 32768, 65280, 65535}
  Digits = {0, 1, 5, 8, 9, 10, 19, 49, 50, 90, 91, 99}
  MovedBytes = 3
SPECIFICATION Spec
INVARIANTS TypeOK ComputesRight BlockMoved
PROPERTIES ReturnsIntact IrqServed
