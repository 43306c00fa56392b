SPECIFICATION Spec
CONSTANTS
  CountMod = 3
  Switches = {0, 1, 2, 3, 8, 9, 10, 11}
  Slots = {0, 7}
  BankAddresses <- MCBankAddresses
  FirmwareByte = 129
  Bytes = {1}
  RomByte = 128
  SlotRomByte = 128
  CardTypes <- MCCardTypes
CONSTRAINT OneLanguageCard
INVARIANTS ShownSwitches MaskedAreControllers
PROPERTY ImplementsMemoryMap
