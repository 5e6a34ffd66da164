SPECIFICATION Spec
CONSTANTS
  Res = {qvga, vga, uxga}
  Qvga = qvga
INVARIANTS
  TypeOK
  InItsBank
  Configured
  BootLasts
PROPERTIES
  ConfigSteps
