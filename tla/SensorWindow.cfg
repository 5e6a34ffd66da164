SPECIFICATION Spec
CONSTANTS
  Res = {qvga, vga, uxga}
  Qvga = qvga
INVARIANTS
  UxgaFirst
