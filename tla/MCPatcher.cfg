SPECIFICATION PatcherSpec
CONSTANTS
  Firmwares <- MCFirmwares
  CodeEnd = 14
  \* every remainder modulo 4
  Sizes = {16, 17, 18, 19}
  Wrapped = {"draw_text", "content_size"}
  Injected = {"render_wrap", "unshape"}
  Returning = {"render_wrap"}
  code_size <- MCCodeSize
  BOOTLOADER = 8
  FOOTER = 1
  \* too small for some of the images
  FLASH = 52
  PATCH_LENGTH = 26
CHECK_DEADLOCK FALSE
INVARIANTS
  BranchesLand
  DetourComplete
  RestOfImageKept
