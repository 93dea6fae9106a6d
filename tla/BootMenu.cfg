SPECIFICATION MenuSpec
CONSTANTS
  MAX_BOOT_ENTRIES = 4
  VISIBLE_MENU_ENTRIES = 2
  Names <- MCNames
  KeyChars <- MCKeyChars
  Languages = {"en", "es"}
  LocaleFiles <- MCLocaleFiles
  BuiltIn <- MCBuiltIn
  MAX_SETS = 3
  MAX_CACHED_FONTS = 3
  FontFiles <- MCFontFiles
  MemorySizes = {0, 16}
  MAX_FONTS = 7
  MAX_FONT_CALLS = 7
INVARIANTS
  MenuIndicesValid
  HotkeysDistinct
  LocaleSound
  FontsSound
PROPERTY
  ArrowKeepsVisible
\* the menu ends when an entry is booted or ESC is pressed
CHECK_DEADLOCK FALSE
