SPECIFICATION Spec
CONSTANTS
  Shops = {s1, s2}
  Variants = {a, b}
  MaxTasks = 2
  Stock = 2
  MaxCarts = 2
  MaxCartMoves = 3
  MaxSections = 5
  MaxTexts = 1
  MaxDocEdits = 5
  Langs = {en, he}
  MaxWords = 1
  MaxItems = 2
  Keys = {"home", "about"}
  TemplatePages = {"home", "about"}
  MaxContents = 2
  MaxVersions = 1
  MaxRequests = 2
  MaxEditorMoves = 3
  MaxActions = 2
  MaxClicks = 2
  MaxFaults = 1
  Extra = {"ar"}
  MaxFormMoves = 3
  MaxWrites = 2
  SiteLangs = {"en", "he"}
  MaxNav = 2
  MaxSettingEdits = 4
  MaxOthers = 1
  MaxProducts = 2
  MaxActs = 3
  MaxLoads = 2
INVARIANTS
  IdleCartIsTrue NoLostClick NoSectionLost TypedIsKept  DraftsAreSafe
  CardTellsTruth   ListIsTrue
CHECK_DEADLOCK FALSE
