SPECIFICATION Spec
CONSTANTS
  None = None
  Components = {"fade", "scope", "script", "xkb", "languages"}
  Duration = 2
  MaxStarts = 3
  MaxSets = 6
  MaxClockSets = 1
  Tasks = {1, 2}
  Pids = {1}
  AppNames <- TestAppNames
  Runs = {1, 2}
  us = us
  fr = fr
  intl = intl
  alt = alt
  grp = grp
  en = en
  eng = eng
  FR = FR
  zz = zz
  RulesFiles <- TestRulesFiles
  LayoutNames = {us, fr, intl, alt, grp}
  LayoutCodes = {en, eng, FR, zz}
  CodeNames <- TestCodeNames
  MaxParses = 3
  Libcs <- TestLibcs
  Listings <- TestListings
  Translations <- TestTranslations
  LanguageEntries <- TestLanguageEntries
  TerritoryEntries <- TestTerritoryEntries
  Messages <- TestMessages
  Capitals <- TestCapitals
  Modifiers <- TestModifiers
  InputSources <- TestInputSources
  Locales <- TestLocales
  Codes = {"cat", "AT", "C"}
  InLanguages <- TestInLanguages
  LcMessages <- caES
CHECK_DEADLOCK FALSE
INVARIANTS TypeOK EveryFadeFinishesOnce SuccessMeansMoved NamesCanBeExtracted
  NothingLeftBehind LayoutTablesAreSound LocalesAreUsable NamesTellLocalesApart
PROPERTIES EverySourceEnds EveryTaskIsAnswered
