CONSTANTS
    c1 = c1
    en = en
    de = de
    n1 = n1
    n2 = n2
    Clients = {c1}
    Langs = {en, de}
    Names = {n1}
    NoLang = NoLang
    NoId = NoId
    NoName = NoName
    Free = Free
    NoMedium = NoMedium
    NoConfig = NoConfig
    NoLevel = NoLevel
    Idle = Idle
    AuthActive = TRUE
    Accept <- MCAccept
    Ids <- MCIds
    Memos <- MCMemos
    CfgNames <- MCCfgNames
    LogLevels <- MCLogLevels
    Default = dflt
    dflt = dflt
    DefaultLevel = "info"
    SourceLang = en
    WebToken = FALSE
    Apps <- MCApps
    AllowedApps <- MCAllowedApps
SPECIFICATION SysSpec
INVARIANT SysTypeOK MemoOnlyForReserved
PROPERTY ErrorAnswerChangesNoDevice LanguageSticky
VIEW MCView
