CONSTANTS
    c1 = c1
    en = en
    n1 = n1
    n2 = n2
    Clients = {c1}
    Langs = {en}
    Names = {n1, n2}
    NoLang = NoLang
    NoId = NoId
    NoName = NoName
    Free = Free
    NoMedium = NoMedium
    AuthActive = TRUE
    Accept <- MCAccept
    Ids <- MCIds
    Memos <- MCMemos
SPECIFICATION DevSpec
PROPERTY DeviceChangeAnswered
