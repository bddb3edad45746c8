CONSTANTS
    c1 = c1
    c2 = c2
    en = en
    de = de
    n1 = n1
    n2 = n2
    Clients = {c1, c2}
    Langs = {en, de}
    Names = {n1, n2}
    NoLang = NoLang
    AuthActive = TRUE
    Accept <- MCAccept
SPECIFICATION Spec
PROPERTY NewImageReported
