----------------------------- MODULE MCWebFiles -----------------------------
(* Two browsers, two languages, two image names: enough for one browser to *)
(* log in while the other does not, for the two sessions to disagree on    *)
(* the locale, and for a rename/copy between two distinct images.          *)
EXTENDS WebFiles

CONSTANTS c1, c2, en, de, n1, n2

MCAccept == [c \in {c1, c2} |-> IF c = c1 THEN en ELSE de]
=============================================================================
