---------------------------- MODULE MCWebDevices ----------------------------
(* One browser (logged in or out), one language, two images and two SCSI  *)
(* IDs: an image can be attached at one ID while the other is reserved,    *)
(* and both IDs can be reserved or occupied at once.                       *)
EXTENDS WebDevices

CONSTANTS c1, en, n1, n2

MCAccept == [c \in {c1} |-> en]
MCIds == {0, 1}
MCMemos == {"", "memo"}
=============================================================================
