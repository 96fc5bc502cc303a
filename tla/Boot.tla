-------------------------------- MODULE Boot --------------------------------
(***************************************************************************)
(* What the tftpboot command promises its user: it loads an image, piece   *)
(* by piece, and either enters it when the whole of it is in memory, or    *)
(* fails and may be given again.                                           *)
(***************************************************************************)
VARIABLES
    status,               \* "idle", "busy" loading, or "booted"
    image                 \* how much of the image the last load has stored

vars == <<status, image>>

Init == status = "idle" /\ image = "none"

Start == status = "idle" /\ status' = "busy" /\ image' = "none"

Load ==
    /\ status = "busy" /\ image # "whole"
    /\ image' \in {"part", "whole"}
    /\ UNCHANGED status

Enter ==
    /\ status = "busy" /\ image = "whole"
    /\ status' = "booted"
    /\ UNCHANGED image

Fail == status = "busy" /\ status' = "idle" /\ UNCHANGED image

Next == Start \/ Load \/ Enter \/ Fail

Spec == Init /\ [][Next]_vars
=============================================================================
