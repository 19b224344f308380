---------------------------- MODULE MC_EfuServer ----------------------------
(* Small instances of EfuServer for TLC. *)
EXTENDS EfuServer, TLC

CONSTANTS img0, img1, img2, img3

\* A factory image of a page and a half, one that fills the slot, one that
\* cannot fit, and an empty file.
MCImage == {img0, img1, img2, img3}
MCSizes == img0 :> 3 @@ img1 :> 4 @@ img2 :> 7 @@ img3 :> 0
=============================================================================
