------------------------------- MODULE MCBoot -------------------------------
(* Boot for TLC: pages of 128 bytes, 128 frames, 12 pages in a table.       *)
EXTENDS Boot

MCBuilds == {"Dec 3", "Dec 7", "current"}
MCPages == 0..71
MCImageEnds == {128, 129, 255, 256, 384}
MCStaleFrames == {{}, 32..127}
=============================================================================
