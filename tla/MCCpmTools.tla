----------------------------- MODULE MCCpmTools -----------------------------
(* The programs on the small volumes of MCCpmFS.                           *)
EXTENDS CpmTools, MCCpmFS

Binary   == {FALSE}
TextMode == {TRUE}
BothModes == {FALSE, TRUE}
=============================================================================
