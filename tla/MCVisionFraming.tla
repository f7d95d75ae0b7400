-------------------------- MODULE MCVisionFraming ---------------------------
(* Small instances of VisionFraming for TLC.  The byte counts of the code   *)
(* are scaled down, their order kept: AppDataMin < HandshakeMin <=          *)
(* HelloFixed < HelloSuite < SniffMax.                                      *)
EXTENDS VisionFraming

AllPeers     == {"client", "server", "unknown", "foreign", "plain"}
ServerOnly   == {"server"}
ClientOnly   == {"client"}
FrameClasses == {"clientHello", "appData"}
HelloClasses == {"serverHello", "appData", "other"}
NoSid        == {0}
HelloSids    == {0, 2, 3}  \* none, one that just fits in SniffMax, one that does not
=============================================================================
