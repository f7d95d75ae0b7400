--------------------------- MODULE MCVlessStream ----------------------------
(* A small instance of VlessStream: the longest response header, two bytes  *)
(* and the addons, exceeds the buffer by one byte, as 2 + 255 exceeds 256.  *)
EXTENDS VlessStream

SmallAddons == {0, 1, 3}
=============================================================================
