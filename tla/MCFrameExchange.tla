--------------------------- MODULE MCFrameExchange ---------------------------
(* The ends of every range, the values at which a byte carries over, and   *)
(* those that the encoders treat specially.                                *)
EXTENDS FrameExchange

MCOctets == {0, 1, 3, 4, 5, 6, 7, 50, 100, 101, 173, 174, 255}

MCWords == {-32768, -1, 0, 1, 255, 256, 32767}

MCLongs == {-2147483647 - 1, -65536, -1, 0, 255, 65536, 2147483647}

MCMit ==
  {-500, -450, -161, -160, -126, -80, -51, -50, -1, 0, 1, 49, 50, 80, 125,
   126, 160, 450, 5000, 5001}

=============================================================================
