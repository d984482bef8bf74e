--------------------------- MODULE MCDeviceLogin ----------------------------
(* DeviceLogin on small clocks. *)
EXTENDS DeviceLogin

\* Lifetimes: not stated, over on arrival, shorter and longer than the timeout.
MCLifetimes == {0, -1, 3, 8}

\* The clocks differ by the skew, or by more.
MCDrifts == {-1, 1, 2}
=============================================================================
