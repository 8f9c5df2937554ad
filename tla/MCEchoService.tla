--------------------------- MODULE MCEchoService ---------------------------
(***************************************************************************)
(* EchoService for TLC: strings around the size of the buffers.            *)
(***************************************************************************)
EXTENDS EchoService

OfLength(string, n) == [name |-> string, len |-> n]

(* One string is a prefix of the next; the last is longer than g_last_sent *)
(* and the one before it fills it: two buffers hold the same text.         *)
BoundaryStrings ==
  <<OfLength(1, ECHO_MAX_LEN - 2), OfLength(1, ECHO_MAX_LEN - 1),
    OfLength(1, ECHO_MAX_LEN + 1)>>

(* The host can fill every place between the cores and go on.              *)
ASSUME MaxSentFillsEverything == MaxSent >= 2 * Slots + Depth + 3
=============================================================================
