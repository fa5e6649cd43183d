--------------------------- MODULE MCAlohaNetwork ---------------------------
(* Three senders, two of them on one band, with two packets each: at one   *)
(* instant (interval 0), or one and a probe for the other (interval 1),    *)
(* which with an interval of 3 finds nothing.                              *)
EXTENDS AlohaNetwork

CONSTANTS b1, b2

TwoShareABand == <<b1, b1, b2>>
=============================================================================
