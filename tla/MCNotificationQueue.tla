------------------------- MODULE MCNotificationQueue -------------------------
(* Instance of NotificationQueue for TLC: the segments of each message.    *)
EXTENDS NotificationQueue, TLC

TwoChunks == [k \in Keys |-> 2]
=============================================================================
