--------------------------- MODULE ChargePromise ---------------------------
(***************************************************************************)
(* What the service promises about the money of a charge: once OpenPay has *)
(* captured it, its split is stored, then it is credited to the tenant or  *)
(* logged for manual reconciliation, and only then does OpenPay hear that  *)
(* the notification was processed.  No step is ever undone.                *)
(***************************************************************************)
CONSTANT Charges

VARIABLES captured, settled, accounted, acknowledged

stages == <<captured, settled, accounted, acknowledged>>

Init ==
    /\ captured = {}
    /\ settled = {}
    /\ accounted = {}
    /\ acknowledged = {}

Capture(c) ==
    /\ c \notin captured
    /\ captured' = captured \cup {c}
    /\ UNCHANGED <<settled, accounted, acknowledged>>

Settle(c) ==
    /\ c \in captured \ settled
    /\ settled' = settled \cup {c}
    /\ UNCHANGED <<captured, accounted, acknowledged>>

Account(c) ==
    /\ c \in settled \ accounted
    /\ accounted' = accounted \cup {c}
    /\ UNCHANGED <<captured, settled, acknowledged>>

Acknowledge(c) ==
    /\ c \in accounted \ acknowledged
    /\ acknowledged' = acknowledged \cup {c}
    /\ UNCHANGED <<captured, settled, accounted>>

Next ==
    \E c \in Charges : Capture(c) \/ Settle(c) \/ Account(c) \/ Acknowledge(c)

Spec == Init /\ [][Next]_stages
=============================================================================
