------------------------------ MODULE MCServer ------------------------------
(* An instance of Server for TLC: half a minute a tick.                    *)
EXTENDS Server

(* The clock serves the rate limit only, which neither the notifications   *)
(* nor the end of main touch: it stands while they are explored.           *)
Focus == now > 0 => server = "serving" /\ \A n \in Notices : notice[n] = "none"
=============================================================================
