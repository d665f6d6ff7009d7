------------------------------- MODULE MCZone -------------------------------
(* Instances of Zone for TLC: which disturbances strike, and how often.    *)
EXTENDS ZoneProperties, TLC

Some(ds) == [d \in Disturbances |-> IF d \in ds THEN 1 ELSE 0]

Toggled    == Some({"toggle"})
OneFailure == Some({"rpc"})
OneDrop    == Some({"drop"})
OneCrash   == Some({"crash"})
Failures   == Some({"rpc", "crash", "restart", "volume", "scan"})
Visited    == Some({"rpc", "drop", "crash", "user"})

Symmetric == Permutations(Requests)
=============================================================================
