------------------------------ MODULE MCClients ------------------------------
(* Instances of Clients for TLC: how often each deed may be done.          *)
EXTENDS Clients, TLC

\* Five toggles: two clients on, off and on again, one of them twice stored.
Everything ==
    "toggle" :> 5 @@ "scan" :> 1 @@ "install" :> 2 @@ "crash" :> 1 @@ "disk" :> 1

\* Nothing fails; the administrator scans without having installed the snippet.
Careless ==
    "toggle" :> 5 @@ "scan" :> 1 @@ "install" :> 1 @@ "crash" :> 0 @@ "disk" :> 0

Symmetric == Permutations(Clients) \cup Permutations(Tabs)
=============================================================================
