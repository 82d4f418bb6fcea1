------------------------------- MODULE MCKernel -------------------------------
(* Five plugins: a chain whose ends meet (d would feed a service back into   *)
(* the chain that starts with it) and a rival for a service in its middle.   *)
EXTENDS Kernel, TLC

CONSTANTS a, b, c, d, e, s, t, u

MCInjects == a :> {} @@ b :> {s} @@ c :> {s, t} @@ d :> {u} @@ e :> {}
MCOffers == a :> {s} @@ b :> {t} @@ c :> {u} @@ d :> {s} @@ e :> {t}
=============================================================================
