----------------------------- MODULE MCPolyCopy -----------------------------
(* Instances of PolyCopy for TLC. *)
EXTENDS PolyClaims, TLC

CONSTANTS w, v, a, b, x, y, f, g, h

\* One leader, one seat; two fills of one token or of two.
OneAddr == a :> w
PairMaker == f :> w @@ g :> w
PairTokens == f :> x @@ g :> y
OneToken == f :> x @@ g :> x

\* A purchase, its sale and another purchase.
ThreeFills == f :> w @@ g :> w @@ h :> w
SameToken == f :> x @@ g :> x @@ h :> x

\* Two leaders with a seat each.
TwoAddr == a :> w @@ b :> v
TwoMakers == f :> w @@ g :> v

\* One leader with two seats.
SharedAddr == a :> w @@ b :> w
=============================================================================
