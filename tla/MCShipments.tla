----------------------------- MODULE MCShipments -----------------------------
(* Small instances of Shipments for TLC. *)
EXTENDS Shipments, TLC

CONSTANTS s1, s2, h1, h2, h3, h4

\* Two requests of one seller, one of the other, one of the admin; only s1 has a shipment at first.
Everyone == h1 :> s1 @@ h2 :> s1 @@ h3 :> s2 @@ h4 :> Admin
FirstExists == s1 :> "pending" @@ s2 :> "none" @@ Admin :> "none"
=============================================================================
