---------------------------- MODULE MCGatewayAgent ----------------------------
(* Small instances of GatewayAgent: a device with two sessions of different *)
(* speeds, as after buying a faster voucher, and a second device.           *)
EXTENDS GatewayAgent, TLC

CONSTANTS s1, s2, s3, m1, m2

MCSessions == {s1, s2, s3}
MCMacs == {m1, m2}
MCMacOf == (s1 :> m1) @@ (s2 :> m1) @@ (s3 :> m2)
MCSpeedOf == (s1 :> 1) @@ (s2 :> 2) @@ (s3 :> 1)

OneDevice == {s1, s2}
OneMac == {m1}
OneMacOf == (s1 :> m1) @@ (s2 :> m1)
OneSpeedOf == (s1 :> 1) @@ (s2 :> 2)
=============================================================================
