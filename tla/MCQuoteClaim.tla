---------------------------- MODULE MCQuoteClaim ----------------------------
(* Instances of QuoteClaim for TLC.                                        *)
EXTENDS QuoteClaim, TLC

CONSTANTS c1, c2, d1, d2, q1, q2

\* Two tabs of one device; two devices.
OneDevice == (c1 :> d1) @@ (c2 :> d1)
TwoDevices == (c1 :> d1) @@ (c2 :> d2)

\* Each quote is waited for in one context; in both.
OneWatcher == {<<c1, q1>>, <<c2, q2>>}
AllWatch == Context \X Quote

=============================================================================
