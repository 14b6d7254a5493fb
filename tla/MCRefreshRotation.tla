------------------------- MODULE MCRefreshRotation -------------------------
(* Values TLC gives the constants of RefreshRotation: two tabs that share a    *)
(* browser's tokens, and a second browser, each tab with one call at a time.   *)
EXTENDS RefreshRotation, TLC

CONSTANTS x, y, t1, t2, t3, c1, c2, c3

TwoBrowsers == {x, y}
ThreeTabs == {t1, t2, t3}
TabsBrowsers == t1 :> x @@ t2 :> x @@ t3 :> y
ThreeCalls == {c1, c2, c3}
CallsTabs == c1 :> t1 @@ c2 :> t2 @@ c3 :> t3

\* The two tabs of one browser, each with its call.
Interchangeable == {t1 :> t2 @@ t2 :> t1 @@ c1 :> c2 @@ c2 :> c1}

=============================================================================
