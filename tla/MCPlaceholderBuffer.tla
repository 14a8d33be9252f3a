------------------------- MODULE MCPlaceholderBuffer -------------------------
(* The format "[-{code}]" with one-character codes over {A, 2}: every role *)
(* a character of "[LEX-ABCD2345]-2" can play, in an alphabet of five, and *)
(* the format "<<{code}>>" of the engine's tests, shortened to "<{code}>". *)
EXTENDS PlaceholderBuffer, TLC

MCOpener == <<"[", "-">>
MCCloser == <<"]">>
AngleOpener == <<"<">>
AngleCloser == <<">">>

plain   == <<"x">>
known   == <<"[", "-", "A", "]">>
unknown == <<"[", "-", "2", "]">>
second  == known \o <<"-", "2">>
angle   == <<"<", "A", ">">>

MCVault == (known :> <<"s">>) @@ (second :> <<"t">>) @@ (angle :> <<"s">>)

(* Messages in which no placeholder is followed by a hyphen and a digit.   *)
NoSuffixPieces == {plain, known, unknown, <<"[">>, <<"[", "-">>, <<"-">>, <<"]">>}

SuffixPieces == {plain, known, second}

AnglePieces == {plain, angle}
=============================================================================
