-------------------------- MODULE MCStreamingRestore --------------------------
(* Two blocks, or one choice; fragments that cut the placeholder [-A] at   *)
(* every place.                                                            *)
EXTENDS StreamingRestore, TLC

MCOpener == <<"[", "-">>
MCCloser == <<"]">>
known == <<"[", "-", "A", "]">>
MCVault == known :> <<"s">>

MCFragments == {<<>>, <<"x">>, <<"[">>, <<"-", "A">>, <<"]", "x">>, known \o <<"x">>, <<"x", "[", "-">>}

NoText == {<<>>}
=============================================================================
