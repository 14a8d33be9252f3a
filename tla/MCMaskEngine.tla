---------------------------- MODULE MCMaskEngine ----------------------------
(* Two requests, terms that overlap each other, a term that occurs inside  *)
(* placeholders, case variants, and codes that collide.                    *)
EXTENDS MaskEngine

CONSTANTS r1, r2, sA, sB

MCOpener == <<"[", "-">>
MCCloser == <<"]">>

MCFold(c) == IF c = "T" THEN "t" ELSE c

MCWords == {[word |-> <<"t">>, cs |-> FALSE],
            [word |-> <<"t", "u">>, cs |-> FALSE],
            [word |-> <<"A">>, cs |-> TRUE]}

MCPatterns == <<[name |-> <<"R">>, language |-> {<<"u">>, <<"u", "u">>}]>>

(* Truncated digests: "t" and "R" collide.                                 *)
MCCode(scope, term) ==
    CASE term = <<"t">> -> <<"A">>
      [] term = <<"R">> -> <<"A">>
      [] term = <<"t", "u">> -> <<"T">>
      [] term = <<"A">> -> <<"2">>

(* Two scopes, one code each.                                              *)
MCScopedCode(scope, term) == IF scope = sA THEN <<"A">> ELSE <<"T">>

MCSuffixes == << <<"-", "2">>, <<"-", "3">> >>

MCTexts == BoundedSeq({"t", "T", "u", "A"}, 3)

ShortTexts == BoundedSeq({"t", "T"}, 2)

(* A term followed by what looks like a disambiguator.                     *)
SuffixTexts == {<<"t">>, <<"t", "-", "2">>, <<"u">>}

(* A placeholder typed by a user, or quoted from another conversation.     *)
QuotedTexts == {<<"t">>, <<"[", "-", "A", "]">>}
=============================================================================
