------------------------------ MODULE MCStartup ------------------------------
(* Two workers on one vault file.  Every dictionary of two entries (equal  *)
(* ones count as one) with usual settings, and every other kind of setting *)
(* with one of them.                                                       *)
EXTENDS Startup

CONSTANTS p1, p2, bad

MCSpellings == {"Titan", "titan", "TITAN"}

MCLower == [s \in MCSpellings |-> "titan"]

Dictionaries ==
    LET entries == {Term("Titan", FALSE), Term("titan", FALSE), Term("titan", TRUE)}
    IN  {<<>>} \cup {<<a, b>> : a, b \in entries}

File(terms, regexes) == [terms |-> terms, regex_terms |-> regexes]

Usual == [params |-> [org_key            |-> "reference",
                      dictionary_path    |-> "given",
                      placeholder_format |-> "with code",
                      scope              |-> "default",
                      regex_terms        |-> Absent],
          env    |-> [org_key |-> "given", dictionary_path |-> "given"],
          file   |-> File(<<Term("titan", FALSE)>>, <<p1>>)]

(* A string with the variable it may refer to. *)
Strings == {<<Absent, "unset">>, <<"empty", "unset">>} \cup {"reference"} \X {"unset", "empty", "given"}

(* One setting other than usual. *)
Unusual ==
    {[Usual EXCEPT !.params.org_key = s[1], !.env.org_key = s[2]] : s \in Strings}
    \cup
    {[Usual EXCEPT !.params.dictionary_path = s[1], !.env.dictionary_path = s[2]] : s \in Strings}
    \cup
    {[Usual EXCEPT !.params.placeholder_format = "without code"],
     [Usual EXCEPT !.params.scope = Blank]}
    \cup
    {[Usual EXCEPT !.params.regex_terms = r] :
        r \in {<<>>, <<p2>>, <<bad>>, <<Blank>>}}
    \cup
    {[Usual EXCEPT !.file = f] :
        f \in {Absent, Malformed, File(<<Term(Blank, FALSE)>>, <<>>),
               File(<<>>, <<Blank>>), File(<<>>, <<bad>>)}}

MCSetups ==
    {[Usual EXCEPT !.file = File(d, <<p1>>)] : d \in Dictionaries} \cup Unusual
=============================================================================
