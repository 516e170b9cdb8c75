--------------------------- MODULE MCCachePolicy ---------------------------
(* CachePolicyGrowth on small values: delta-seconds are capped at 4 and     *)
(* stop parsing above 6, so 6 is the last that parses and 7 counts as       *)
(* malformed.                                                              *)
EXTENDS CachePolicyGrowth

Control(directives) ==
  [name |-> "cache-control", ascii |-> TRUE, directives |-> directives, value |-> None]
Unreadable(line) == [line EXCEPT !.ascii = FALSE]

Flag(n) == [name |-> n, arg |-> None]
MaxAge(a) == [name |-> "max-age", arg |-> a]

MCLines ==
  {Control(<<MaxAge(a)>>) : a \in {2, 6, 7, None, Malformed}}
    \cup {Control(<<Flag(n)>>) : n \in {"no-cache", "must-revalidate"}}
    \cup {Control(<<Flag("private"), MaxAge(2), Flag("no-store")>>)}
    \cup {Unreadable(Control(<<MaxAge(2)>>)), Unreadable(Scalar("age", 3))}
    \cup {Scalar("expires", 5), Scalar("date", 3), Scalar("age", 1)}

MCTimes == {0, 1, 3}
MCExpiresChoices == {2, 5, Malformed}
=============================================================================
