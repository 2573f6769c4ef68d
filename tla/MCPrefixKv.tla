----------------------------- MODULE MCPrefixKv -----------------------------
(***************************************************************************)
(* Small instances of PrefixKv for TLC: which sessions arrive, and the     *)
(* kinds of models.                                                        *)
(***************************************************************************)
EXTENDS PrefixKv

CONSTANT s1

\* A session, its next turn with the answer in it, and another one that
\* shares its head.  None leaves another one token before an anchor of it:
\* Forks shows what that does.
Turns == {<<1, 2, 3, 4>>, <<1, 2, 3, 4, 9, 5>>, <<1, 6, 7, 8>>}

\* A session, one that leaves it at its last token, and one that leaves the
\* second later.
Forks == {<<1, 2>>, <<1, 3, 4, 5>>, <<1, 3, 6>>}

Plain == [recurrent |-> FALSE, back |-> 99]
OneBack == [recurrent |-> FALSE, back |-> 1]
Recurrent == [recurrent |-> TRUE, back |-> 0]
TwoArchs == {OneBack, Recurrent}
PlainArch == {Plain}
=============================================================================
