------------------------- MODULE MCPosthogSingleton -------------------------
(* PosthogSingleton with two or one threads of each kind. *)
EXTENDS PosthogSingleton, TLC
CONSTANTS g1, g2, f1, f2, c1, c2, p, q
TwoGetters == {g1, g2}
OneGetter == {g1}
OneFlusher == {f1}
TwoFlushers == {f1, f2}
OneCloser == {c1}
TwoClosers == {c1, c2}
TwoPrefixes == {p, q}
OnePrefix == {p}
\* Negative, zero, half a token, two tokens.
MCNumbers == {-4, 0, 2, 8}
OneNumber == {0}
=============================================================================
