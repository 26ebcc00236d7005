----------------------------- MODULE MCAvPlayer ------------------------------
EXTENDS AvPlayer

CONSTANTS c1, c2

MCClients == {c1, c2}
\* The streams interleaved, and all of one before the other.
MCMovies == {<<"v", "a", "v", "a">>, <<"a", "v", "v", "v">>}
=============================================================================
