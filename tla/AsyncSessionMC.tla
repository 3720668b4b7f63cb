--------------------------- MODULE AsyncSessionMC ---------------------------
(* Instances of AsyncSession small enough for TLC.                          *)
EXTENDS AsyncSessionInvariant, TLC

CONSTANTS click, fill, quit, k1, k2

\* A command that carries a token, and a user close that carries none.
ClickAndQuit == {click, quit}

\* Two commands that carry tokens, so that one is queued behind the other.
ClickAndFill == {click, fill}

\* The two are interchangeable; only the safety run uses it.
Interchangeable == Permutations(ClickAndFill)

=============================================================================
