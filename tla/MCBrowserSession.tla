-------------------------- MODULE MCBrowserSession --------------------------
(* Model checking of BrowserSession: symmetry, and where to stop.          *)
EXTENDS BrowserSession, TLC

\* Tabs are interchangeable, and so are slots.
Symmetry == Permutations(Tabs) \cup Permutations(Slots)

\* A mishap is never forgotten, and each invariant of the run holds of every
\* state after one, which it names as an exception: those states are checked
\* when they are reached and not explored further.
BeforeMishap == ~mishap
=============================================================================
