----------------------------- MODULE MCProfiLua -----------------------------
(* Scripts and bounds for the host adapter *)
EXTENDS ProfiLua

Script(leaves, nIn, nOut, has, inStr, outStr, good) ==
  [leaves |-> leaves, nIn |-> nIn, nOut |-> nOut, has |-> has,
   inStr |-> inStr, outStr |-> outStr, good |-> good]

\* one input, two outputs, the second a string
Proper == Script(<<>>, 1, 2, Functions5, {}, {2}, TRUE)

\* a later version: the string has moved to the input, one output fewer
Moved == Script(<<"tbl">>, 1, 1, Functions5, {1}, {}, TRUE)

\* good, but without gSimStop, and with a count that wraps to 0
NoStop == Script(<<>>, UcharSize - 1, 1, {"gSimStart", "gCalculate"}, {}, {}, TRUE)

\* a file that does not compile: no counts and no gSimStart
Broken == Script(<<"str">>, NULL, NULL, {}, {}, {}, TRUE)

\* leaves a string behind, may raise and return anything
Rogue == Script(<<"str">>, 0, 2, Functions5, {1}, {2}, FALSE)

\* good, with one pin more than the marker arrays have room for
Many == Script(<<>>, 3, 3, Functions5, {3}, {3}, TRUE)

MCScripts == {Many, Proper, Moved, NoStop, Broken, Rogue}
=============================================================================
