-------------------------------- MODULE MCAbi --------------------------------
EXTENDS Abi
\* Of every length the least and the greatest number, and one between.
MCNumbers == {[n |-> 1, value |-> 0], [n |-> 1, value |-> 3], [n |-> 2, value |-> 5],
              [n |-> 3, value |-> 63], [n |-> 4, value |-> 64]}
\* Empty, shorter than a word, a whole word, longer.
MCStrings == {<<>>, <<1, 2, 3>>, <<3, 0, 2, 1>>, <<1, 1, 0, 0, 2>>}
=============================================================================
