---------------------------- MODULE MCCsvReading ----------------------------
EXTENDS CsvReading

Num == "number"
Txt == "text"

\* Two columns of numbers below a line of preamble and a header; the third line
\* of the table has a cell too many.
OneFile ==
  {[lines |-> <<<<Txt>>, <<Txt, Txt>>, <<Num, Num>>, <<Num, Num, Num>>, <<Num, Num>>>>, preamble |-> 1]}
=============================================================================
