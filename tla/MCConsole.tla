----------------------------- MODULE MCConsole -----------------------------
EXTENDS Console

\* A number that fits as the longest message may, a short string, and a string
\* whose terminator would be the first character behind the buffer.
SomeFormats ==
  { [s |-> <<"%", "d", "a">>, args |-> <<-10>>, means |-> <<"-", "1", "0", "a">>],
    [s |-> <<"%", "s">>, args |-> <<<<"b">>>>, means |-> <<"b">>],
    [s |-> <<"%", "s">>, args |-> <<<<"c", "c", "c", "c", "c", "c">>>>,
     means |-> <<"c", "c", "c", "c", "c", "c">>] }

Clock == <<"t", "t">>
=============================================================================
