----------------------------- MODULE MCMessages -----------------------------
(* Messages with three connections and messages of at most two fields,     *)
(* some of which are empty, too long for their count, or do not fit.  The  *)
(* array of 7 bytes has room for all that a size of 8 lets through.        *)
EXTENDS Messages

F(kind, items) == [kind |-> kind, items |-> items]

SomeFields ==
    {F("number", <<1>>), F("int", <<2>>), F("long", <<1>>), F("array", <<1, 2>>),
     F("text", <<1, 2>>), F("list", <<1, 2, 3, 4>>), F("list", <<>>), F("set", <<1, 2, 3>>)}
=============================================================================
