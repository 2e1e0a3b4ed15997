------------------------------ MODULE MCLoading ------------------------------
(* Scripts for Loading.                                                     *)
EXTENDS Loading

Add(k, s) == [op |-> k, entries |-> s]
DICT(n)   == [op |-> "DICT", name |-> n]
Fill(n)   == [op |-> "dictInit", name |-> n]
Has(main, init, clean) == [main |-> main, init |-> init, clean |-> clean, remap |-> TRUE]

(* Entries once, twice in one call, twice in two, and again after others;   *)
(* dictionaries with and without a function, found, created and too many;   *)
(* a limit that only the last VM reaches; a __clean__ that adds an entry,   *)
(* and one that makes a dictionary; and a script without do_remap.          *)
MCScripts == {
  Has(<<Add("path", <<"a", "a", "b">>), Add("cpath", <<"c">>)>>, <<>>, <<>>),
  Has(<<Add("path", <<"b">>), Add("path", <<"a">>)>>, <<>>, <<Add("path", <<"c">>)>>),
  Has(<<Add("cpath", <<"a", "b">>), Add("cpath", <<"c", "d">>)>>, <<>>, <<>>),
  Has(<<DICT("d"), Fill("d"), DICT("e")>>, <<Fill("d"), DICT("f")>>, <<DICT("f"), Fill("f")>>),
  Has(<<DICT("d"), DICT("d")>>, <<DICT("e"), Fill("e"), Add("path", <<"c">>)>>, <<>>),
  [main |-> <<Add("path", <<"c">>), DICT("d")>>, init |-> <<>>, clean |-> <<>>,
   remap |-> FALSE] }
=============================================================================
