---------------------------- MODULE MCRegexCache ----------------------------
(* An instance of RegexCache for TLC.                                      *)
EXTENDS RegexCache, TLC

CONSTANTS v1, v2, v3

(* ("a", "i") and "ai" read the same, ("ab", "i") is cut to "ab".          *)
MCRequests == {[pat |-> <<"a">>, opt |-> <<>>, n |-> 2],
               [pat |-> <<"a">>, opt |-> <<"i">>, n |-> 3],
               [pat |-> <<"a", "i">>, opt |-> <<>>, n |-> 2],
               [pat |-> <<"a", "b">>, opt |-> <<"i">>, n |-> 3],
               [pat |-> <<"b">>, opt |-> <<>>, n |-> 2],
               [pat |-> <<"(">>, opt |-> <<>>, n |-> 2]}
MCInvalid  == {[pat |-> <<"(">>, opt |-> <<>>, n |-> 2]}

Symmetry == Permutations(VMs)
=============================================================================
