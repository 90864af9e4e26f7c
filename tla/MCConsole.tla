----------------------------- MODULE MCConsole -----------------------------
(***************************************************************************)
(* Small consoles for TLC: command names of one or two letters.            *)
(***************************************************************************)
EXTENDS Console

MCTable ==
  [name \in {<<"r">>, <<"o">>, <<"r", "o">>, <<"o", "r">>} |->
     CASE name = <<"r">> -> "reset"
       [] name = <<"o">> -> "bmo"
       [] name = <<"r", "o">> -> "help"
       [] name = <<"o", "r">> -> "print"]

=============================================================================
