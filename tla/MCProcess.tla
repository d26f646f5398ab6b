----------------------------- MODULE MCProcess ------------------------------
(* Two executables: a text page with a data page, and one with a bss page.  *)
EXTENDS Process

MCImage ==
    << << [va |-> 0, mem |-> 1, file |-> 1, w |-> FALSE] >>,
       << [va |-> 1, mem |-> 1, file |-> 0, w |-> TRUE] >> >>
=============================================================================
