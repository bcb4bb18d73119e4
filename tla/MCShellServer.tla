---------------------------- MODULE MCShellServer ----------------------------
(***************************************************************************)
(* ShellServer for TLC: two sessions and two pipelines of three stages.    *)
(* One fills each pipe exactly; the other has a stage that reads none of   *)
(* its input, and overflows its second pipe.  Two lines read the keyboard, *)
(* one of them in the session itself.                                      *)
(***************************************************************************)
EXTENDS ShellServer

Command(n) == [cmd |-> "print", size |-> n]
Cat      == [cmd |-> "cat", size |-> 0]
Wc       == [cmd |-> "wc", size |-> 0]

const_Lines == {<<Command(1), Wc, Cat>>, <<Command(1), Command(2), Cat>>,
               <<Command(1)>>, <<Cat, Cat>>, <<Wc>>}
==============================================================================
