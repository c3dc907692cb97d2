------------------------------ MODULE MCLaunch ------------------------------
(* Values for model checking Launch: how many processes the zygote forks.   *)
EXTENDS Launch

TwoChildren == {"c1", "c2"}
ThreeChildren == TwoChildren \cup {"c3"}

=============================================================================
