-------------------------- MODULE MCRepStrongConst --------------------------
(* Instances of RepStrongConst for TLC. *)
EXTENDS RepStrongConst, TLC

CONSTANTS c1, c2, s1, s2

(* One client on each of two servers. *)
TwoHomes == c1 :> s1 @@ c2 :> s2

Everything == [c \in Clients |-> {"Get", "Put", "Append"}]
=============================================================================
