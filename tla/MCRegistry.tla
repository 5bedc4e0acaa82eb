----------------------------- MODULE MCRegistry -----------------------------
(***************************************************************************)
(* Instance of Registry: a name, the same name with a number, which is what *)
(* the engine makes of the second printer of that name, and a third         *)
(* spelling that has the same id; devices without a serial number, and      *)
(* devices that tell nothing about themselves.                              *)
(***************************************************************************)
EXTENDS Registry

MCNames == {[words |-> <<"laser">>, sep |-> ""],
            [words |-> <<"laser", 2>>, sep |-> "_"],
            [words |-> <<"laser", 2>>, sep |-> " "]}

MCFields == {[mfg |-> <<"hp">>, mdl |-> <<"p1">>, sn |-> <<>>],
             [mfg |-> <<>>, mdl |-> <<>>, sn |-> <<>>]}
=============================================================================
