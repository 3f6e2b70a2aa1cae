----------------------------- MODULE MCMessage -----------------------------
(***************************************************************************)
(* Small instances of Message for TLC.                                      *)
(***************************************************************************)
EXTENDS Message, TLC

(* Another program has published a message with headers and a property. *)
OneForeign ==
  {[body |-> [text |-> text, afterNul |-> NoText],
    properties |-> [flag \in Flags |-> text], timestamp |-> Now] : text \in Texts}

(* The application's variables are interchangeable. *)
Symmetry == Permutations(Objects)
=============================================================================
