---------------------------- MODULE MCCommandLoop ----------------------------
(* CommandLoop with one configured channel and another one, an administrator *)
(* who changes the list and the signatures, and a user who may not.          *)
EXTENDS CommandLoop

CONSTANTS admin, user, c1, c2, t1, t2

By(u, op, c, t) == [from |-> u, op |-> op, ch |-> c, text |-> t]

MCCommands ==
    {By(admin, "add", c1, t1), By(admin, "remove", c1, t1), By(admin, "add", c2, t1),
     By(admin, "sign", c1, t1), By(admin, "signAll", c1, t2), By(user, "remove", c1, t1)}
=============================================================================
