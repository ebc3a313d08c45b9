---------------------------- MODULE MCProcessTask ----------------------------
(* A small instance of ProcessTask for TLC. *)
EXTENDS ProcessTask

CONSTANTS shop, blog, t1, t2, t3

Valid(schema) == [schema |-> schema, text |-> TRUE]

MCDetails ==
    {<<>>, <<Valid("blank")>>,
     <<Valid(shop), Valid(shop)>>, <<Valid(shop), Valid(blog)>>,
     <<Valid(shop), [schema |-> blog, text |-> FALSE]>>}
=============================================================================
