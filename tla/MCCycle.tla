------------------------------- MODULE MCCycle -------------------------------
(* A small instance of Cycle for TLC. *)
EXTENDS Cycle, TLC

CONSTANTS cell, witnesser, broken

Target(keys) == [given |-> IF keys = {} THEN {} ELSE {"keys"}, keys |-> keys,
                 bundled |-> {}, hits |-> {}, topics |-> {}, entities |-> {},
                 kinds |-> {}, limit |-> 3]

Operation(op) == [schema |-> "recall.program.v1", op |-> op, measure |-> "effective",
              delta |-> 150]

\* A witness of whatever its topic finds, which includes what it witnessed
\* before, and a program whose specification is broken.
MCScript ==
       (witnesser :> [spec |-> Operation("emit_witness"), target |-> Target({}),
                      concern |-> Nobody, position |-> 0, created |-> 2])
    @@ (broken    :> [spec |-> Operation("unknown"), target |-> Target({}),
                      concern |-> Nobody, position |-> -1, created |-> 1])
MCTopics == (cell :> {"t"}) @@ (witnesser :> {"t"}) @@ (broken :> {})
==============================================================================
