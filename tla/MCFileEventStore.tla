-------------------------- MODULE MCFileEventStore --------------------------
(* Instances of FileEventStore for TLC: a session created by a batch, and writes of one or two *)
(* events.                                                                                    *)
EXTENDS FileEventStore

CONSTANTS create, batch, single, another

MCWrites == {create, batch, single, another}
MCSize   == [w \in MCWrites |-> IF w \in {single, another} THEN 1 ELSE 2]
=============================================================================
